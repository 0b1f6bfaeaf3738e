-------------------------- MODULE SessionQueue_proofs --------------------------
(***************************************************************************)
(* Theorems of SessionQueue, for every choice of its constants.  The       *)
(* invariant IInv is shown inductive one action at a time; the properties  *)
(* are its conjuncts or follow from it.                                    *)
(***************************************************************************)
EXTENDS SessionQueue, TLAPS, SequenceTheorems, FiniteSetTheorems, WellFoundedInduction

(* Run ids are natural numbers. *)
LEMMA MaxRunsIsNat == MaxRuns \in Nat
BY FiniteAssumption, BoundsAssumption, FS_CardinalityType DEF MaxRuns

-----------------------------------------------------------------------------
(* Sequences. *)

(* Taking an element out of a sequence leaves a sequence over the same set. *)
LEMMA RemoveAtType ==
  ASSUME NEW S, NEW s \in Seq(S), NEW i \in DOMAIN s
  PROVE  RemoveAt(s, i) \in Seq(S)
<1>1. /\ Len(s) \in Nat
      /\ DOMAIN s = 1..Len(s)
      /\ \A j \in 1..Len(s) : s[j] \in S
  BY LenProperties
<1>2. SubSeq(s, 1, i - 1) \in Seq(S)
  <2>1. 1 \in Int /\ i - 1 \in Int /\ \A j \in 1..i - 1 : s[j] \in S
    BY <1>1
  <2> QED BY <2>1, SubSeqProperties, Zenon
<1>3. SubSeq(s, i + 1, Len(s)) \in Seq(S)
  <2>1. i + 1 \in Int /\ Len(s) \in Int /\ \A j \in i + 1..Len(s) : s[j] \in S
    BY <1>1
  <2> QED BY <2>1, SubSeqProperties, Zenon
<1> QED BY <1>2, <1>3, ConcatProperties DEF RemoveAt

(* Putting an element into a sequence leaves a sequence over the same set. *)
LEMMA InsertAtType ==
  ASSUME NEW S, NEW s \in Seq(S), NEW i \in 1..Len(s) + 1, NEW e \in S
  PROVE  InsertAt(s, i, e) \in Seq(S)
<1>1. /\ Len(s) \in Nat
      /\ \A j \in 1..Len(s) : s[j] \in S
  BY LenProperties
<1>2. SubSeq(s, 1, i - 1) \in Seq(S)
  <2>1. 1 \in Int /\ i - 1 \in Int /\ \A j \in 1..i - 1 : s[j] \in S
    BY <1>1
  <2> QED BY <2>1, SubSeqProperties, Zenon
<1>3. SubSeq(s, i, Len(s)) \in Seq(S)
  <2>1. i \in Int /\ Len(s) \in Int /\ \A j \in i..Len(s) : s[j] \in S
    BY <1>1
  <2> QED BY <2>1, SubSeqProperties, Zenon
<1>4. <<e>> \in Seq(S)
  OBVIOUS
<1> QED BY <1>2, <1>3, <1>4, ConcatProperties DEF InsertAt

(* A non-empty set of natural numbers has a least element. *)
LEMMA LeastExists ==
  ASSUME NEW T \in SUBSET Nat, T # {}
  PROVE  \E i \in T : \A j \in T : i <= j
<1> DEFINE Below == {p \in Nat \X Nat : p[1] < p[2]}
<1>1. IsWellFoundedOn(Below, Nat)
  BY NatLessThanWellFounded DEF OpToRel
<1> HIDE DEF Below
<1>2. PICK i \in T : \A j \in T : <<j, i>> \notin Below
  BY <1>1, WFMin, Zenon
<1>3. \A j \in T : ~(j < i)
  BY <1>2 DEF Below
<1> QED BY <1>3

(* A bounded non-empty set of natural numbers has a greatest element. *)
LEMMA GreatestExists ==
  ASSUME NEW N \in Nat, NEW T \in SUBSET (0..N), T # {}
  PROVE  \E i \in T : \A j \in T : i >= j
<1> DEFINE U == {k \in 0..N : N - k \in T}
<1>1. U \in SUBSET Nat /\ U # {}
  <2>1. PICK t \in T : TRUE
    OBVIOUS
  <2>2. N - t \in 0..N /\ N - (N - t) = t
    BY <2>1
  <2> QED BY <2>2
<1>2. PICK u \in U : \A v \in U : u <= v
  BY <1>1, LeastExists
<1>3. N - u \in T
  BY <1>2
<1>4. ASSUME NEW j \in T PROVE N - u >= j
  <2>1. j \in 0..N /\ N - j \in 0..N /\ N - (N - j) = j
    OBVIOUS
  <2>2. u <= N - j
    BY <1>2, <2>1
  <2>3. u \in 0..N
    OBVIOUS
  <2> QED BY <2>1, <2>2, <2>3
<1> QED BY <1>3, <1>4

-----------------------------------------------------------------------------
(* Types of the shared steps. *)

(* The documents the queue operations build are documents. *)
LEMMA EnqueuedType ==
  ASSUME NEW q \in Document, NEW r \in Ids, NEW b \in Bodies,
         NEW interrupt \in BOOLEAN
  PROVE  Enqueued(q, r, b, interrupt) \in Document
<1>1. <<r>> \o q.items \in Seq(Ids) /\ Append(q.items, r) \in Seq(Ids)
  BY DEF Document
<1>2. /\ q.revision + 1 \in Nat
      /\ [q.receipts EXCEPT ![r] = "queued"] \in [Ids -> Receipt]
      /\ [q.hash EXCEPT ![r] = b] \in [Ids -> Bodies \cup {None}]
      /\ [q.body EXCEPT ![r] = b] \in [Ids -> Bodies \cup {None}]
  BY DEF Document, Receipt
<1>3. CASE interrupt
  BY <1>1, <1>2, <1>3 DEF Enqueued, Document
<1>4. CASE ~interrupt
  BY <1>1, <1>2, <1>4 DEF Enqueued, Document
<1> QED BY <1>3, <1>4

LEMMA ReinsertedType ==
  ASSUME NEW q \in Document, NEW r \in Editing(q), NEW b \in Bodies
  PROVE  Reinserted(q, r, b) \in Document
<1> DEFINE pos == IF q.edits[r] <= Len(q.items) THEN q.edits[r] ELSE Len(q.items) + 1
<1>1. r \in Ids /\ q.edits[r] \in Nat \ {0}
  BY DEF Editing, Document, NotEditing
<1>2. q.items \in Seq(Ids) /\ Len(q.items) \in Nat
  BY DEF Document
<1>3. pos \in 1..Len(q.items) + 1
  BY <1>1, <1>2
<1>4. InsertAt(q.items, pos, r) \in Seq(Ids)
  BY <1>1, <1>2, <1>3, InsertAtType
<1> HIDE DEF pos
<1>5. [q EXCEPT !.items = InsertAt(@, pos, r), !.edits[r] = NotEditing, !.body[r] = b] \in Document
  BY <1>1, <1>4 DEF Document, NotEditing
<1> QED BY <1>5 DEF Reinserted, pos

LEMMA RemovedType ==
  ASSUME NEW q \in Document, NEW i \in DOMAIN q.items
  PROVE  Removed(q, i) \in Document
<1>1. q.items \in Seq(Ids) /\ q.items[i] \in Ids
  BY DEF Document
<1>2. RemoveAt(q.items, i) \in Seq(Ids)
  BY <1>1, RemoveAtType
<1> QED BY <1>1, <1>2 DEF Removed, Document, Receipt

LEMMA PoppedType ==
  ASSUME NEW q \in Document, NEW r \in Ids, NEW outcome, q.items # <<>>
  PROVE  Popped(q, r, outcome) \in Document
<1>1. Tail(q.items) \in Seq(Ids)
  BY HeadTailProperties DEF Document
<1> DEFINE receipt == IF outcome = "ok" THEN "accepted" ELSE "failed"
<1>2. receipt \in Receipt
  BY DEF Receipt
<1> HIDE DEF receipt
<1>3. q.revision + 1 \in Nat /\ [q.receipts EXCEPT ![r] = receipt] \in [Ids -> Receipt]
  BY <1>2 DEF Document
<1>4. [q EXCEPT !.items = Tail(@), !.revision = @ + 1, !.receipts[r] = receipt] \in Document
  BY <1>1, <1>3 DEF Document
<1> QED BY <1>4 DEF Popped, receipt

LEMMA EditBegunType ==
  ASSUME NEW q \in Document, NEW i \in DOMAIN q.items
  PROVE  [q EXCEPT !.items = RemoveAt(@, i), !.edits[q.items[i]] = i] \in Document
<1>1. q.items \in Seq(Ids) /\ q.items[i] \in Ids /\ i \in Nat
  BY DEF Document
<1>2. RemoveAt(q.items, i) \in Seq(Ids)
  BY <1>1, RemoveAtType
<1> QED BY <1>1, <1>2 DEF Document

LEMMA MovedType ==
  ASSUME NEW q \in Document, NEW i \in DOMAIN q.items, NEW j \in DOMAIN q.items
  PROVE  [q EXCEPT !.items = Moved(@, i, j)] \in Document
<1>1. q.items \in Seq(Ids) /\ q.items[i] \in Ids /\ q.items[j] \in Ids
  BY DEF Document
<1>2. Moved(q.items, i, j) \in Seq(Ids)
  <2>1. i \in 1..Len(q.items) /\ j \in 1..Len(q.items)
    BY <1>1, LenProperties
  <2>2. [q.items EXCEPT ![i] = q.items[j]] \in Seq(Ids)
        /\ Len([q.items EXCEPT ![i] = q.items[j]]) = Len(q.items)
    BY <1>1, <2>1, ExceptSeq
  <2>3. [[q.items EXCEPT ![i] = q.items[j]] EXCEPT ![j] = q.items[i]] \in Seq(Ids)
    BY <1>1, <2>1, <2>2, ExceptSeq
  <2> QED BY <2>3 DEF Moved
<1> QED BY <1>2 DEF Document

LEMMA RunNowType ==
  ASSUME NEW q \in Document, NEW i \in DOMAIN q.items
  PROVE  [q EXCEPT !.items = <<q.items[i]>> \o RemoveAt(@, i), !.paused = FALSE] \in Document
<1>1. q.items \in Seq(Ids) /\ q.items[i] \in Ids
  BY DEF Document
<1>2. RemoveAt(q.items, i) \in Seq(Ids)
  BY <1>1, RemoveAtType
<1>3. <<q.items[i]>> \o RemoveAt(q.items, i) \in Seq(Ids)
  BY <1>1, <1>2
<1> QED BY <1>3 DEF Document

(* Changing one field of one goroutine or record. *)
LEMMA GoroutineFieldsType ==
  ASSUME NEW g \in [RunIds -> Goroutine], NEW n, NEW phase \in Phase, NEW state \in RunState
  PROVE  /\ [g EXCEPT ![n].phase = phase] \in [RunIds -> Goroutine]
         /\ [g EXCEPT ![n].state = state] \in [RunIds -> Goroutine]
<1>1. \A x \in Goroutine : /\ [x EXCEPT !.phase = phase] \in Goroutine
                           /\ [x EXCEPT !.state = state] \in Goroutine
  BY DEF Goroutine
<1> QED BY <1>1

LEMMA RecordFieldsType ==
  ASSUME NEW rs \in [Ids -> RunRecord], NEW r, NEW state \in RunState
  PROVE  /\ [rs EXCEPT ![r].terminal = TRUE] \in [Ids -> RunRecord]
         /\ [rs EXCEPT ![r].state = state] \in [Ids -> RunRecord]
<1>1. \A x \in RunRecord : /\ [x EXCEPT !.terminal = TRUE] \in RunRecord
                           /\ [x EXCEPT !.state = state] \in RunRecord
  BY DEF RunRecord
<1> QED BY <1>1

(* The initial values have their types. *)
LEMMA NoDocumentType == NoDocument \in Document
BY DEF NoDocument, Document, NotEditing, Receipt

LEMMA NoRecordType == NoRecord \in RunRecord
BY MaxRunsIsNat DEF NoRecord, RunRecord, RunState

LEMMA NoGoroutineType == NoGoroutine \in Goroutine
BY DEF NoGoroutine, Goroutine, Phase, RunState

LEMMA NoWorkerType == NoWorker \in Worker
BY DEF NoWorker, Worker

(* Starting, waking and cancelling change a program counter or a flag only. *)
LEMMA WorkerStepsType ==
  ASSUME NEW w \in Worker, NEW q, NEW bad
  PROVE  Woken(w) \in Worker /\ Started(w, q, bad) \in Worker
BY DEF Woken, Started, Worker

LEMMA CancelRunType ==
  ASSUME NEW g \in [RunIds -> Goroutine]
  PROVE  CancelRun(g) \in [RunIds -> Goroutine]
<1>1. \A n \in RunIds : [g[n] EXCEPT !.cancelled = TRUE] \in Goroutine
  BY DEF Goroutine
<1>2. [g EXCEPT ![current].cancelled = TRUE] \in [RunIds -> Goroutine]
  BY <1>1
<1> QED BY <1>2 DEF CancelRun

(* What recovery reads from the journal are records of the session's runs. *)
LEMMA RecoveredRunsType ==
  ASSUME TypeOK
  PROVE  RecoveredRuns \in [Ids -> RunRecord]
<1>1. journal \in Seq(Event) /\ Len(journal) \in Nat /\ DOMAIN journal = 1..Len(journal)
  BY DEF TypeOK
<1>2. \A i \in DOMAIN journal : journal[i] \in Event
  BY <1>1, ElementOfSeq
<1>3. ASSUME NEW r \in Ids, Acceptances(r) # {}
      PROVE  FirstAcceptance(r) \in RunIds
  <2>1. Acceptances(r) \in SUBSET Nat /\ Acceptances(r) \subseteq DOMAIN journal
    BY <1>1 DEF Acceptances
  <2>2. \E i \in Acceptances(r) : \A j \in Acceptances(r) : i <= j
    BY <1>3, <2>1, LeastExists
  <2> QED BY <1>2, <2>1, <2>2 DEF FirstAcceptance, Event
<1>4. ASSUME NEW r \in Ids PROVE Attached(r) \in RunRecord
  <2>1. runsFile.runs[r] \in RunRecord
    BY DEF TypeOK
  <2>2. ASSUME NEW n \in RunIds
        PROVE  [NoRecord EXCEPT !.kind = "prompt", !.run = n] \in RunRecord
    <3>1. n \in 0..MaxRuns
      BY MaxRunsIsNat DEF RunIds
    <3> QED BY <3>1 DEF NoRecord, RunRecord, RunState
  <2> QED BY <1>3, <2>1, <2>2 DEF Attached
<1>5. ASSUME NEW rec \in RunRecord PROVE Settled(rec) \in RunRecord
  <2> DEFINE T == Terminals(rec.run)
  <2>1. CASE T # {}
    <3>1. T \in SUBSET (0..Len(journal)) /\ T \subseteq DOMAIN journal
      BY <1>1 DEF Terminals
    <3>2. \E i \in T : \A j \in T : i >= j
      BY <1>1, <2>1, <3>1, GreatestExists
    <3>3. PICK i \in T : i = CHOOSE k \in T : \A j \in T : k >= j
      BY <3>2
    <3>4. journal[i].state \in RunState
      BY <1>2, <3>1 DEF Event
    <3>5. [rec EXCEPT !.terminal = TRUE, !.state = journal[i].state] \in RunRecord
      BY <3>4 DEF RunRecord
    <3> QED BY <3>3, <3>5 DEF Settled
  <2>2. CASE T = {}
    BY <2>2 DEF Settled
  <2> QED BY <2>1, <2>2
<1> QED BY <1>4, <1>5 DEF RecoveredRuns, TypeOK

(* The records an acceptance and a compaction write. *)
LEMMA NewRecordsType ==
  ASSUME nextRun \in RunIds, runs \in [Ids -> RunRecord],
         NEW r \in Ids, NEW b \in Bodies \cup {None}
  PROVE  /\ Recorded(r, b) \in [Ids -> RunRecord]
         /\ [runs EXCEPT ![r] = CompactRecord] \in [Ids -> RunRecord]
<1>1. nextRun \in 0..MaxRuns
  BY MaxRunsIsNat DEF RunIds
<1>2. [NoRecord EXCEPT !.kind = "prompt", !.run = nextRun, !.hash = b] \in RunRecord
  BY <1>1 DEF NoRecord, RunRecord, RunState
<1>3. CompactRecord \in RunRecord
  BY <1>1 DEF CompactRecord, NoRecord, RunRecord, RunState
<1> QED BY <1>2, <1>3 DEF Recorded

LEMMA WriteType ==
  ASSUME faults \in Nat, NEW ok \in BOOLEAN, Write(ok)
  PROVE  faults' \in Nat
BY DEF Write

(* A save of the queue, with its event, interrupt and worker, keeps the types. *)
LEMMA CommitType ==
  ASSUME TypeOK, NEW next \in Document, NEW interrupt \in BOOLEAN, Commit(next, interrupt),
         UNCHANGED <<serverVars, clientVars, boots>>
  PROVE  TypeOK'
<1>1. CASE Write(FALSE) /\ UNCHANGED <<fileVars, rtVars, workVars, goVars>>
  BY <1>1 DEF TypeOK, Write, fileVars, rtVars, workVars, goVars, serverVars, clientVars
<1>2. ASSUME NEW published \in BOOLEAN,
             Write(published), disk' = next, queue' = next, quarantined' = ~published,
             go' = IF interrupt THEN CancelRun(go) ELSE go,
             worker' = Started(Woken(worker), next, ~published),
             UNCHANGED <<journal, runsFile, live, runs, active, current, dispatch, nextRun>>
      PROVE  TypeOK'
  <2>1. go' \in [RunIds -> Goroutine]
    BY <1>2, CancelRunType DEF TypeOK
  <2>2. worker' \in Worker
    BY <1>2, WorkerStepsType DEF TypeOK
  <2>3. faults' \in Nat
    BY <1>2, WriteType DEF TypeOK
  <2>4. quarantined' \in BOOLEAN
    BY <1>2, Zenon
  <2> QED BY <1>2, <2>1, <2>2, <2>3, <2>4 DEF TypeOK, serverVars, clientVars
<1> QED BY <1>1, <1>2 DEF Commit

LEMMA ActionType ==
  ASSUME TypeOK, NEW next \in Document, NEW interrupt \in BOOLEAN, Action(next, interrupt)
  PROVE  TypeOK'
<1>1. [next EXCEPT !.revision = @ + 1] \in Document
  <2>1. next.revision + 1 \in Nat
    BY DEF Document
  <2> QED BY <2>1 DEF Document
<1> QED BY <1>1, CommitType DEF Action

(* Accepting a run, or failing to, keeps the types of what it changes. *)
LEMMA StartRunType ==
  ASSUME TypeOK, NEW r \in Ids, NEW b \in Bodies \cup {None}, StartRun(r, b)
  PROVE  /\ journal' \in Seq(Event)
         /\ runsFile' \in [torn: BOOLEAN, runs: [Ids -> RunRecord]]
         /\ runs' \in [Ids -> RunRecord]
         /\ go' \in [RunIds -> Goroutine]
         /\ active' \in BOOLEAN /\ quarantined' \in BOOLEAN
         /\ current' \in 0..MaxRuns /\ nextRun' \in 1..MaxRuns + 1
         /\ faults' \in Nat
<1>1. nextRun \in RunIds /\ current' = nextRun /\ nextRun' = nextRun + 1
  BY DEF StartRun
<1>2. current' \in 0..MaxRuns /\ nextRun' \in 1..MaxRuns + 1
  BY <1>1, MaxRunsIsNat DEF RunIds
<1>3. AcceptedEvent(nextRun, r) \in Event
  BY <1>1 DEF AcceptedEvent, Event, RunState
<1>4. Append(journal, AcceptedEvent(nextRun, r)) \in Seq(Event)
  BY <1>3, AppendProperties DEF TypeOK
<1>5. Recorded(r, b) \in [Ids -> RunRecord]
  BY <1>1, NewRecordsType DEF TypeOK
<1>6. CASE Accept(r, b)
  <2>1. [NoGoroutine EXCEPT !.phase = "turn", !.kind = "prompt", !.req = r, !.body = b]
          \in Goroutine
    BY DEF NoGoroutine, Goroutine, Phase, RunState
  <2>2. go' \in [RunIds -> Goroutine]
    BY <1>6, <2>1 DEF Accept, Execute, TypeOK
  <2> QED BY <1>2, <1>4, <1>5, <1>6, <2>2 DEF Accept, SavedRuns, Write, TypeOK
<1>7. CASE AbortAcceptance(r, b)
  <2>1. runsFile' \in [torn: BOOLEAN, runs: [Ids -> RunRecord]]
    BY <1>7 DEF AbortAcceptance, FailedRunsFile, TypeOK
  <2>2. journal' \in Seq(Event) /\ runs' \in [Ids -> RunRecord]
    BY <1>4, <1>5, <1>7 DEF AbortAcceptance, TypeOK
  <2>3. faults' \in Nat
    BY <1>7, WriteType DEF AbortAcceptance, TypeOK
  <2> QED BY <1>2, <1>7, <2>1, <2>2, <2>3 DEF AbortAcceptance, TypeOK
<1> QED BY <1>6, <1>7 DEF StartRun

(* So does writing runs.json when a run ends. *)
LEMMA PersistEndType ==
  ASSUME TypeOK, NEW rs \in [Ids -> RunRecord], NEW lost \in BOOLEAN, PersistEnd(rs, lost)
  PROVE  /\ runs' \in [Ids -> RunRecord]
         /\ runsFile' \in [torn: BOOLEAN, runs: [Ids -> RunRecord]]
         /\ quarantined' \in BOOLEAN
         /\ faults' \in Nat
<1>1. PICK ok \in BOOLEAN :
        /\ Write(ok)
        /\ quarantined' = (quarantined \/ lost \/ ~ok)
        /\ IF ok THEN runsFile' = SavedRuns(rs) ELSE runsFile' \in FailedRunsFile
  BY DEF PersistEnd
<1>2. faults' \in Nat
  BY <1>1, WriteType DEF TypeOK
<1>3. runsFile' \in [torn: BOOLEAN, runs: [Ids -> RunRecord]]
  <2>1. SavedRuns(rs) \in [torn: BOOLEAN, runs: [Ids -> RunRecord]]
    BY DEF SavedRuns
  <2>2. FailedRunsFile \subseteq [torn: BOOLEAN, runs: [Ids -> RunRecord]]
    BY DEF FailedRunsFile, TypeOK
  <2> QED BY <1>1, <2>1, <2>2, Zenon
<1>4. quarantined' \in BOOLEAN
  BY <1>1, Zenon
<1> QED BY <1>2, <1>3, <1>4 DEF PersistEnd

-----------------------------------------------------------------------------
(* Type correctness. *)

(* What the worker and the run goroutines work on. *)
WorkBound == WorkerBound /\ RunsBound

LEMMA InitType == Init => TypeOK
<1> SUFFICES ASSUME Init PROVE TypeOK
  OBVIOUS
<1>1. SavedRuns(NoRecords) \in [torn: BOOLEAN, runs: [Ids -> RunRecord]]
  BY NoRecordType DEF SavedRuns, NoRecords
<1>2. go \in [RunIds -> Goroutine] /\ runs \in [Ids -> RunRecord]
  BY NoGoroutineType, NoRecordType DEF Init, NoRecords
<1>3. nextRun \in 1..MaxRuns + 1 /\ current \in 0..MaxRuns
  BY MaxRunsIsNat DEF Init
<1>4. seen \in Snapshot /\ told \in [Ids -> ReceiptView]
  BY DEF Init, Snapshot, ReceiptView, Receipt
<1>5. disk \in Document /\ queue \in Document /\ worker \in Worker /\ journal \in Seq(Event)
  BY NoDocumentType, NoWorkerType DEF Init
<1>6. runsFile \in [torn: BOOLEAN, runs: [Ids -> RunRecord]]
  BY <1>1 DEF Init
<1>7. /\ live \in BOOLEAN /\ active \in BOOLEAN /\ quarantined \in BOOLEAN
      /\ shutting \in BOOLEAN /\ closing \in BOOLEAN
      /\ dispatch \in Ids \cup {None} /\ boots \in Nat /\ faults \in Nat
  BY DEF Init
<1> QED BY <1>2, <1>3, <1>4, <1>5, <1>6, <1>7 DEF TypeOK

(* Reading a snapshot or a receipt. *)
LEMMA ReadType ==
  ASSUME TypeOK, ReadSnapshot \/ \E r \in Watched : ReadReceipt(r)
  PROVE  TypeOK'
<1>1. CASE ReadSnapshot
  <2>1. seen' \in Snapshot
    BY <1>1 DEF ReadSnapshot, Snapshot, TypeOK, Document
  <2> QED BY <1>1, <2>1 DEF ReadSnapshot, TypeOK, fileVars, rtVars, workVars, goVars, serverVars
<1>2. ASSUME NEW r \in Watched, ReadReceipt(r) PROVE TypeOK'
  <2>1. told' \in [Ids -> ReceiptView]
    <3>1. r \in Ids => View(r) \in ReceiptView
      BY DEF View, ReceiptView, TypeOK, Document, RunRecord
    <3> QED BY <1>2, <3>1 DEF ReadReceipt, TypeOK
  <2> QED BY <1>2, <2>1 DEF ReadReceipt, TypeOK, fileVars, rtVars, workVars, goVars, serverVars
<1> QED BY <1>1, <1>2

LEMMA QueueHandlerType == TypeOK /\ QueueHandler => TypeOK'
<1> SUFFICES ASSUME TypeOK, QueueHandler PROVE TypeOK'
  OBVIOUS
<1> USE DEF TypeOK
<1>1. ASSUME NEW r \in QueueIds, NEW b \in Bodies, NEW interrupt \in BOOLEAN,
             Submit(r, b, interrupt)
      PROVE  TypeOK'
  <2>1. Enqueued(queue, r, b, interrupt) \in Document
    BY EnqueuedType DEF Ids
  <2>2. (interrupt /\ ~queue.paused) \in BOOLEAN
    OBVIOUS
  <2> QED BY <1>1, <2>1, <2>2, CommitType DEF Submit
<1>2. CASE PauseQueue \/ ResumeQueue
  <2>1. /\ [queue EXCEPT !.paused = TRUE] \in Document
        /\ [queue EXCEPT !.paused = FALSE] \in Document
    BY DEF Document
  <2> QED BY <1>2, <2>1, ActionType DEF PauseQueue, ResumeQueue
<1>3. ASSUME NEW i \in DOMAIN queue.items, EditBegin(i) PROVE TypeOK'
  BY <1>3, EditBegunType, ActionType DEF EditBegin
<1>4. ASSUME NEW i \in DOMAIN queue.items, RemoveItem(i) PROVE TypeOK'
  BY <1>4, RemovedType, ActionType DEF RemoveItem
<1>5. ASSUME NEW i \in DOMAIN queue.items, RunNow(i) PROVE TypeOK'
  BY <1>5, RunNowType, ActionType DEF RunNow
<1>6. ASSUME NEW i \in DOMAIN queue.items, NEW j, Move(i, j) PROVE TypeOK'
  BY <1>6, MovedType, ActionType DEF Move
<1>7. ASSUME NEW r \in QueueIds, NEW b \in Bodies, EditEnd(r, b) PROVE TypeOK'
  BY <1>7, ReinsertedType, ActionType DEF EditEnd
<1>8. CASE ReadSnapshot \/ \E r \in Watched : ReadReceipt(r)
  BY <1>8, ReadType
<1> QED BY <1>1, <1>2, <1>3, <1>4, <1>5, <1>6, <1>7, <1>8 DEF QueueHandler

LEMMA OtherHandlerType == TypeOK /\ OtherHandler => TypeOK'
<1> SUFFICES ASSUME TypeOK, OtherHandler PROVE TypeOK'
  OBVIOUS
<1> USE DEF TypeOK, serverVars, clientVars
<1>1. ASSUME NEW r \in PromptIds, NEW b \in Bodies, Prompt(r, b) PROVE TypeOK'
  <2>1. worker' \in Worker
    BY <1>1, WorkerStepsType DEF Prompt
  <2>2. r \in Ids /\ b \in Bodies \cup {None} /\ StartRun(r, b)
    BY <1>1 DEF Prompt, Ids
  <2> QED BY <1>1, <2>1, <2>2, StartRunType DEF Prompt
<1>2. ASSUME NEW c \in CompactIds, Compact(c) PROVE TypeOK'
  <2>1. c \in Ids /\ nextRun \in RunIds
    BY <1>2 DEF Compact, Ids
  <2>2. current' \in 0..MaxRuns /\ nextRun' \in 1..MaxRuns + 1
    BY <1>2, <2>1, MaxRunsIsNat DEF Compact, RunIds
  <2>3. worker' \in Worker /\ active' \in BOOLEAN /\ quarantined' \in BOOLEAN
    BY <1>2, WorkerStepsType DEF Compact
  <2>4. faults' \in Nat
    BY <1>2, WriteType DEF Compact
  <2>5. /\ runs' \in [Ids -> RunRecord]
        /\ runsFile' \in [torn: BOOLEAN, runs: [Ids -> RunRecord]]
    <3> DEFINE rs == [runs EXCEPT ![c] = CompactRecord]
    <3>1. rs \in [Ids -> RunRecord]
      BY <2>1, NewRecordsType
    <3>2. /\ SavedRuns(rs) \in [torn: BOOLEAN, runs: [Ids -> RunRecord]]
          /\ FailedRunsFile \subseteq [torn: BOOLEAN, runs: [Ids -> RunRecord]]
      BY <3>1 DEF SavedRuns, FailedRunsFile
    <3>3. \/ runs' = rs /\ runsFile' = SavedRuns(rs)
          \/ runs' = runs /\ runsFile' \in FailedRunsFile
      BY <1>2 DEF Compact
    <3> HIDE DEF rs
    <3> QED BY <3>1, <3>2, <3>3
  <2>6. go' \in [RunIds -> Goroutine]
    <3>1. /\ [NoGoroutine EXCEPT !.phase = "turn", !.kind = "compact", !.req = c, !.body = None]
                \in Goroutine
          /\ [NoGoroutine EXCEPT !.phase = "ended", !.kind = "compact", !.req = c,
                                 !.state = "failed"] \in Goroutine
      BY <2>1 DEF NoGoroutine, Goroutine, Phase, RunState
    <3> QED BY <1>2, <3>1 DEF Compact, Execute
  <2> QED BY <1>2, <2>2, <2>3, <2>4, <2>5, <2>6 DEF Compact
<1>3. CASE Cancel
  BY <1>3, CancelRunType DEF Cancel, fileVars, rtVars, workVars
<1> QED BY <1>1, <1>2, <1>3 DEF OtherHandler

LEMMA WorkerStepType == TypeOK /\ WorkBound /\ WorkerStep => TypeOK'
<1> SUFFICES ASSUME TypeOK, WorkBound, WorkerStep PROVE TypeOK'
  OBVIOUS
<1> USE DEF TypeOK, fileVars, rtVars, goVars, serverVars, clientVars
<1>1. CASE WorkerLoop
  <2>1. CASE WorkerMustStop \/ active
    <3>1. /\ UNCHANGED dispatch
          /\ \E pc \in {"exit", "waiting"} : worker' = [worker EXCEPT !.pc = pc]
      BY <1>1, <2>1 DEF WorkerLoop
    <3>2. worker' \in Worker
      BY <3>1 DEF Worker
    <3> QED BY <1>1, <3>1, <3>2 DEF WorkerLoop
  <2>2. CASE ~(WorkerMustStop \/ active)
    <3> DEFINE r == Head(queue.items)
    <3>1. r \in Ids
      BY <2>2, HeadTailProperties DEF WorkerMustStop, Document
    <3> HIDE DEF r
    <3>2. queue.body[r] \in Bodies \cup {None}
      BY <3>1 DEF Document
    <3>3. /\ dispatch' = r
          /\ worker' = [pc |-> IF runs[r].kind = "none" THEN "dispatch" ELSE "settle",
                        req |-> r, body |-> queue.body[r], outcome |-> "ok"]
      BY <1>1, <2>2 DEF WorkerLoop, r
    <3>4. worker' \in Worker
      BY <3>1, <3>2, <3>3 DEF Worker
    <3> QED BY <1>1, <3>1, <3>3, <3>4 DEF WorkerLoop
  <2> QED BY <1>1, <2>1, <2>2 DEF WorkerLoop
<1>2. CASE WorkerDispatch
  <2>1. CASE /\ worker' = [worker EXCEPT !.pc = "settle",
                                        !.outcome = Answer(worker.req, worker.body)]
             /\ UNCHANGED <<fileVars, rtVars, goVars, faults>>
    <3>1. Answer(worker.req, worker.body) \in {"ok", "busy", "failed"}
      BY DEF Answer
    <3>2. worker' \in Worker
      BY <2>1, <3>1 DEF Worker
    <3> QED BY <1>2, <2>1, <3>2 DEF WorkerDispatch
  <2>2. CASE /\ DispatchStarts
             /\ worker' = [worker EXCEPT !.pc = "settle",
                                         !.outcome = IF quarantined' THEN "failed" ELSE "ok"]
    <3>1. worker' \in Worker
      BY <2>2 DEF Worker
    <3>2. worker.req \in Ids /\ worker.body \in Bodies \cup {None}
      BY <1>2 DEF WorkerDispatch, WorkBound, WorkerBound, Worker
    <3> QED BY <1>2, <2>2, <3>1, <3>2, StartRunType DEF WorkerDispatch, DispatchStarts
  <2> QED BY <1>2, <2>1, <2>2 DEF WorkerDispatch
<1>3. CASE WorkerSettle
  <2>1. worker' \in Worker
    <3>1. \E pc \in {"loop", "exit"} : worker' = [worker EXCEPT !.pc = pc]
      BY <1>3 DEF WorkerSettle, Pop
    <3> QED BY <3>1 DEF Worker
  <2>2. UNCHANGED <<disk, queue>> \/ (disk' = queue' /\ queue' \in Document)
    <3>1. worker.req \in Ids
      BY <1>3 DEF WorkerSettle, WorkBound, WorkerBound
    <3>2. CASE HeadIsDispatched /\ queue' = Popped(queue, worker.req, worker.outcome)
               /\ disk' = queue'
      BY <3>1, <3>2, PoppedType DEF HeadIsDispatched
    <3> QED BY <1>3, <3>2 DEF WorkerSettle, Pop
  <2>3. faults' \in Nat
    BY <1>3, WriteType DEF WorkerSettle, Pop
  <2>4. quarantined' \in BOOLEAN
    <3>1. \/ quarantined' = quarantined
          \/ quarantined' = TRUE
          \/ \E published \in BOOLEAN : quarantined' = ~published
      BY <1>3 DEF WorkerSettle, Pop
    <3> QED BY <3>1
  <2> QED BY <1>3, <2>1, <2>2, <2>3, <2>4 DEF WorkerSettle
<1>4. CASE WorkerExit
  BY <1>4, NoWorkerType, WorkerStepsType DEF WorkerExit
<1> QED BY <1>1, <1>2, <1>3, <1>4 DEF WorkerStep

LEMMA RunStepType ==
  ASSUME TypeOK, WorkBound, NEW n \in RunIds, RunStep(n)
  PROVE  TypeOK'
<1> USE DEF TypeOK, fileVars, rtVars, workVars, serverVars, clientVars
<1>1. go[n] \in Goroutine /\ runs \in [Ids -> RunRecord]
  OBVIOUS
<1>2. ASSUME NEW phase \in Phase, NEW state \in RunState
      PROVE  [go EXCEPT ![n].phase = phase, ![n].state = state] \in [RunIds -> Goroutine]
             /\ [go EXCEPT ![n].phase = phase] \in [RunIds -> Goroutine]
  <2> DEFINE g == [go EXCEPT ![n].phase = phase]
  <2>1. g \in [RunIds -> Goroutine]
    BY <1>2, GoroutineFieldsType
  <2>2. [g EXCEPT ![n].state = state] \in [RunIds -> Goroutine]
    <3> HIDE DEF g
    <3> QED BY <2>1, GoroutineFieldsType
  <2> QED BY <2>1, <2>2
<1>3. ASSUME NEW state \in RunState, NEW r
      PROVE  /\ [runs EXCEPT ![r].terminal = TRUE, ![r].state = state] \in [Ids -> RunRecord]
             /\ [runs EXCEPT ![r].terminal = TRUE] \in [Ids -> RunRecord]
             /\ [runs EXCEPT ![r].state = state] \in [Ids -> RunRecord]
  <2> DEFINE rs == [runs EXCEPT ![r].terminal = TRUE]
  <2>1. rs \in [Ids -> RunRecord] /\ [runs EXCEPT ![r].state = state] \in [Ids -> RunRecord]
    BY <1>1, RecordFieldsType
  <2>2. [rs EXCEPT ![r].state = state] \in [Ids -> RunRecord]
    <3> HIDE DEF rs
    <3> QED BY <2>1, RecordFieldsType
  <2> QED BY <2>1, <2>2
<1>4. CASE TurnEnds(n)
  <2>1. PICK ok \in BOOLEAN, state \in Outcomes :
          /\ Write(ok)
          /\ journal' = IF ok THEN Append(journal, TerminalEvent(n, go[n].req, state)) ELSE journal
          /\ go' = [go EXCEPT ![n].phase = IF ok THEN "ended" ELSE "unjournaled",
                              ![n].state = state]
          /\ worker' = IF ok THEN Woken(worker) ELSE worker
    BY <1>4 DEF TurnEnds
  <2>2. state \in RunState
    BY OutcomesAssumption DEF RunState
  <2>3. go[n].req \in Ids
    BY <1>4 DEF TurnEnds, WorkBound, RunsBound
  <2>4. TerminalEvent(n, go[n].req, state) \in Event
    BY <2>2, <2>3 DEF TerminalEvent, Event
  <2>5. journal' \in Seq(Event)
    BY <2>1, <2>4, AppendProperties
  <2>6. go' \in [RunIds -> Goroutine]
    <3>1. (IF ok THEN "ended" ELSE "unjournaled") \in Phase
      BY DEF Phase
    <3> QED BY <2>1, <2>2, <3>1, <1>2
  <2>7. worker' \in Worker /\ faults' \in Nat
    BY <2>1, WorkerStepsType, WriteType
  <2> QED BY <1>4, <2>5, <2>6, <2>7 DEF TurnEnds
<1>5. CASE RecordState(n)
  <2>1. go' \in [RunIds -> Goroutine]
    BY <1>2, <1>5 DEF RecordState, Phase, RunState
  <2>2. runs' \in [Ids -> RunRecord]
    BY <1>1, <1>3, <1>5 DEF RecordState, Goroutine
  <2>3. quarantined' \in BOOLEAN
    BY <1>5, Zenon DEF RecordState
  <2> QED BY <1>5, <2>1, <2>2, <2>3 DEF RecordState
<1>6. CASE Release(n)
  <2>1. go' \in [RunIds -> Goroutine] /\ worker' \in Worker
    BY <1>2, <1>6, WorkerStepsType DEF Release, Phase, RunState
  <2>2. [runs EXCEPT ![go[n].req].terminal = TRUE] \in [Ids -> RunRecord]
    BY <1>3 DEF RunState
  <2>3. PersistEnd([runs EXCEPT ![go[n].req].terminal = TRUE], FALSE)
    BY <1>6 DEF Release
  <2> QED BY <1>6, <2>1, <2>2, <2>3, PersistEndType DEF Release
<1>7. CASE RunTail(n)
  BY <1>2, <1>7, WorkerStepsType DEF RunTail, Phase, RunState
<1>8. CASE CompactFinish(n)
  <2> DEFINE rs == [runs EXCEPT ![go[n].req].terminal = TRUE, ![go[n].req].state = go[n].state]
             lost == go[n].phase = "unjournaled"
  <2>1. go' \in [RunIds -> Goroutine] /\ worker' \in Worker
    BY <1>2, <1>8, WorkerStepsType DEF CompactFinish, Phase, RunState
  <2>2. rs \in [Ids -> RunRecord]
    BY <1>1, <1>3 DEF Goroutine
  <2>3. PersistEnd(rs, lost) /\ lost \in BOOLEAN
    BY <1>8 DEF CompactFinish
  <2> HIDE DEF rs, lost
  <2> QED BY <1>8, <2>1, <2>2, <2>3, PersistEndType DEF CompactFinish
<1> QED BY <1>4, <1>5, <1>6, <1>7, <1>8 DEF RunStep

LEMMA EnvironmentType == TypeOK /\ Environment => TypeOK'
<1> SUFFICES ASSUME TypeOK, Environment PROVE TypeOK'
  OBVIOUS
<1> USE DEF TypeOK, fileVars, rtVars, workVars, goVars, serverVars, clientVars
<1>1. CASE Load
  <2>1. [disk EXCEPT !.paused = disk.revision # 0] \in Document
    BY DEF Document
  <2>2. LoadedQueue \in Document /\ RecoveredRuns \in [Ids -> RunRecord]
    BY <2>1, RecoveredRunsType DEF LoadedQueue
  <2> QED BY <1>1, <2>2 DEF Load
<1>2. ASSUME Unload
      PROVE  /\ live' \in BOOLEAN /\ active' \in BOOLEAN /\ quarantined' \in BOOLEAN
             /\ queue' \in Document /\ runs' \in [Ids -> RunRecord]
             /\ current' \in 0..MaxRuns /\ dispatch' \in Ids \cup {None} /\ worker' \in Worker
  <2>1. queue' \in Document /\ worker' \in Worker /\ dispatch' \in Ids \cup {None}
    BY <1>2, NoDocumentType, NoWorkerType DEF Unload
  <2>2. runs' \in [Ids -> RunRecord]
    BY <1>2, NoRecordType DEF Unload, NoRecords
  <2>3. current' \in 0..MaxRuns
    BY <1>2, MaxRunsIsNat DEF Unload
  <2>4. live' \in BOOLEAN /\ active' \in BOOLEAN /\ quarantined' \in BOOLEAN
    BY <1>2 DEF Unload
  <2> QED BY <2>1, <2>2, <2>3, <2>4
<1>3. CASE Evict
  BY <1>2, <1>3 DEF Evict
<1>4. CASE ShutDown
  BY <1>4 DEF ShutDown
<1>5. CASE CloseSession
  BY <1>5, CancelRunType, WorkerStepsType DEF CloseSession
<1>6. ASSUME Restart
      PROVE  /\ go' \in [RunIds -> Goroutine] /\ boots' \in Nat
             /\ shutting' \in BOOLEAN /\ closing' \in BOOLEAN
  <2>1. \A n \in RunIds : [go[n] EXCEPT !.phase = "done"] \in Goroutine
    BY ZenonT(60) DEF Goroutine, Phase
  <2>2. go' \in [RunIds -> Goroutine]
    BY <1>6, <2>1 DEF Restart
  <2>3. boots' \in Nat
    BY <1>6 DEF Restart
  <2>4. shutting' \in BOOLEAN /\ closing' \in BOOLEAN
    BY <1>6 DEF Restart
  <2> QED BY <2>2, <2>3, <2>4
<1>7. CASE Crash
  BY <1>2, <1>6, <1>7 DEF Crash, Restart
<1>8. ASSUME NEW r \in Ids, CrashInAcceptance(r) PROVE TypeOK'
  <2>1. AcceptedEvent(nextRun, r) \in Event
    BY <1>8 DEF CrashInAcceptance, AcceptedEvent, Event, RunState
  <2>2. journal' \in Seq(Event)
    BY <1>8, <2>1, AppendProperties DEF CrashInAcceptance
  <2>3. runsFile' \in [torn: BOOLEAN, runs: [Ids -> RunRecord]]
    BY <1>8 DEF CrashInAcceptance, FailedRunsFile
  <2>4. nextRun' \in 1..MaxRuns + 1
    BY <1>8, MaxRunsIsNat DEF CrashInAcceptance, RunIds
  <2> QED BY <1>2, <1>6, <1>8, <2>2, <2>3, <2>4 DEF CrashInAcceptance, Restart
<1>9. ASSUME NEW n \in RunIds, CrashInRelease(n) PROVE TypeOK'
  <2>1. runsFile' \in [torn: BOOLEAN, runs: [Ids -> RunRecord]]
    BY <1>9 DEF CrashInRelease
  <2> QED BY <1>2, <1>6, <1>9, <2>1 DEF CrashInRelease, Restart
<1> QED BY <1>1, <1>3, <1>4, <1>5, <1>7, <1>8, <1>9 DEF Environment

(* Every step keeps the types. *)
LEMMA NextType == TypeOK /\ WorkBound /\ [Next]_vars => TypeOK'
<1> SUFFICES ASSUME TypeOK, WorkBound, [Next]_vars PROVE TypeOK'
  OBVIOUS
<1>1. CASE UNCHANGED vars
  BY <1>1 DEF vars, fileVars, rtVars, workVars, goVars, serverVars, clientVars, TypeOK
<1> QED BY <1>1, QueueHandlerType, OtherHandlerType, WorkerStepType, RunStepType,
           EnvironmentType DEF Next

-----------------------------------------------------------------------------
(* The invariant of the runs: what is executed was recorded first, once.      *)

RunInv ==
  /\ RunsBound /\ RunningIsCurrent /\ RunsRemembered
  /\ DurableBeforeExecution /\ AtMostOnce

(* Appending to the journal keeps the events it has. *)
LEMMA JournalGrows ==
  ASSUME journal \in Seq(Event), NEW e \in Event, journal' = Append(journal, e),
         NEW i \in DOMAIN journal
  PROVE  i \in DOMAIN journal' /\ journal'[i] = journal[i]
OBVIOUS

(* A step that starts no run, keeps who runs what and does not wake a finished    *)
(* run keeps the invariant if it keeps the records of the started prompts.           *)
LEMMA NothingStarts ==
  ASSUME TypeOK, RunInv,
         \A n \in RunIds : /\ go'[n].kind = go[n].kind
                           /\ go'[n].req = go[n].req
                           /\ go'[n].phase = "none" <=> go[n].phase = "none"
                           /\ Unfinished(n)' => live'
                           /\ Running(n)' => Running(n) /\ active' /\ current' = current,
         active' => live',
         nextRun' \in {nextRun, nextRun + 1},
         journal' = journal \/ \E e \in Event : journal' = Append(journal, e),
         RunsRemembered'
  PROVE  RunInv'
<1>1. RunsBound'
  <2> SUFFICES ASSUME NEW n \in RunIds
               PROVE  /\ n >= nextRun' => go'[n].kind = "none"
                      /\ go'[n].kind = "none" <=> go'[n].phase = "none"
                      /\ go'[n].kind # "none" => go'[n].req \in Ids
    BY DEF RunsBound
  <2>1. n >= nextRun' => n >= nextRun
    BY MaxRunsIsNat DEF RunIds, TypeOK
  <2> QED BY <2>1 DEF RunInv, RunsBound
<1>2. RunningIsCurrent'
  BY DEF RunInv, RunningIsCurrent
<1>3. AtMostOnce'
  BY DEF RunInv, AtMostOnce
<1>4. DurableBeforeExecution'
  <2> SUFFICES ASSUME NEW n \in RunIds, go'[n].kind = "prompt"
               PROVE  /\ \E i \in DOMAIN journal' : journal'[i] = AcceptedEvent(n, go'[n].req)
                      /\ runsFile'.torn \/ runsFile'.runs[go'[n].req].run = n
    BY DEF DurableBeforeExecution, AcceptedEvent
  <2>1. PICK i \in DOMAIN journal : journal[i] = AcceptedEvent(n, go[n].req)
    BY DEF RunInv, DurableBeforeExecution
  <2>2. i \in DOMAIN journal' /\ journal'[i] = journal[i]
    BY <2>1, JournalGrows DEF TypeOK
  <2>3. runsFile'.torn \/ runsFile'.runs[go'[n].req].run = n
    BY DEF RunsRemembered, NamesRun
  <2> QED BY <2>1, <2>2, <2>3
<1> QED BY <1>1, <1>2, <1>3, <1>4 DEF RunInv

(* Steps that leave runs, their records and the session's state alone, but for    *)
(* cancelling the current run: most handlers and the worker.                         *)
LEMMA OnlyCancels ==
  ASSUME TypeOK, RunInv, go' = go \/ go' = CancelRun(go),
         UNCHANGED <<journal, runsFile, live, runs, active, current, nextRun>>
  PROVE  RunInv'
<1>1. \A n \in RunIds : /\ go'[n].kind = go[n].kind
                        /\ go'[n].req = go[n].req
                        /\ go'[n].phase = go[n].phase
  BY DEF CancelRun, TypeOK, Goroutine
<1>2. \A n \in RunIds : /\ Unfinished(n)' => live'
                        /\ Running(n)' => Running(n) /\ active' /\ current' = current
  BY <1>1 DEF RunInv, RunsBound, RunningIsCurrent, Unfinished, Running
<1>3. RunsRemembered'
  BY <1>1 DEF RunInv, RunsRemembered, NamesRun
<1> QED BY <1>1, <1>2, <1>3, NothingStarts DEF RunInv, RunsBound

(* A started run is new, and recorded before it executes. *)
LEMMA StartKeepsRunInv ==
  ASSUME TypeOK, RunInv, NEW r \in Ids, NEW b \in Bodies \cup {None}, StartRun(r, b),
         live, live' = live, ~active, runs[r].kind = "none"
  PROVE  RunInv'
<1>1. nextRun \in RunIds /\ current' = nextRun /\ nextRun' = nextRun + 1 /\ nextRun \in Nat
  BY MaxRunsIsNat DEF StartRun, RunIds
<1>2. \A n \in RunIds : go[n].kind = "prompt" => go[n].req # r
  BY DEF RunInv, RunsRemembered, NamesRun
<1>3. \A n \in RunIds : ~Running(n)
  BY DEF RunInv, RunningIsCurrent
<1>4. AcceptedEvent(nextRun, r) \in Event
  BY <1>1 DEF AcceptedEvent, Event, RunState
<1>5. Recorded(r, b) \in [Ids -> RunRecord]
      /\ Recorded(r, b)[r].kind = "prompt" /\ Recorded(r, b)[r].run = nextRun
      /\ \A q \in Ids \ {r} : Recorded(r, b)[q] = runs[q]
  BY <1>1, NewRecordsType DEF Recorded, NoRecord, TypeOK
<1>6. CASE Accept(r, b)
  <2> DEFINE g == [NoGoroutine EXCEPT !.phase = "turn", !.kind = "prompt", !.req = r, !.body = b]
  <2>1. /\ journal' = Append(journal, AcceptedEvent(nextRun, r))
        /\ runs' = Recorded(r, b) /\ runsFile' = [torn |-> FALSE, runs |-> runs']
        /\ go' = [go EXCEPT ![nextRun] = g]
        /\ active'
    BY <1>6 DEF Accept, SavedRuns, Execute
  <2>2. /\ go'[nextRun].kind = "prompt" /\ go'[nextRun].req = r /\ go'[nextRun].phase = "turn"
        /\ \A n \in RunIds \ {nextRun} : go'[n] = go[n]
    BY <1>1, <2>1 DEF NoGoroutine, TypeOK
  <2>3. RunsBound'
    BY <1>1, <2>1, <2>2, MaxRunsIsNat DEF RunInv, RunsBound, Unfinished, RunIds
  <2>4. RunningIsCurrent'
    BY <1>1, <1>3, <2>1, <2>2 DEF RunningIsCurrent, Running
  <2>5. RunsRemembered'
    <3> SUFFICES ASSUME NEW n \in RunIds, go'[n].kind = "prompt"
                 PROVE  NamesRun(runs'[go'[n].req], n)
      BY <2>1 DEF RunsRemembered, NamesRun
    <3>1. CASE n = nextRun
      BY <1>5, <2>1, <2>2, <3>1 DEF NamesRun
    <3>2. CASE n # nextRun
      BY <1>2, <1>5, <2>1, <2>2, <3>2 DEF NamesRun, RunInv, RunsRemembered, RunsBound
    <3> QED BY <3>1, <3>2
  <2>6. AtMostOnce'
    BY <1>2, <2>2 DEF RunInv, AtMostOnce
  <2>7. DurableBeforeExecution'
    <3> SUFFICES ASSUME NEW n \in RunIds, go'[n].kind = "prompt"
                 PROVE  \E i \in DOMAIN journal' : journal'[i] = AcceptedEvent(n, go'[n].req)
      BY <2>5 DEF RunsRemembered, NamesRun, DurableBeforeExecution, AcceptedEvent
    <3>1. CASE n = nextRun
      <4>1. Len(journal) + 1 \in DOMAIN journal'
            /\ journal'[Len(journal) + 1] = AcceptedEvent(nextRun, r)
        BY <1>4, <2>1 DEF TypeOK
      <4> QED BY <2>2, <3>1, <4>1
    <3>2. CASE n # nextRun
      <4>1. PICK i \in DOMAIN journal : journal[i] = AcceptedEvent(n, go[n].req)
        BY <2>2, <3>2 DEF RunInv, DurableBeforeExecution
      <4>2. i \in DOMAIN journal' /\ journal'[i] = journal[i]
        BY <1>4, <2>1, <4>1, JournalGrows DEF TypeOK
      <4> QED BY <2>2, <3>2, <4>1, <4>2
    <3> QED BY <3>1, <3>2
  <2> QED BY <2>3, <2>4, <2>5, <2>6, <2>7 DEF RunInv
<1>7. CASE AbortAcceptance(r, b)
  <2>1. /\ go' = go /\ ~active'
        /\ journal' \in {journal, Append(journal, AcceptedEvent(nextRun, r))}
        /\ runs' \in {runs, Recorded(r, b)}
        /\ runsFile' \in {runsFile, [runsFile EXCEPT !.torn = TRUE]}
    BY <1>7 DEF AbortAcceptance, FailedRunsFile
  <2>2. RunsRemembered'
    <3>1. runsFile'.torn \/ runsFile' = runsFile
      BY <2>1 DEF TypeOK
    <3> QED BY <1>2, <1>5, <2>1, <3>1 DEF RunInv, RunsRemembered, NamesRun, RunsBound
  <2>3. \A n \in RunIds : (Unfinished(n)' => live') /\ ~Running(n)'
    BY <1>3, <2>1 DEF Unfinished, Running
  <2> QED BY <1>1, <1>4, <2>1, <2>2, <2>3, NothingStarts
<1> QED BY <1>6, <1>7 DEF StartRun

(* A handler of the queue touches no record of a run; it changes the queue and    *)
(* the worker only while nothing is dispatched.                                       *)
LEMMA QueueHandlerFrame ==
  ASSUME QueueHandler
  PROVE  /\ UNCHANGED <<journal, runsFile, live, runs, active, current, dispatch, nextRun>>
         /\ go' = go \/ go' = CancelRun(go)
         /\ \/ UNCHANGED <<queue, worker>>
            \/ /\ live /\ dispatch = None
               /\ \E q, bad : worker' = Started(Woken(worker), q, bad)
<1> DEFINE Frame ==
      /\ UNCHANGED <<journal, runsFile, live, runs, active, current, dispatch, nextRun>>
      /\ go' = go \/ go' = CancelRun(go)
      /\ \/ UNCHANGED <<queue, worker>>
         \/ /\ live /\ dispatch = None
            /\ \E q, bad : worker' = Started(Woken(worker), q, bad)
<1>1. ASSUME NEW next, NEW interrupt, QueueOpen, Commit(next, interrupt) PROVE Frame
  BY <1>1 DEF Commit, QueueOpen, fileVars, rtVars, workVars, goVars
<1>2. ASSUME NEW next, NEW interrupt, Action(next, interrupt) PROVE Frame
  BY <1>1, <1>2 DEF Action
<1>3. ASSUME ReadSnapshot \/ \E r \in Watched : ReadReceipt(r) PROVE Frame
  BY <1>3 DEF ReadSnapshot, ReadReceipt, fileVars, rtVars, workVars, goVars
<1>4. ASSUME NEW r, NEW b, NEW interrupt, Submit(r, b, interrupt) PROVE Frame
  BY <1>1, <1>4 DEF Submit
<1>5. ASSUME PauseQueue \/ ResumeQueue PROVE Frame
  BY <1>2, <1>5 DEF PauseQueue, ResumeQueue
<1>6. ASSUME NEW i, EditBegin(i) \/ RemoveItem(i) \/ RunNow(i) PROVE Frame
  BY <1>2, <1>6 DEF EditBegin, RemoveItem, RunNow
<1>7. ASSUME NEW i, NEW j, Move(i, j) PROVE Frame
  BY <1>2, <1>7 DEF Move
<1>8. ASSUME NEW r, NEW b, EditEnd(r, b) PROVE Frame
  BY <1>2, <1>8 DEF EditEnd
<1> HIDE DEF Frame
<1>9. Frame
  BY <1>3, <1>4, <1>5, <1>6, <1>7, <1>8 DEF QueueHandler
<1> QED BY <1>9 DEF Frame

(* What an update of a goroutine's phase and state keeps. *)
LEMMA GoroutineUpdates ==
  ASSUME NEW g \in [RunIds -> Goroutine], NEW n \in RunIds, NEW p, NEW state, NEW h,
         \/ h = [g EXCEPT ![n].phase = p]
         \/ h = [g EXCEPT ![n].phase = p, ![n].state = state]
  PROVE  \A m \in RunIds : /\ h[m].kind = g[m].kind /\ h[m].req = g[m].req
                           /\ h[m].phase = IF m = n THEN p ELSE g[m].phase
<1>1. \A m \in RunIds \ {n} : h[m] = g[m]
  OBVIOUS
<1>2. h[n].phase = p /\ h[n].kind = g[n].kind /\ h[n].req = g[n].req
  <2>1. CASE h = [g EXCEPT ![n].phase = p]
    <3>1. h[n] = [g[n] EXCEPT !.phase = p]
      BY <2>1
    <3> QED BY <3>1 DEF Goroutine
  <2>2. CASE h = [g EXCEPT ![n].phase = p, ![n].state = state]
    <3>1. h[n] = [g[n] EXCEPT !.phase = p, !.state = state]
      BY <2>2
    <3> QED BY <3>1 DEF Goroutine
  <2> QED BY <2>1, <2>2
<1> QED BY <1>1, <1>2

(* What marking a record's end keeps. *)
LEMMA RecordUpdates ==
  ASSUME NEW rs \in [Ids -> RunRecord], NEW q, NEW state,
         NEW h, h \in {[rs EXCEPT ![q].terminal = TRUE],
                       [rs EXCEPT ![q].terminal = TRUE, ![q].state = state],
                       [rs EXCEPT ![q].state = state]}
  PROVE  \A r \in Ids : h[r].kind = rs[r].kind /\ h[r].run = rs[r].run
<1>1. \A x \in RunRecord :
        /\ [x EXCEPT !.terminal = TRUE].kind = x.kind /\ [x EXCEPT !.terminal = TRUE].run = x.run
        /\ [x EXCEPT !.state = state].kind = x.kind /\ [x EXCEPT !.state = state].run = x.run
        /\ [x EXCEPT !.terminal = TRUE, !.state = state].kind = x.kind
        /\ [x EXCEPT !.terminal = TRUE, !.state = state].run = x.run
  BY DEF RunRecord
<1>2. \A r \in Ids : h[r] \in {rs[r], [rs[r] EXCEPT !.terminal = TRUE],
        [rs[r] EXCEPT !.terminal = TRUE, !.state = state], [rs[r] EXCEPT !.state = state]}
  OBVIOUS
<1> QED BY <1>1, <1>2

(* Compaction remembers a new id and overwrites no started prompt. *)
LEMMA CompactKeepsRunInv ==
  ASSUME TypeOK, RunInv, NEW c \in CompactIds, Compact(c)
  PROVE  RunInv'
<1>1. /\ nextRun \in RunIds /\ current' = nextRun /\ nextRun' = nextRun + 1 /\ nextRun \in Nat
      /\ live /\ live' = live /\ journal' = journal /\ ~active /\ c \in Ids
      /\ runs[c].kind = "none"
  BY MaxRunsIsNat DEF Compact, RunIds, Ids
<1>2. \A n \in RunIds : go[n].kind = "prompt" => go[n].req # c
  BY <1>1 DEF RunInv, RunsRemembered, NamesRun
<1>3. \A n \in RunIds : ~Running(n)
  BY <1>1 DEF RunInv, RunningIsCurrent
<1>4. CASE /\ runs' = [runs EXCEPT ![c] = CompactRecord]
           /\ runsFile' = SavedRuns(runs')
           /\ active' = TRUE
           /\ \E g : /\ go' = [go EXCEPT ![nextRun] = g]
                     /\ g.kind = "compact" /\ g.req = c /\ g.phase # "none"
  <2>1. /\ go'[nextRun].kind = "compact" /\ go'[nextRun].req = c /\ go'[nextRun].phase # "none"
        /\ \A n \in RunIds \ {nextRun} : go'[n] = go[n]
    BY <1>1, <1>4 DEF TypeOK
  <2>2. RunsBound'
    BY <1>1, <1>4, <2>1, MaxRunsIsNat DEF RunInv, RunsBound, Unfinished, RunIds
  <2>3. RunningIsCurrent'
    BY <1>1, <1>3, <1>4, <2>1 DEF RunningIsCurrent, Running
  <2>4. AtMostOnce'
    BY <2>1 DEF RunInv, AtMostOnce
  <2>5. RunsRemembered'
    <3> SUFFICES ASSUME NEW n \in RunIds, go'[n].kind = "prompt"
                 PROVE  NamesRun(runs'[go'[n].req], n) /\ NamesRun(runsFile'.runs[go'[n].req], n)
      BY DEF RunsRemembered, NamesRun
    <3>1. n # nextRun /\ go'[n] = go[n] /\ go[n].req # c /\ go[n].req \in Ids
      BY <1>2, <2>1 DEF RunInv, RunsBound
    <3>2. runs'[go[n].req] = runs[go[n].req]
      BY <1>4, <3>1 DEF TypeOK
    <3>3. runsFile'.runs[go[n].req] = runs'[go[n].req]
      BY <1>4 DEF SavedRuns
    <3>4. NamesRun(runs[go[n].req], n)
      BY <1>1, <3>1 DEF RunInv, RunsRemembered
    <3> QED BY <3>1, <3>2, <3>3, <3>4
  <2>6. DurableBeforeExecution'
    <3> SUFFICES ASSUME NEW n \in RunIds, go'[n].kind = "prompt"
                 PROVE  \E i \in DOMAIN journal : journal[i] = AcceptedEvent(n, go'[n].req)
      BY <1>1, <2>5 DEF DurableBeforeExecution, RunsRemembered, NamesRun, AcceptedEvent
    <3>1. go'[n] = go[n]
      BY <2>1
    <3> QED BY <3>1 DEF RunInv, DurableBeforeExecution
  <2> QED BY <2>2, <2>3, <2>4, <2>5, <2>6 DEF RunInv
<1>5. CASE active' = FALSE /\ UNCHANGED <<runs, go>> /\ runsFile' \in FailedRunsFile
  <2>1. runsFile'.torn \/ runsFile' = runsFile
    BY <1>5 DEF FailedRunsFile, TypeOK
  <2>2. RunsRemembered'
    BY <1>1, <1>5, <2>1 DEF RunInv, RunsRemembered, NamesRun
  <2>3. \A n \in RunIds : (Unfinished(n)' => live') /\ ~Running(n)'
    BY <1>1, <1>3, <1>5 DEF Unfinished, Running
  <2> QED BY <1>1, <1>5, <2>2, <2>3, NothingStarts
<1>6. \A g \in {[NoGoroutine EXCEPT !.phase = "turn", !.kind = "compact", !.req = c, !.body = None],
                [NoGoroutine EXCEPT !.phase = "ended", !.kind = "compact", !.req = c,
                                    !.state = "failed"]} :
        g.kind = "compact" /\ g.req = c /\ g.phase # "none"
  BY DEF NoGoroutine
<1> QED BY <1>4, <1>5, <1>6 DEF Compact, Execute

(* The end of a run changes phases and marks the run's record terminal. *)
LEMMA RunStepKeepsRunInv ==
  ASSUME TypeOK, RunInv, NEW n \in RunIds, RunStep(n)
  PROVE  RunInv'
<1>1. live /\ live' = live /\ go[n].phase # "none" /\ nextRun' = nextRun /\ current' = current
  <2>1. go[n].phase \notin {"none", "done"}
    BY DEF RunStep, TurnEnds, RecordState, Release, RunTail, CompactFinish
  <2>2. UNCHANGED <<live, nextRun, current>>
    BY DEF RunStep, TurnEnds, RecordState, Release, RunTail, CompactFinish, rtVars
  <2> QED BY <2>1, <2>2 DEF RunInv, RunsBound, Unfinished
<1>2. \E p \in Phase \ {"none"} : \A m \in RunIds :
        /\ go'[m].kind = go[m].kind /\ go'[m].req = go[m].req
        /\ go'[m].phase = IF m = n THEN p ELSE go[m].phase
  <2>1. \E p \in {"ended", "unjournaled", "recorded", "tail", "done"}, state \in RunState :
           \/ go' = [go EXCEPT ![n].phase = p, ![n].state = state]
           \/ go' = [go EXCEPT ![n].phase = p]
    BY OutcomesAssumption DEF RunState, RunStep, TurnEnds, RecordState, Release, RunTail, CompactFinish
  <2>2. PICK p \in {"ended", "unjournaled", "recorded", "tail", "done"}, state \in RunState :
           \/ go' = [go EXCEPT ![n].phase = p]
           \/ go' = [go EXCEPT ![n].phase = p, ![n].state = state]
    BY <2>1
  <2>3. \A m \in RunIds : /\ go'[m].kind = go[m].kind /\ go'[m].req = go[m].req
                          /\ go'[m].phase = IF m = n THEN p ELSE go[m].phase
    <3>1. go \in [RunIds -> Goroutine]
      BY DEF TypeOK
    <3>2. CASE go' = [go EXCEPT ![n].phase = p]
      BY <3>1, <3>2, GoroutineUpdates
    <3>3. CASE go' = [go EXCEPT ![n].phase = p, ![n].state = state]
      BY <3>1, <3>3, GoroutineUpdates
    <3> QED BY <2>2, <3>2, <3>3
  <2>4. p \in Phase \ {"none"}
    BY DEF Phase
  <2> QED BY <2>3, <2>4
<1>3. journal' = journal \/ \E e \in Event : journal' = Append(journal, e)
  <2>1. CASE TurnEnds(n)
    <3>1. go[n].req \in Ids
      BY <1>1 DEF RunInv, RunsBound
    <3>2. \A state \in Outcomes : TerminalEvent(n, go[n].req, state) \in Event
      BY <3>1, OutcomesAssumption DEF TerminalEvent, Event, RunState
    <3> QED BY <2>1, <3>2 DEF TurnEnds
  <2> QED BY <2>1 DEF RunStep, RecordState, Release, RunTail, CompactFinish, fileVars
<1>4. /\ \A r \in Ids : runs'[r].kind = runs[r].kind /\ runs'[r].run = runs[r].run
      /\ runsFile' = runsFile \/ runsFile'.torn \/ runsFile'.runs = runs'
  <2>1. CASE TurnEnds(n) \/ RunTail(n)
    BY <2>1 DEF TurnEnds, RunTail, fileVars, rtVars
  <2>2. CASE RecordState(n)
    <3>1. runs' = [runs EXCEPT ![go[n].req].state = go[n].state] /\ runsFile' = runsFile
      BY <2>2 DEF RecordState, fileVars
    <3> QED BY <3>1, RecordUpdates DEF TypeOK
  <2>3. ASSUME NEW rs, NEW lost, PersistEnd(rs, lost)
        PROVE  runs' = rs /\ (runsFile' = runsFile \/ runsFile'.torn \/ runsFile'.runs = runs')
    BY <2>3 DEF PersistEnd, SavedRuns, FailedRunsFile, TypeOK
  <2>4. CASE Release(n)
    <3>1. runs' = [runs EXCEPT ![go[n].req].terminal = TRUE]
      BY <2>3, <2>4 DEF Release
    <3>2. \A r \in Ids : runs'[r].kind = runs[r].kind /\ runs'[r].run = runs[r].run
      BY <3>1, RecordUpdates DEF TypeOK
    <3> QED BY <2>3, <2>4, <3>2 DEF Release
  <2>5. CASE CompactFinish(n)
    <3>1. runs' = [runs EXCEPT ![go[n].req].terminal = TRUE, ![go[n].req].state = go[n].state]
      BY <2>3, <2>5 DEF CompactFinish
    <3>2. \A r \in Ids : runs'[r].kind = runs[r].kind /\ runs'[r].run = runs[r].run
      BY <3>1, RecordUpdates DEF TypeOK
    <3> QED BY <2>3, <2>5, <3>2 DEF CompactFinish
  <2> QED BY <2>1, <2>2, <2>4, <2>5 DEF RunStep
<1>5. RunsRemembered'
  <2> SUFFICES ASSUME NEW m \in RunIds, go'[m].kind = "prompt"
               PROVE  /\ runsFile'.torn \/ NamesRun(runsFile'.runs[go'[m].req], m)
                      /\ NamesRun(runs'[go'[m].req], m)
    BY DEF RunsRemembered, NamesRun
  <2>1. go[m].kind = "prompt" /\ go'[m].req = go[m].req /\ go[m].req \in Ids
    BY <1>2 DEF RunInv, RunsBound
  <2> QED BY <1>1, <1>4, <2>1 DEF RunInv, RunsRemembered, NamesRun
<1>6. \A m \in RunIds : Running(m)' => Running(m) /\ active'
  <2>1. CASE TurnEnds(n) \/ RecordState(n)
    <3>1. active' = active /\ Running(n)
      BY <2>1 DEF TurnEnds, RecordState, Running, rtVars
    <3> QED BY <1>2, <3>1 DEF Running, RunInv, RunningIsCurrent
  <2>2. CASE RunTail(n)
    <3>1. active' = active /\ go'[n].phase = "done"
      BY <2>2 DEF RunTail, rtVars, TypeOK
    <3> QED BY <1>2, <3>1 DEF Running, RunInv, RunningIsCurrent
  <2>3. CASE Release(n) \/ CompactFinish(n)
    <3>1. Running(n) /\ go'[n].phase \in {"tail", "done"}
      <4>1. \E p \in {"tail", "done"} : go' = [go EXCEPT ![n].phase = p]
        BY <2>3 DEF Release, CompactFinish
      <4>2. go'[n].phase \in {"tail", "done"}
        BY <4>1, GoroutineUpdates DEF TypeOK
      <4> QED BY <2>3, <4>2 DEF Release, CompactFinish, Running
    <3>2. \A m \in RunIds : Running(m) => m = n
      BY <3>1 DEF RunInv, RunningIsCurrent
    <3> QED BY <1>2, <3>1, <3>2 DEF Running
  <2> QED BY <2>1, <2>2, <2>3 DEF RunStep
<1>7. \A m \in RunIds : go'[m].phase = "none" <=> go[m].phase = "none"
  BY <1>1, <1>2
<1> QED BY <1>1, <1>2, <1>3, <1>5, <1>6, <1>7, NothingStarts

(* A load attaches and settles records; it never forgets a started prompt. *)
LEMMA RecoveredKeepsStarted ==
  ASSUME TypeOK, NEW r \in Ids, runsFile.runs[r].kind = "prompt"
  PROVE  RecoveredRuns[r].kind = "prompt" /\ RecoveredRuns[r].run = runsFile.runs[r].run
<1>1. Attached(r) = runsFile.runs[r]
  BY DEF Attached
<1>2. \A x \in RunRecord : \A state :
        /\ [x EXCEPT !.terminal = TRUE, !.state = state].kind = x.kind
        /\ [x EXCEPT !.terminal = TRUE, !.state = state].run = x.run
  BY DEF RunRecord
<1>3. \A x \in RunRecord : Settled(x).kind = x.kind /\ Settled(x).run = x.run
  BY <1>2 DEF Settled
<1> QED BY <1>1, <1>3 DEF RecoveredRuns, TypeOK

(* Loading, eviction, shutdown and crashes. *)
LEMMA EnvironmentKeepsRunInv ==
  ASSUME TypeOK, RunInv, Environment
  PROVE  RunInv'
<1>1. CASE Load
  <2>1. \A n \in RunIds : ~Unfinished(n) /\ ~Running(n) /\ ~Unfinished(n)' /\ ~Running(n)'
    BY <1>1 DEF Load, RunInv, RunsBound, Unfinished, Running, goVars
  <2>2. RunsRemembered'
    <3> SUFFICES ASSUME NEW n \in RunIds, go[n].kind = "prompt"
                 PROVE  /\ NamesRun(runsFile.runs[go[n].req], n)
                        /\ NamesRun(RecoveredRuns[go[n].req], n)
      BY <1>1 DEF Load, RunsRemembered, goVars, fileVars, NamesRun
    <3>1. go[n].req \in Ids /\ NamesRun(runsFile.runs[go[n].req], n)
      BY <1>1 DEF Load, RunInv, RunsBound, RunsRemembered
    <3> QED BY <3>1, RecoveredKeepsStarted DEF NamesRun
  <2>3. go' = go /\ nextRun' = nextRun /\ journal' = journal /\ live'
    BY <1>1 DEF Load, goVars, fileVars
  <2> QED BY <2>1, <2>2, <2>3, NothingStarts
<1>2. CASE Evict
  <2>1. go' = go /\ nextRun' = nextRun /\ journal' = journal /\ runsFile' = runsFile
        /\ ~live' /\ ~active' /\ \A n \in RunIds : ~Unfinished(n)
    BY <1>2 DEF Evict, Unload, Idle, goVars, fileVars
  <2>2. RunsRemembered'
    BY <2>1 DEF RunInv, RunsRemembered, NamesRun
  <2>3. \A n \in RunIds : ~Unfinished(n)' /\ ~Running(n)'
    BY <2>1 DEF Unfinished, Running
  <2> QED BY <2>1, <2>2, <2>3, NothingStarts
<1>3. CASE ShutDown \/ CloseSession
  BY <1>3, OnlyCancels DEF ShutDown, CloseSession, goVars, rtVars, fileVars
<1>4. ASSUME Restart, nextRun' \in {nextRun, nextRun + 1},
             journal' = journal \/ \E e \in Event : journal' = Append(journal, e),
             runsFile' = runsFile \/ runsFile'.torn
      PROVE  RunInv'
  <2>1. /\ ~live' /\ ~active'
        /\ go' = [n \in RunIds |->
                    IF Unfinished(n) THEN [go[n] EXCEPT !.phase = "done"] ELSE go[n]]
    BY <1>4 DEF Restart, Unload
  <2>2. \A n \in RunIds :
          /\ go'[n].kind = go[n].kind /\ go'[n].req = go[n].req
          /\ go'[n].phase = IF Unfinished(n) THEN "done" ELSE go[n].phase
    BY <2>1 DEF TypeOK, Goroutine
  <2>3. \A n \in RunIds : /\ ~Unfinished(n)' /\ ~Running(n)'
                          /\ go'[n].phase = "none" <=> go[n].phase = "none"
    BY <2>2 DEF Unfinished, Running
  <2>4. RunsRemembered'
    BY <1>4, <2>1, <2>2 DEF RunInv, RunsRemembered, NamesRun
  <2> QED BY <1>4, <2>1, <2>2, <2>3, <2>4, NothingStarts
<1>5. CASE Crash
  BY <1>4, <1>5 DEF Crash
<1>6. ASSUME NEW r \in Ids, CrashInAcceptance(r) PROVE RunInv'
  <2>1. /\ Restart /\ nextRun' = nextRun + 1
        /\ journal' = Append(journal, AcceptedEvent(nextRun, r))
        /\ nextRun \in RunIds /\ runsFile' \in FailedRunsFile
    BY <1>6 DEF CrashInAcceptance
  <2>2. AcceptedEvent(nextRun, r) \in Event
    BY <2>1 DEF AcceptedEvent, Event, RunState
  <2>3. runsFile' = runsFile \/ runsFile'.torn
    BY <2>1 DEF FailedRunsFile, TypeOK
  <2> QED BY <1>4, <2>1, <2>2, <2>3
<1>7. ASSUME NEW n \in RunIds, CrashInRelease(n) PROVE RunInv'
  <2>1. Restart /\ nextRun' = nextRun /\ journal' = journal /\ runsFile'.torn
    BY <1>7 DEF CrashInRelease, TypeOK
  <2> QED BY <1>4, <2>1
<1> QED BY <1>1, <1>2, <1>3, <1>5, <1>6, <1>7 DEF Environment

(* Immediate runs, compaction and cancellation. *)
LEMMA OtherHandlerKeepsRunInv ==
  ASSUME TypeOK, RunInv, OtherHandler
  PROVE  RunInv'
<1>1. ASSUME NEW r \in PromptIds, NEW b \in Bodies, Prompt(r, b) PROVE RunInv'
  <2>1. /\ StartRun(r, b) /\ live /\ live' = live /\ ~active
        /\ runs[r].kind = "none" /\ r \in Ids /\ b \in Bodies \cup {None}
    BY <1>1 DEF Prompt, PromptAllowed, Ids
  <2> QED BY <2>1, StartKeepsRunInv
<1>2. ASSUME NEW c \in CompactIds, Compact(c) PROVE RunInv'
  BY <1>2, CompactKeepsRunInv
<1>3. CASE Cancel
  BY <1>3, OnlyCancels DEF Cancel, fileVars, rtVars
<1> QED BY <1>1, <1>2, <1>3 DEF OtherHandler

(* The worker starts a run only from its dispatch, while it holds a lease. *)
LEMMA WorkerStepKeepsRunInv ==
  ASSUME TypeOK, WorkerBound, RunInv, WorkerStep
  PROVE  RunInv'
<1>1. CASE WorkerLoop \/ WorkerExit
  BY <1>1, OnlyCancels DEF WorkerLoop, WorkerExit, fileVars, rtVars, goVars
<1>2. CASE WorkerSettle
  BY <1>2, OnlyCancels DEF WorkerSettle, goVars
<1>3. CASE WorkerDispatch
  <2>1. CASE DispatchStarts
    <3>1. /\ StartRun(worker.req, worker.body) /\ live' = live /\ ~active
          /\ runs[worker.req].kind = "none"
      BY <2>1 DEF DispatchStarts
    <3>2. worker.req \in Ids /\ worker.body \in Bodies \cup {None} /\ live
      BY <1>3 DEF WorkerDispatch, WorkerBound, TypeOK, Worker
    <3> QED BY <3>1, <3>2, StartKeepsRunInv
  <2>2. CASE UNCHANGED <<fileVars, rtVars, goVars>>
    BY <2>2, OnlyCancels DEF fileVars, rtVars, goVars
  <2> QED BY <1>3, <2>1, <2>2 DEF WorkerDispatch
<1> QED BY <1>1, <1>2, <1>3 DEF WorkerStep

(* The runs' part of the invariant is inductive. *)
LEMMA NextKeepsRunInv ==
  ASSUME TypeOK, WorkerBound, RunInv, [Next]_vars
  PROVE  RunInv'
<1>1. CASE QueueHandler
  BY <1>1, QueueHandlerFrame, OnlyCancels
<1>2. CASE UNCHANGED vars
  BY <1>2, OnlyCancels DEF vars, fileVars, rtVars, goVars
<1> QED
  BY <1>1, <1>2, OtherHandlerKeepsRunInv, WorkerStepKeepsRunInv, RunStepKeepsRunInv,
     EnvironmentKeepsRunInv DEF Next

-----------------------------------------------------------------------------
(* The worker. *)

WorkerInv == WorkerBound /\ DispatchPinned

(* A worker that is woken or newly started is not in the middle of a dispatch. *)
LEMMA WorkerOnlyWakes ==
  ASSUME TypeOK, WorkerInv, live' = live, UNCHANGED <<queue, dispatch>>,
         \/ worker' \in {worker, Woken(worker)}
         \/ live /\ \E q, bad : worker' = Started(worker, q, bad)
  PROVE  WorkerInv'
<1>1. CASE worker' = worker
  BY <1>1 DEF WorkerInv, WorkerBound, DispatchPinned, HeadIsDispatched
<1>2. CASE worker' = Woken(worker) /\ worker' # worker
  BY <1>2 DEF WorkerInv, WorkerBound, DispatchPinned, Woken, TypeOK, Worker
<1>3. CASE live /\ worker' # worker /\ \E q, bad : worker' = Started(worker, q, bad)
  BY <1>3 DEF WorkerInv, WorkerBound, DispatchPinned, Started, TypeOK, Worker
<1> QED BY <1>1, <1>2, <1>3

(* While an entry is dispatched no handler of the queue does anything. *)
LEMMA QueueHandlerKeepsWorkerInv ==
  ASSUME TypeOK, WorkerInv, QueueHandler
  PROVE  WorkerInv'
<1>1. CASE UNCHANGED <<queue, worker>>
  BY <1>1, QueueHandlerFrame, WorkerOnlyWakes
<1>2. CASE live /\ dispatch = None /\ \E q, bad : worker' = Started(Woken(worker), q, bad)
  <2>1. worker.pc \notin {"dispatch", "settle"}
    BY <1>2, IdsAssumption DEF WorkerInv, WorkerBound, DispatchPinned
  <2>2. worker'.pc \notin {"dispatch", "settle"}
    BY <1>2, <2>1 DEF Started, Woken, TypeOK, Worker
  <2>3. live'
    BY <1>2, QueueHandlerFrame
  <2> QED BY <2>2, <2>3 DEF WorkerInv, WorkerBound, DispatchPinned
<1> QED BY <1>1, <1>2, QueueHandlerFrame

(* The worker takes the head of the queue and holds on to it. *)
LEMMA WorkerStepKeepsWorkerInv ==
  ASSUME TypeOK, WorkerInv, WorkerStep
  PROVE  WorkerInv'
<1>1. live /\ live' = live
  <2>1. worker.pc # "off"
    BY DEF WorkerStep, WorkerLoop, WorkerDispatch, WorkerSettle, WorkerExit
  <2>2. UNCHANGED live
    BY DEF WorkerStep, WorkerLoop, WorkerDispatch, WorkerSettle, WorkerExit, rtVars,
           DispatchStarts
  <2> QED BY <2>1, <2>2 DEF WorkerInv, WorkerBound
<1>2. CASE WorkerLoop
  <2>1. CASE worker'.pc \in {"exit", "waiting"}
    BY <1>1, <2>1 DEF WorkerInv, WorkerBound, DispatchPinned
  <2>2. CASE worker'.pc \notin {"exit", "waiting"}
    <3>1. ~WorkerMustStop /\ ~active
      BY <1>2, <2>2 DEF WorkerLoop, TypeOK, Worker
    <3>2. queue.items # <<>> /\ queue.items \in Seq(Ids)
      BY <3>1 DEF WorkerMustStop, TypeOK, Document
    <3>3. Head(queue.items) \in Ids
      BY <3>2
    <3>4. /\ dispatch' = Head(queue.items) /\ queue' = queue
          /\ worker'.req = Head(queue.items) /\ worker'.body = queue.body[Head(queue.items)]
      BY <1>2, <3>1 DEF WorkerLoop, rtVars
    <3> QED BY <1>1, <3>2, <3>3, <3>4 DEF WorkerInv, WorkerBound, DispatchPinned, HeadIsDispatched
  <2> QED BY <2>1, <2>2
<1>3. CASE WorkerDispatch
  <2>1. worker'.pc = "settle" /\ worker'.req = worker.req /\ worker'.body = worker.body
    BY <1>3 DEF WorkerDispatch, TypeOK, Worker
  <2>2. UNCHANGED <<queue, dispatch>> /\ worker.pc = "dispatch"
    BY <1>3 DEF WorkerDispatch, DispatchStarts, rtVars
  <2> QED BY <1>1, <2>1, <2>2 DEF WorkerInv, WorkerBound, DispatchPinned, HeadIsDispatched
<1>4. CASE WorkerSettle \/ WorkerExit
  <2>1. worker'.pc \notin {"dispatch", "settle"}
    <3>1. CASE WorkerSettle
      <4>1. \E p \in {"loop", "exit"} : worker' = [worker EXCEPT !.pc = p]
        <5>1. Pop => \E p \in {"loop", "exit"} : worker' = [worker EXCEPT !.pc = p]
          BY DEF Pop
        <5> QED BY <3>1, <5>1 DEF WorkerSettle
      <4> QED BY <4>1 DEF TypeOK, Worker
    <3>2. CASE WorkerExit
      BY <3>2 DEF WorkerExit, Started, NoWorker
    <3> QED BY <1>4, <3>1, <3>2
  <2> QED BY <1>1, <2>1 DEF WorkerInv, WorkerBound, DispatchPinned
<1> QED BY <1>2, <1>3, <1>4 DEF WorkerStep

(* Runs, compactions, loads and crashes leave a dispatch alone or end its worker. *)
LEMMA OthersKeepWorkerInv ==
  ASSUME TypeOK, WorkerInv, RunsBound,
         OtherHandler \/ (\E n \in RunIds : RunStep(n)) \/ Environment
  PROVE  WorkerInv'
<1>1. CASE OtherHandler
  BY <1>1, WorkerOnlyWakes DEF OtherHandler, Prompt, Compact, Cancel, rtVars, workVars
<1>2. ASSUME NEW n \in RunIds, RunStep(n) PROVE WorkerInv'
  <2>1. CASE RunTail(n)
    <3>1. live
      BY <2>1 DEF RunTail, RunsBound, Unfinished
    <3> QED BY <2>1, <3>1, WorkerOnlyWakes DEF RunTail, rtVars
  <2>2. CASE TurnEnds(n)
    <3>1. worker' \in {worker, Woken(worker)}
      BY <2>2 DEF TurnEnds
    <3> QED BY <2>2, <3>1, WorkerOnlyWakes DEF TurnEnds, rtVars
  <2>3. CASE RecordState(n) \/ Release(n) \/ CompactFinish(n)
    BY <2>3, WorkerOnlyWakes DEF RecordState, Release, CompactFinish, workVars
  <2> QED BY <1>2, <2>1, <2>2, <2>3 DEF RunStep
<1>3. CASE Load
  BY <1>3 DEF Load, workVars, WorkerInv, WorkerBound, DispatchPinned
<1>4. CASE ShutDown \/ CloseSession
  BY <1>4, WorkerOnlyWakes DEF ShutDown, CloseSession, rtVars, workVars
<1>5. CASE Unload
  BY <1>5 DEF Unload, NoWorker, WorkerInv, WorkerBound, DispatchPinned
<1>6. Environment => Load \/ ShutDown \/ CloseSession \/ Unload
  BY DEF Environment, Evict, Crash, CrashInAcceptance, CrashInRelease, Restart
<1> QED BY <1>1, <1>2, <1>3, <1>4, <1>5, <1>6

(* The worker's part of the invariant is inductive. *)
LEMMA NextKeepsWorkerInv ==
  ASSUME TypeOK, WorkerInv, RunsBound, [Next]_vars
  PROVE  WorkerInv'
<1>1. CASE UNCHANGED vars
  BY <1>1, WorkerOnlyWakes DEF vars, rtVars, workVars
<1> QED
  BY <1>1, QueueHandlerKeepsWorkerInv, WorkerStepKeepsWorkerInv, OthersKeepWorkerInv DEF Next

-----------------------------------------------------------------------------
(* The line of requests: what each operation of the queue does to it. *)

(* What is where in a sequence after an element was taken out or put in. *)
LEMMA RemoveAtElements ==
  ASSUME NEW S, NEW s \in Seq(S), NEW i \in DOMAIN s
  PROVE  /\ Len(RemoveAt(s, i)) = Len(s) - 1
         /\ \A j \in 1..Len(s) - 1 : RemoveAt(s, i)[j] = IF j < i THEN s[j] ELSE s[j + 1]
<1> DEFINE a == SubSeq(s, 1, i - 1)
           b == SubSeq(s, i + 1, Len(s))
<1>1. /\ Len(s) \in Nat /\ i \in 1..Len(s) /\ i \in Nat
      /\ \A j \in 1..Len(s) : s[j] \in S
  BY LenProperties
<1>2. a \in Seq(S) /\ Len(a) = i - 1 /\ \A j \in 1..i - 1 : a[j] = s[j]
  <2>1. 1 \in Int /\ i - 1 \in Int /\ \A j \in 1..i - 1 : s[j] \in S
    BY <1>1
  <2> QED BY <2>1, <1>1, SubSeqProperties
<1>3. b \in Seq(S) /\ Len(b) = Len(s) - i /\ \A j \in 1..Len(s) - i : b[j] = s[i + j]
  <2>1. i + 1 \in Int /\ Len(s) \in Int /\ \A j \in i + 1..Len(s) : s[j] \in S
    BY <1>1
  <2> QED BY <2>1, <1>1, SubSeqProperties
<1> HIDE DEF a, b
<1>4. /\ Len(a \o b) = Len(a) + Len(b)
      /\ \A j \in 1..Len(a) + Len(b) : (a \o b)[j] = IF j <= Len(a) THEN a[j] ELSE b[j - Len(a)]
  BY <1>2, <1>3, ConcatProperties
<1>5. RemoveAt(s, i) = a \o b
  BY DEF RemoveAt, a, b
<1>6. ASSUME NEW j \in 1..Len(s) - 1 PROVE (a \o b)[j] = IF j < i THEN s[j] ELSE s[j + 1]
  <2>1. j \in Nat /\ j \in 1..Len(a) + Len(b)
    BY <1>1, <1>2, <1>3
  <2>2. CASE j < i
    BY <1>1, <1>2, <1>4, <2>1, <2>2
  <2>3. CASE ~(j < i)
    <3>1. ~(j <= Len(a)) /\ j - Len(a) \in 1..Len(s) - i /\ i + (j - Len(a)) = j + 1
      BY <1>1, <1>2, <2>1, <2>3
    <3>2. (a \o b)[j] = b[j - Len(a)]
      BY <1>4, <2>1, <3>1
    <3>3. b[j - Len(a)] = s[i + (j - Len(a))]
      BY <1>3, <3>1
    <3> QED BY <2>3, <3>1, <3>2, <3>3
  <2> QED BY <2>2, <2>3
<1>7. Len(a) + Len(b) = Len(s) - 1
  BY <1>1, <1>2, <1>3
<1> QED BY <1>4, <1>5, <1>6, <1>7

LEMMA InsertAtElements ==
  ASSUME NEW S, NEW s \in Seq(S), NEW i \in 1..Len(s) + 1, NEW e \in S
  PROVE  /\ Len(InsertAt(s, i, e)) = Len(s) + 1
         /\ \A j \in 1..Len(s) + 1 :
              InsertAt(s, i, e)[j] = IF j < i THEN s[j] ELSE IF j = i THEN e ELSE s[j - 1]
<1> DEFINE a == SubSeq(s, 1, i - 1)
           b == SubSeq(s, i, Len(s))
           c == a \o <<e>>
<1>1. /\ Len(s) \in Nat /\ i \in Nat
      /\ \A j \in 1..Len(s) : s[j] \in S
  BY LenProperties
<1>2. a \in Seq(S) /\ Len(a) = i - 1 /\ \A j \in 1..i - 1 : a[j] = s[j]
  <2>1. 1 \in Int /\ i - 1 \in Int /\ \A j \in 1..i - 1 : s[j] \in S
    BY <1>1
  <2> QED BY <2>1, <1>1, SubSeqProperties
<1>3. b \in Seq(S) /\ Len(b) = Len(s) + 1 - i /\ \A j \in 1..Len(s) + 1 - i : b[j] = s[i + j - 1]
  <2>1. i \in Int /\ Len(s) \in Int /\ \A j \in i..Len(s) : s[j] \in S
    BY <1>1
  <2>2. /\ b \in Seq(S)
        /\ Len(b) = IF i <= Len(s) THEN Len(s) - i + 1 ELSE 0
        /\ \A j \in 1..Len(s) - i + 1 : b[j] = s[i + j - 1]
    BY <2>1, SubSeqProperties
  <2>3. Len(s) - i + 1 = Len(s) + 1 - i /\ (~(i <= Len(s)) => Len(s) - i + 1 = 0)
    BY <1>1
  <2> QED BY <2>2, <2>3
<1> HIDE DEF a, b
<1>4. <<e>> \in Seq(S) /\ Len(<<e>>) = 1 /\ <<e>>[1] = e
  OBVIOUS
<1>5. c \in Seq(S) /\ Len(c) = i /\ \A j \in 1..i : c[j] = IF j < i THEN s[j] ELSE e
  <2>1. /\ c \in Seq(S) /\ Len(c) = Len(a) + 1
        /\ \A j \in 1..Len(a) + 1 : c[j] = IF j <= Len(a) THEN a[j] ELSE <<e>>[j - Len(a)]
    BY <1>2, <1>4, ConcatProperties
  <2>2. Len(a) + 1 = i /\ \A j \in 1..i : (j <= Len(a) <=> j < i) /\ (~(j < i) => j - Len(a) = 1)
    BY <1>1, <1>2
  <2>3. ASSUME NEW j \in 1..i PROVE c[j] = IF j < i THEN s[j] ELSE e
    <3>1. j < i => j \in 1..i - 1
      BY <1>1
    <3> QED BY <1>2, <1>4, <2>1, <2>2, <3>1
  <2> QED BY <2>1, <2>2, <2>3
<1>6. InsertAt(s, i, e) = c \o b
  BY DEF InsertAt, a, b
<1> HIDE DEF c
<1>7. /\ Len(c \o b) = Len(c) + Len(b)
      /\ \A j \in 1..Len(c) + Len(b) : (c \o b)[j] = IF j <= Len(c) THEN c[j] ELSE b[j - Len(c)]
  BY <1>3, <1>5, ConcatProperties
<1>8. Len(c) + Len(b) = Len(s) + 1
  BY <1>1, <1>3, <1>5
<1>9. ASSUME NEW j \in 1..Len(s) + 1
      PROVE  (c \o b)[j] = IF j < i THEN s[j] ELSE IF j = i THEN e ELSE s[j - 1]
  <2>1. CASE j <= i
    <3>1. j \in 1..i /\ (~(j < i) => j = i)
      BY <1>1, <2>1
    <3> QED BY <1>5, <1>7, <1>8, <2>1, <3>1
  <2>2. CASE ~(j <= i)
    <3>1. /\ j - i \in 1..Len(s) + 1 - i /\ i + (j - i) - 1 = j - 1
          /\ ~(j < i) /\ j # i
      BY <1>1, <2>2
    <3>2. (c \o b)[j] = b[j - i]
      BY <1>5, <1>7, <1>8, <2>2
    <3> QED BY <1>3, <3>1, <3>2
  <2> QED BY <2>1, <2>2
<1> QED BY <1>6, <1>7, <1>8, <1>9

(* A line without repetitions stays one, and loses or gains just that element. *)
LEMMA RemoveAtLine ==
  ASSUME NEW S, NEW s \in Seq(S), NEW i \in DOMAIN s, IsInjective(s)
  PROVE  /\ IsInjective(RemoveAt(s, i))
         /\ ToSet(RemoveAt(s, i)) = ToSet(s) \ {s[i]}
<1> DEFINE t == RemoveAt(s, i)
<1>1. Len(s) \in Nat /\ i \in 1..Len(s) /\ DOMAIN s = 1..Len(s)
  BY LenProperties
<1>2. t \in Seq(S) /\ Len(t) = Len(s) - 1
      /\ \A j \in 1..Len(s) - 1 : t[j] = IF j < i THEN s[j] ELSE s[j + 1]
  BY RemoveAtElements, RemoveAtType
<1>3. DOMAIN t = 1..Len(s) - 1
  BY <1>2, LenProperties
<1> HIDE DEF t
<1>4. \A j, k \in 1..Len(s) : s[j] = s[k] => j = k
  BY <1>1 DEF IsInjective
<1>5. ASSUME NEW j \in 1..Len(s) - 1, NEW k \in 1..Len(s) - 1, t[j] = t[k] PROVE j = k
  <2>1. /\ j \in 1..Len(s) /\ j + 1 \in 1..Len(s)
        /\ k \in 1..Len(s) /\ k + 1 \in 1..Len(s)
    BY <1>1
  <2>2. (IF j < i THEN j ELSE j + 1) = (IF k < i THEN k ELSE k + 1)
    BY <1>2, <1>4, <1>5, <2>1
  <2> QED BY <1>1, <2>2
<1>6. IsInjective(t)
  BY <1>3, <1>5 DEF IsInjective
<1>7. ASSUME NEW x \in ToSet(t) PROVE x \in ToSet(s) \ {s[i]}
  <2>1. PICK j \in 1..Len(s) - 1 : x = t[j]
    BY <1>3 DEF ToSet
  <2>2. PICK k \in 1..Len(s) : x = s[k] /\ k # i
    <3>1. CASE j < i
      BY <1>1, <1>2, <2>1, <3>1
    <3>2. CASE ~(j < i)
      <4>1. j + 1 \in 1..Len(s) /\ j + 1 # i
        BY <1>1, <3>2
      <4> QED BY <1>2, <2>1, <3>2, <4>1
    <3> QED BY <3>1, <3>2
  <2> QED BY <1>1, <1>4, <2>2 DEF ToSet
<1>8. ASSUME NEW x \in ToSet(s), x # s[i] PROVE x \in ToSet(t)
  <2>1. PICK k \in 1..Len(s) : x = s[k] /\ k # i
    BY <1>1, <1>8 DEF ToSet
  <2>2. CASE k < i
    <3>1. k \in 1..Len(s) - 1 /\ t[k] = s[k]
      BY <1>1, <1>2, <2>2
    <3> QED BY <1>3, <2>1, <3>1 DEF ToSet
  <2>3. CASE ~(k < i)
    <3>1. k - 1 \in 1..Len(s) - 1 /\ ~(k - 1 < i) /\ (k - 1) + 1 = k
      BY <1>1, <2>1, <2>3
    <3>2. t[k - 1] = s[k]
      BY <1>2, <3>1
    <3> QED BY <1>3, <2>1, <3>1, <3>2 DEF ToSet
  <2> QED BY <2>2, <2>3
<1> QED BY <1>6, <1>7, <1>8 DEF t

LEMMA InsertAtLine ==
  ASSUME NEW S, NEW s \in Seq(S), NEW i \in 1..Len(s) + 1, NEW e \in S \ ToSet(s),
         IsInjective(s)
  PROVE  /\ IsInjective(InsertAt(s, i, e))
         /\ ToSet(InsertAt(s, i, e)) = ToSet(s) \cup {e}
<1> DEFINE t == InsertAt(s, i, e)
<1>1. Len(s) \in Nat /\ i \in Nat /\ DOMAIN s = 1..Len(s)
  BY LenProperties
<1>2. t \in Seq(S) /\ Len(t) = Len(s) + 1
      /\ \A j \in 1..Len(s) + 1 : t[j] = IF j < i THEN s[j] ELSE IF j = i THEN e ELSE s[j - 1]
  BY InsertAtElements, InsertAtType
<1>3. DOMAIN t = 1..Len(s) + 1
  BY <1>2, LenProperties
<1> HIDE DEF t
<1>4. /\ \A j, k \in 1..Len(s) : s[j] = s[k] => j = k
      /\ \A j \in 1..Len(s) : s[j] # e
  BY <1>1 DEF IsInjective, ToSet
<1>5. \A j \in 1..Len(s) + 1 :
        /\ j < i => j \in 1..Len(s)
        /\ ~(j < i) /\ j # i => j - 1 \in 1..Len(s)
  BY <1>1
<1>6. ASSUME NEW j \in 1..Len(s) + 1, NEW k \in 1..Len(s) + 1, t[j] = t[k] PROVE j = k
  <2>1. CASE j = i \/ k = i
    BY <1>2, <1>4, <1>5, <1>6, <2>1
  <2>2. CASE j # i /\ k # i
    <3>1. (IF j < i THEN j ELSE j - 1) = (IF k < i THEN k ELSE k - 1)
      BY <1>2, <1>4, <1>5, <1>6, <2>2
    <3> QED BY <1>1, <2>2, <3>1
  <2> QED BY <2>1, <2>2
<1>7. IsInjective(t)
  BY <1>3, <1>6 DEF IsInjective
<1>8. ASSUME NEW x \in ToSet(t) PROVE x \in ToSet(s) \cup {e}
  <2>1. PICK j \in 1..Len(s) + 1 : x = t[j]
    BY <1>3 DEF ToSet
  <2> QED BY <1>1, <1>2, <1>5, <2>1 DEF ToSet
<1>9. e \in ToSet(t)
  BY <1>2, <1>3 DEF ToSet
<1>10. ASSUME NEW x \in ToSet(s) PROVE x \in ToSet(t)
  <2>1. PICK k \in 1..Len(s) : x = s[k]
    BY <1>1 DEF ToSet
  <2>2. CASE k < i
    <3>1. k \in 1..Len(s) + 1 /\ t[k] = s[k]
      BY <1>1, <1>2, <2>2
    <3> QED BY <1>3, <2>1, <3>1 DEF ToSet
  <2>3. CASE ~(k < i)
    <3>1. k + 1 \in 1..Len(s) + 1 /\ ~(k + 1 < i) /\ k + 1 # i /\ (k + 1) - 1 = k
      BY <1>1, <2>3
    <3>2. t[k + 1] = s[k]
      BY <1>2, <3>1
    <3> QED BY <1>3, <2>1, <3>1, <3>2 DEF ToSet
  <2> QED BY <2>2, <2>3
<1> QED BY <1>7, <1>8, <1>9, <1>10 DEF t

(* Joining at either end is an insertion, and leaving from the front a removal. *)
LEMMA EndsOfLine ==
  ASSUME NEW S, NEW s \in Seq(S), NEW e \in S
  PROVE  /\ <<e>> \o s = InsertAt(s, 1, e)
         /\ Append(s, e) = InsertAt(s, Len(s) + 1, e)
         /\ s # <<>> => Tail(s) = RemoveAt(s, 1)
<1>1. Len(s) \in Nat /\ <<e>> \in Seq(S)
  BY LenProperties
<1>2. SubSeq(s, 1, 0) = <<>> /\ SubSeq(s, Len(s) + 1, Len(s)) = <<>>
  BY <1>1, SubSeqEmpty
<1>3. SubSeq(s, 1, Len(s)) = s
  BY SubSeqFull
<1>4. <<e>> \o s = InsertAt(s, 1, e)
  <2>1. InsertAt(s, 1, e) = (<<>> \o <<e>>) \o s
    BY <1>2, <1>3 DEF InsertAt
  <2> QED BY <1>1, <2>1, ConcatEmptySeq
<1>5. Append(s, e) = InsertAt(s, Len(s) + 1, e)
  <2>1. (Len(s) + 1) - 1 = Len(s)
    BY <1>1
  <2>2. InsertAt(s, Len(s) + 1, e) = (s \o <<e>>) \o <<>>
    BY <1>2, <1>3, <2>1 DEF InsertAt
  <2>3. s \o <<e>> \in Seq(S)
    BY <1>1, ConcatProperties
  <2> QED BY <2>2, <2>3, ConcatEmptySeq, AppendIsConcat
<1>6. ASSUME s # <<>> PROVE Tail(s) = RemoveAt(s, 1)
  <2>1. Tail(s) = SubSeq(s, 2, Len(s)) /\ Tail(s) \in Seq(S)
    BY <1>6, TailIsSubSeq, HeadTailProperties
  <2>2. RemoveAt(s, 1) = <<>> \o SubSeq(s, 2, Len(s))
    BY <1>2 DEF RemoveAt
  <2> QED BY <2>1, <2>2, ConcatEmptySeq
<1> QED BY <1>4, <1>5, <1>6

(* Two requests that change places stay in the line. *)
LEMMA MovedLine ==
  ASSUME NEW S, NEW s \in Seq(S), NEW i \in DOMAIN s, NEW j \in DOMAIN s, IsInjective(s)
  PROVE  IsInjective(Moved(s, i, j)) /\ ToSet(Moved(s, i, j)) = ToSet(s)
<1> DEFINE t == Moved(s, i, j)
<1>1. DOMAIN t = DOMAIN s
      /\ \A k \in DOMAIN s : t[k] = IF k = j THEN s[i] ELSE IF k = i THEN s[j] ELSE s[k]
  BY DEF Moved
<1> HIDE DEF t
<1>2. IsInjective(t)
  BY <1>1 DEF IsInjective
<1>3. ToSet(t) = ToSet(s)
  <2>1. \A k \in DOMAIN s : t[k] \in ToSet(s)
    BY <1>1 DEF ToSet
  <2>2. \A k \in DOMAIN s : s[k] \in ToSet(t)
    <3> TAKE k \in DOMAIN s
    <3>1. s[k] = t[IF k = i THEN j ELSE IF k = j THEN i ELSE k]
      BY <1>1
    <3> QED BY <1>1, <3>1 DEF ToSet
  <2> QED BY <1>1, <2>1, <2>2 DEF ToSet
<1> QED BY <1>2, <1>3 DEF t

(* A document whose receipts say which requests wait in it. *)
Coherent(q) ==
  /\ IsInjective(q.items)
  /\ ToSet(q.items) \cap Editing(q) = {}
  /\ \A r \in Ids : q.receipts[r] = "queued" <=> r \in Pending(q)

(* Only the line, the edits and the receipts matter. *)
SameLine(p, q) == p.items = q.items /\ p.edits = q.edits /\ p.receipts = q.receipts

LEMMA SameLineIsCoherent ==
  ASSUME NEW p, NEW q, Coherent(q), SameLine(p, q)
  PROVE  Coherent(p) /\ Editing(p) = Editing(q)
BY DEF Coherent, SameLine, Editing, Pending

(* What each operation of the queue does to the line, the edits and the receipts. *)
LEMMA EnqueuedFields ==
  ASSUME NEW q \in Document, NEW r \in Ids, NEW b \in Bodies, NEW interrupt \in BOOLEAN
  PROVE  /\ \E pos \in {1, Len(q.items) + 1} :
              Enqueued(q, r, b, interrupt).items = InsertAt(q.items, pos, r)
         /\ Enqueued(q, r, b, interrupt).edits = q.edits
         /\ Enqueued(q, r, b, interrupt).receipts = [q.receipts EXCEPT ![r] = "queued"]
         /\ Enqueued(q, r, b, interrupt).revision = q.revision + 1
<1>1. q.items \in Seq(Ids)
  BY DEF Document
<1>2. <<r>> \o q.items = InsertAt(q.items, 1, r)
      /\ Append(q.items, r) = InsertAt(q.items, Len(q.items) + 1, r)
  BY <1>1, EndsOfLine
<1> DEFINE line == IF interrupt THEN <<r>> \o q.items ELSE Append(q.items, r)
<1>3. \E pos \in {1, Len(q.items) + 1} : line = InsertAt(q.items, pos, r)
  BY <1>2
<1>4. Enqueued(q, r, b, interrupt) =
        [q EXCEPT !.items = line, !.receipts[r] = "queued", !.hash[r] = b, !.body[r] = b,
                  !.revision = @ + 1]
  BY DEF Enqueued
<1> HIDE DEF line
<1> QED BY <1>3, <1>4 DEF Document

LEMMA ReinsertedFields ==
  ASSUME NEW q \in Document, NEW r \in Editing(q), NEW b \in Bodies
  PROVE  \E pos \in 1..Len(q.items) + 1 :
           /\ Reinserted(q, r, b).items = InsertAt(q.items, pos, r)
           /\ Reinserted(q, r, b).edits = [q.edits EXCEPT ![r] = NotEditing]
           /\ Reinserted(q, r, b).receipts = q.receipts
           /\ Reinserted(q, r, b).revision = q.revision
<1> DEFINE pos == IF q.edits[r] <= Len(q.items) THEN q.edits[r] ELSE Len(q.items) + 1
<1>1. r \in Ids /\ q.edits[r] \in Nat \ {0}
  BY DEF Editing, Document, NotEditing
<1>2. q.items \in Seq(Ids) /\ Len(q.items) \in Nat
  BY DEF Document
<1>3. pos \in 1..Len(q.items) + 1
  BY <1>1, <1>2
<1>4. Reinserted(q, r, b) =
        [q EXCEPT !.items = InsertAt(@, pos, r), !.edits[r] = NotEditing, !.body[r] = b]
  BY DEF Reinserted
<1> HIDE DEF pos
<1> QED BY <1>3, <1>4 DEF Document

LEMMA EditBegunFields ==
  ASSUME NEW q \in Document, NEW i \in DOMAIN q.items, NEW p,
         p = [q EXCEPT !.items = RemoveAt(@, i), !.edits[q.items[i]] = i]
  PROVE  /\ p.items = RemoveAt(q.items, i)
         /\ p.edits = [q.edits EXCEPT ![q.items[i]] = i]
         /\ p.receipts = q.receipts /\ p.revision = q.revision
BY DEF Document

LEMMA RemovedFields ==
  ASSUME NEW q \in Document, NEW i \in DOMAIN q.items
  PROVE  /\ Removed(q, i).items = RemoveAt(q.items, i)
         /\ Removed(q, i).edits = q.edits
         /\ Removed(q, i).receipts = [q.receipts EXCEPT ![q.items[i]] = "cancelled"]
         /\ Removed(q, i).revision = q.revision
BY DEF Document, Removed

LEMMA PoppedFields ==
  ASSUME NEW q \in Document, NEW r \in Ids, NEW outcome, q.items # <<>>
  PROVE  /\ Popped(q, r, outcome).items = RemoveAt(q.items, 1)
         /\ Popped(q, r, outcome).edits = q.edits
         /\ \E receipt \in {"accepted", "failed"} :
              Popped(q, r, outcome).receipts = [q.receipts EXCEPT ![r] = receipt]
         /\ Popped(q, r, outcome).revision = q.revision + 1
<1>1. q.items \in Seq(Ids)
  BY DEF Document
<1>2. Tail(q.items) = RemoveAt(q.items, 1)
  <2>1. Head(q.items) \in Ids
    BY <1>1, HeadTailProperties
  <2> QED BY <1>1, <2>1, EndsOfLine
<1> DEFINE receipt == IF outcome = "ok" THEN "accepted" ELSE "failed"
<1>3. receipt \in {"accepted", "failed"}
  OBVIOUS
<1>4. Popped(q, r, outcome) =
        [q EXCEPT !.items = Tail(@), !.revision = @ + 1, !.receipts[r] = receipt]
  BY DEF Popped
<1> HIDE DEF receipt
<1> QED BY <1>2, <1>3, <1>4 DEF Document

(* Each of them keeps the receipts and the line together. *)
LEMMA JoiningIsCoherent ==
  ASSUME NEW q \in Document, NEW p \in Document, Coherent(q),
         NEW r \in Ids, NEW pos \in 1..Len(q.items) + 1, r \notin ToSet(q.items),
         p.items = InsertAt(q.items, pos, r), Editing(p) = Editing(q) \ {r},
         \A s \in Ids : p.receipts[s] = "queued" <=> q.receipts[s] = "queued" \/ s = r
  PROVE  Coherent(p) /\ Pending(p) = Pending(q) \cup {r}
<1>1. q.items \in Seq(Ids)
  BY DEF Document
<1>2. IsInjective(p.items) /\ ToSet(p.items) = ToSet(q.items) \cup {r}
  BY <1>1, InsertAtLine DEF Coherent
<1>4. Pending(p) = Pending(q) \cup {r}
  BY <1>2 DEF Pending
<1>5. \A s \in Ids : p.receipts[s] = "queued" <=> s \in Pending(p)
  BY <1>4 DEF Coherent
<1>6. ToSet(p.items) \cap Editing(p) = {}
  BY <1>1, <1>2 DEF Coherent
<1> QED BY <1>2, <1>4, <1>5, <1>6 DEF Coherent

LEMMA LeavingIsCoherent ==
  ASSUME NEW q \in Document, NEW p \in Document, Coherent(q), NEW i \in DOMAIN q.items,
         p.items = RemoveAt(q.items, i),
         \/ /\ p.edits = [q.edits EXCEPT ![q.items[i]] = i]
            /\ p.receipts = q.receipts
         \/ /\ p.edits = q.edits
            /\ \E receipt \in Receipt \ {"queued"} :
                 p.receipts = [q.receipts EXCEPT ![q.items[i]] = receipt]
  PROVE  /\ Coherent(p)
         /\ \/ Editing(p) = Editing(q) \cup {q.items[i]} /\ Pending(p) = Pending(q)
            \/ Editing(p) = Editing(q) /\ Pending(p) = Pending(q) \ {q.items[i]}
<1> DEFINE r == q.items[i]
<1>1. q.items \in Seq(Ids) /\ r \in Ids /\ r \in ToSet(q.items) /\ r \notin Editing(q)
      /\ i \in Nat \ {0}
  <2>1. q.items \in Seq(Ids)
    BY DEF Document
  <2>2. i \in 1..Len(q.items) /\ Len(q.items) \in Nat
    BY <2>1, LenProperties
  <2> QED BY <2>1, <2>2 DEF ToSet, Coherent
<1>2. IsInjective(p.items) /\ ToSet(p.items) = ToSet(q.items) \ {r}
  BY <1>1, RemoveAtLine DEF Coherent
<1> HIDE DEF r
<1>3. CASE p.edits = [q.edits EXCEPT ![r] = i] /\ p.receipts = q.receipts
  <2>1. Editing(p) = Editing(q) \cup {r}
    BY <1>1, <1>3 DEF Editing, Document, NotEditing
  <2>2. Pending(p) = Pending(q)
    BY <1>1, <1>2, <2>1 DEF Pending
  <2>3. ToSet(p.items) \cap Editing(p) = {}
    BY <1>2, <2>1 DEF Coherent
  <2>4. Coherent(p)
    BY <1>2, <1>3, <2>2, <2>3 DEF Coherent
  <2> QED BY <2>1, <2>2, <2>4 DEF r
<1>4. CASE /\ p.edits = q.edits
           /\ \E receipt \in Receipt \ {"queued"} : p.receipts = [q.receipts EXCEPT ![r] = receipt]
  <2>1. Editing(p) = Editing(q)
    BY <1>4 DEF Editing
  <2>2. Pending(p) = Pending(q) \ {r}
    BY <1>1, <1>2, <2>1 DEF Pending
  <2>3. \A s \in Ids : p.receipts[s] = "queued" <=> s \in Pending(p)
    BY <1>1, <1>4, <2>2 DEF Coherent, Document
  <2>4. ToSet(p.items) \cap Editing(p) = {}
    BY <1>2, <2>1 DEF Coherent
  <2>5. Coherent(p)
    BY <1>2, <2>3, <2>4 DEF Coherent
  <2> QED BY <2>1, <2>2, <2>5 DEF r
<1> QED BY <1>3, <1>4 DEF r

LEMMA MovingIsCoherent ==
  ASSUME NEW q \in Document, NEW p, Coherent(q), NEW i \in DOMAIN q.items,
         \/ \E j \in DOMAIN q.items : p.items = Moved(q.items, i, j)
         \/ p.items = <<q.items[i]>> \o RemoveAt(q.items, i),
         p.edits = q.edits, p.receipts = q.receipts
  PROVE  Coherent(p) /\ Editing(p) = Editing(q) /\ Pending(p) = Pending(q)
<1> DEFINE r == q.items[i]
<1>1. q.items \in Seq(Ids) /\ r \in Ids /\ r \in ToSet(q.items)
  BY DEF Document, ToSet
<1>2. IsInjective(p.items) /\ ToSet(p.items) = ToSet(q.items)
  <2>1. CASE \E j \in DOMAIN q.items : p.items = Moved(q.items, i, j)
    BY <1>1, <2>1, MovedLine DEF Coherent
  <2>2. CASE p.items = <<r>> \o RemoveAt(q.items, i)
    <3> DEFINE t == RemoveAt(q.items, i)
    <3>1. t \in Seq(Ids) /\ IsInjective(t) /\ ToSet(t) = ToSet(q.items) \ {r}
      BY <1>1, RemoveAtType, RemoveAtLine DEF Coherent
    <3> HIDE DEF t, r
    <3>2. p.items = InsertAt(t, 1, r) /\ 1 \in 1..Len(t) + 1
      BY <1>1, <2>2, <3>1, EndsOfLine, LenProperties DEF t
    <3>3. IsInjective(p.items) /\ ToSet(p.items) = ToSet(t) \cup {r}
      BY <1>1, <3>1, <3>2, InsertAtLine
    <3> QED BY <1>1, <3>1, <3>3
  <2> QED BY <2>1, <2>2
<1>3. Editing(p) = Editing(q) /\ Pending(p) = Pending(q)
  BY <1>2 DEF Editing, Pending
<1> QED BY <1>2, <1>3 DEF Coherent

-----------------------------------------------------------------------------
(* Steps of the session, as moves of the saved line. *)

(* How the line of a document p comes from that of q in one step. *)
Joins(q, p, r) ==
  /\ q.receipts[r] = "none" /\ runs[r].kind = "none"
  /\ \E pos \in {1, Len(q.items) + 1} : p.items = InsertAt(q.items, pos, r)
  /\ p.edits = q.edits /\ p.receipts = [q.receipts EXCEPT ![r] = "queued"]
Returns(q, p, r) ==
  /\ r \in Editing(q)
  /\ \E pos \in 1..Len(q.items) + 1 : p.items = InsertAt(q.items, pos, r)
  /\ p.edits = [q.edits EXCEPT ![r] = NotEditing] /\ p.receipts = q.receipts
Holds(q, p, i) ==
  /\ p.items = RemoveAt(q.items, i)
  /\ p.edits = [q.edits EXCEPT ![q.items[i]] = i] /\ p.receipts = q.receipts
Withdraws(q, p, i) ==
  /\ p.items = RemoveAt(q.items, i) /\ p.edits = q.edits
  /\ \E receipt \in {"accepted", "failed", "cancelled"} :
       p.receipts = [q.receipts EXCEPT ![q.items[i]] = receipt]
Reorders(q, p, i) ==
  /\ \/ \E j \in DOMAIN q.items \cap {i - 1, i + 1} : p.items = Moved(q.items, i, j)
     \/ p.items = <<q.items[i]>> \o RemoveAt(q.items, i)
  /\ p.edits = q.edits /\ p.receipts = q.receipts

LineMoves(q, p) ==
  \/ SameLine(p, q)
  \/ \E r \in Ids : Joins(q, p, r) \/ Returns(q, p, r)
  \/ \E i \in DOMAIN q.items : Holds(q, p, i) \/ Withdraws(q, p, i) \/ Reorders(q, p, i)

(* What each move does to the requests that wait. *)
LEMMA JoinsEffect ==
  ASSUME NEW q \in Document, NEW p \in Document, Coherent(q), NEW r \in Ids, Joins(q, p, r)
  PROVE  Coherent(p) /\ Editing(p) = Editing(q) /\ Pending(p) = Pending(q) \cup {r}
<1>1. PICK pos \in {1, Len(q.items) + 1} : p.items = InsertAt(q.items, pos, r)
  BY DEF Joins
<1>2. pos \in 1..Len(q.items) + 1
  BY DEF Document
<1>3. Editing(p) = Editing(q)
  BY DEF Joins, Editing
<1>4. r \notin ToSet(q.items) /\ r \notin Editing(q)
  BY DEF Joins, Coherent, Pending
<1>5. \A s \in Ids : p.receipts[s] = "queued" <=> q.receipts[s] = "queued" \/ s = r
  BY DEF Joins, Document
<1>6. Editing(p) = Editing(q) \ {r}
  BY <1>3, <1>4
<1>7. Coherent(p) /\ Pending(p) = Pending(q) \cup {r}
  BY <1>1, <1>2, <1>4, <1>5, <1>6, JoiningIsCoherent
<1> QED BY <1>3, <1>7

LEMMA ReturnsEffect ==
  ASSUME NEW q \in Document, NEW p \in Document, Coherent(q), NEW r \in Ids, Returns(q, p, r)
  PROVE  Coherent(p) /\ Editing(p) = Editing(q) \ {r} /\ Pending(p) = Pending(q)
<1>1. PICK pos \in 1..Len(q.items) + 1 : p.items = InsertAt(q.items, pos, r)
  BY DEF Returns
<1>2. r \in Editing(q) /\ r \in Pending(q)
  BY DEF Returns, Pending
<1>3. Editing(p) = Editing(q) \ {r}
  BY DEF Returns, Editing, Document
<1>4. r \notin ToSet(q.items)
  BY <1>2 DEF Coherent
<1>5. \A s \in Ids : p.receipts[s] = "queued" <=> q.receipts[s] = "queued" \/ s = r
  BY <1>2 DEF Returns, Coherent
<1>6. Coherent(p) /\ Pending(p) = Pending(q) \cup {r}
  BY <1>1, <1>3, <1>4, <1>5, JoiningIsCoherent
<1> QED BY <1>2, <1>3, <1>6

LEMMA HoldsEffect ==
  ASSUME NEW q \in Document, NEW p \in Document, Coherent(q), NEW i \in DOMAIN q.items,
         Holds(q, p, i)
  PROVE  /\ Coherent(p) /\ Pending(p) = Pending(q)
         /\ Editing(p) = Editing(q) \cup {q.items[i]}
<1>1. /\ Coherent(p)
      /\ \/ Editing(p) = Editing(q) \cup {q.items[i]} /\ Pending(p) = Pending(q)
         \/ Editing(p) = Editing(q) /\ Pending(p) = Pending(q) \ {q.items[i]}
  BY LeavingIsCoherent DEF Holds
<1>2. q.items[i] \in Ids /\ i # 0
  BY DEF Document
<1>3. q.items[i] \in Editing(p)
  BY <1>2 DEF Holds, Editing, Document, NotEditing
<1>4. q.items[i] \notin Editing(q)
  BY DEF Coherent, ToSet
<1> QED BY <1>1, <1>3, <1>4

LEMMA WithdrawsEffect ==
  ASSUME NEW q \in Document, NEW p \in Document, Coherent(q), NEW i \in DOMAIN q.items,
         Withdraws(q, p, i)
  PROVE  /\ Coherent(p) /\ Pending(p) = Pending(q) \ {q.items[i]}
         /\ Editing(p) = Editing(q)
<1>1. \E receipt \in Receipt \ {"queued"} : p.receipts = [q.receipts EXCEPT ![q.items[i]] = receipt]
  BY DEF Withdraws, Receipt
<1>2. /\ Coherent(p)
      /\ \/ Editing(p) = Editing(q) \cup {q.items[i]} /\ Pending(p) = Pending(q)
         \/ Editing(p) = Editing(q) /\ Pending(p) = Pending(q) \ {q.items[i]}
  BY <1>1, LeavingIsCoherent DEF Withdraws
<1>3. Editing(p) = Editing(q)
  BY DEF Withdraws, Editing
<1>4. q.items[i] \notin Editing(q)
  BY DEF Coherent, ToSet
<1> QED BY <1>2, <1>3, <1>4

LEMMA ReordersEffect ==
  ASSUME NEW q \in Document, NEW p \in Document, Coherent(q), NEW i \in DOMAIN q.items,
         Reorders(q, p, i)
  PROVE  Coherent(p) /\ Editing(p) = Editing(q) /\ Pending(p) = Pending(q)
BY MovingIsCoherent DEF Reorders

LEMMA MovesAreCoherent ==
  ASSUME NEW q \in Document, NEW p \in Document, Coherent(q), LineMoves(q, p)
  PROVE  Coherent(p)
BY SameLineIsCoherent, JoinsEffect, ReturnsEffect, HoldsEffect, WithdrawsEffect, ReordersEffect
   DEF LineMoves

(* The saved queue, and the same in memory while the session is loaded. *)
QueueInv == Coherent(disk) /\ MemoryMatchesDisk

LEMMA MemoryLine ==
  ASSUME TypeOK, MemoryMatchesDisk, live
  PROVE  SameLine(queue, disk) /\ queue.revision = disk.revision
         /\ queue.hash = disk.hash /\ queue.body = disk.body
BY DEF TypeOK, MemoryMatchesDisk, Document, SameLine

(* A step of the queue saves a document one revision on whose line moved, or fails. *)
Saves ==
  \/ UNCHANGED <<disk, queue>>
  \/ /\ disk' \in Document /\ queue' = disk' /\ live
     /\ LineMoves(disk, disk') /\ disk'.revision = disk.revision + 1

(* It is the line that moves, whatever else the document holds. *)
LEMMA SameLineMoves ==
  ASSUME NEW q, NEW d, NEW p, SameLine(q, d), LineMoves(q, p)
  PROVE  LineMoves(d, p)
<1>0. q.items = d.items /\ q.edits = d.edits /\ q.receipts = d.receipts
  BY DEF SameLine
<1>1. SameLine(p, q) => SameLine(p, d)
  BY <1>0 DEF SameLine
<1>2. \A r : Joins(q, p, r) => Joins(d, p, r)
  BY <1>0 DEF Joins
<1>3. \A r : Returns(q, p, r) => Returns(d, p, r)
  BY <1>0 DEF Returns, Editing
<1>4. \A i : Holds(q, p, i) => Holds(d, p, i)
  BY <1>0 DEF Holds
<1>5. \A i : Withdraws(q, p, i) => Withdraws(d, p, i)
  BY <1>0 DEF Withdraws
<1>6. \A i : Reorders(q, p, i) => Reorders(d, p, i)
  BY <1>0 DEF Reorders
<1> QED BY <1>0, <1>1, <1>2, <1>3, <1>4, <1>5, <1>6 DEF LineMoves

LEMMA CommitSaves ==
  ASSUME TypeOK, QueueInv, live, NEW next \in Document, NEW interrupt, Commit(next, interrupt),
         LineMoves(queue, next), next.revision = queue.revision + 1
  PROVE  Saves
<1>1. UNCHANGED <<disk, queue>> \/ (disk' = next /\ queue' = next)
  BY DEF Commit, fileVars, rtVars
<1>2. SameLine(queue, disk) /\ queue.revision = disk.revision
  BY MemoryLine DEF QueueInv
<1>3. LineMoves(disk, next)
  BY <1>2, SameLineMoves
<1> QED BY <1>1, <1>2, <1>3 DEF Saves

LEMMA ActionSaves ==
  ASSUME TypeOK, QueueInv, NEW next \in Document, NEW interrupt, Action(next, interrupt),
         LineMoves(queue, next), next.revision = queue.revision
  PROVE  Saves
<1> DEFINE p == [next EXCEPT !.revision = @ + 1]
<1>1. next.revision + 1 \in Nat
  BY DEF Document
<1>2. p \in Document /\ SameLine(p, next) /\ p.revision = queue.revision + 1
  BY <1>1 DEF Document, SameLine
<1>3. Commit(p, interrupt) /\ live
  BY DEF Action, QueueOpen
<1> HIDE DEF p
<1>4. LineMoves(queue, p)
  <2>1. p.items = next.items /\ p.edits = next.edits /\ p.receipts = next.receipts
    BY <1>2 DEF SameLine
  <2> QED BY <2>1 DEF LineMoves, SameLine, Joins, Returns, Holds, Withdraws, Reorders
<1> QED BY <1>2, <1>3, <1>4, CommitSaves

(* Every handler of the queue. *)
LEMMA QueueHandlerSaves ==
  ASSUME TypeOK, QueueInv, QueueHandler
  PROVE  Saves
<1>0. queue \in Document /\ queue.items \in Seq(Ids) /\ Len(queue.items) \in Nat
      /\ DOMAIN queue.items = 1..Len(queue.items)
  BY DEF TypeOK, Document
<1>1. ASSUME NEW r \in QueueIds, NEW b \in Bodies, NEW interrupt \in BOOLEAN,
             Submit(r, b, interrupt)
      PROVE  Saves
  <2> DEFINE p == Enqueued(queue, r, b, interrupt)
  <2>1. r \in Ids /\ p \in Document
    BY <1>0, EnqueuedType DEF Ids
  <2>2. queue.receipts[r] = "none" /\ runs[r].kind = "none" /\ live
        /\ \E w : Commit(p, w)
    BY <1>1 DEF Submit, QueueOpen
  <2>3. /\ \E pos \in {1, Len(queue.items) + 1} : p.items = InsertAt(queue.items, pos, r)
        /\ p.edits = queue.edits /\ p.receipts = [queue.receipts EXCEPT ![r] = "queued"]
        /\ p.revision = queue.revision + 1
    BY <1>0, <2>1, EnqueuedFields
  <2> HIDE DEF p
  <2>5. Joins(queue, p, r)
    BY <2>2, <2>3 DEF Joins
  <2> QED BY <2>1, <2>2, <2>3, <2>5, CommitSaves DEF LineMoves
<1>2. CASE PauseQueue \/ ResumeQueue
  <2>1. \A x \in BOOLEAN : /\ [queue EXCEPT !.paused = x] \in Document
                           /\ SameLine([queue EXCEPT !.paused = x], queue)
                           /\ [queue EXCEPT !.paused = x].revision = queue.revision
    BY <1>0 DEF Document, SameLine
  <2> QED BY <1>2, <2>1, ActionSaves DEF PauseQueue, ResumeQueue, LineMoves
<1>3. ASSUME NEW i \in DOMAIN queue.items, EditBegin(i) PROVE Saves
  <2> DEFINE p == [queue EXCEPT !.items = RemoveAt(@, i), !.edits[queue.items[i]] = i]
  <2>1. p \in Document
    BY <1>0, EditBegunType
  <2>2. Action(p, FALSE)
    BY <1>3 DEF EditBegin
  <2>3. p = [queue EXCEPT !.items = RemoveAt(@, i), !.edits[queue.items[i]] = i]
    OBVIOUS
  <2> HIDE DEF p
  <2>4. p.revision = queue.revision /\ Holds(queue, p, i)
    BY <1>0, <2>3 DEF Holds, Document
  <2> QED BY <2>1, <2>2, <2>4, ActionSaves DEF LineMoves
<1>4. ASSUME NEW i \in DOMAIN queue.items, RemoveItem(i) PROVE Saves
  <2>1. /\ Removed(queue, i) \in Document /\ Removed(queue, i).revision = queue.revision
        /\ Withdraws(queue, Removed(queue, i), i)
    BY <1>0, RemovedType, RemovedFields DEF Withdraws
  <2> QED BY <1>4, <2>1, ActionSaves DEF RemoveItem, LineMoves
<1>5. ASSUME NEW i \in DOMAIN queue.items, RunNow(i) PROVE Saves
  <2> DEFINE p == [queue EXCEPT !.items = <<queue.items[i]>> \o RemoveAt(@, i), !.paused = FALSE]
  <2>1. p \in Document
    BY <1>0, RunNowType
  <2>2. p.revision = queue.revision /\ Reorders(queue, p, i)
    BY <1>0 DEF Reorders, Document
  <2>3. Action(p, TRUE)
    BY <1>5 DEF RunNow
  <2> HIDE DEF p
  <2> QED BY <2>1, <2>2, <2>3, ActionSaves DEF LineMoves
<1>6. ASSUME NEW i \in DOMAIN queue.items, NEW j, Move(i, j) PROVE Saves
  <2> DEFINE p == [queue EXCEPT !.items = Moved(@, i, j)]
  <2>1. j \in DOMAIN queue.items \cap {i - 1, i + 1} /\ Action(p, FALSE)
    BY <1>6 DEF Move
  <2>2. p \in Document
    BY <1>0, <2>1, MovedType
  <2>3. p.revision = queue.revision /\ Reorders(queue, p, i)
    BY <1>0, <2>1 DEF Reorders, Document
  <2> HIDE DEF p
  <2> QED BY <2>1, <2>2, <2>3, ActionSaves DEF LineMoves
<1>7. ASSUME NEW r \in QueueIds, NEW b \in Bodies, EditEnd(r, b) PROVE Saves
  <2> DEFINE p == Reinserted(queue, r, b)
  <2>1. r \in Editing(queue) /\ Action(p, FALSE)
    BY <1>7 DEF EditEnd
  <2>2. p \in Document
    BY <1>0, <2>1, ReinsertedType
  <2>4. \E pos \in 1..Len(queue.items) + 1 :
           /\ p.items = InsertAt(queue.items, pos, r)
           /\ p.edits = [queue.edits EXCEPT ![r] = NotEditing]
           /\ p.receipts = queue.receipts
           /\ p.revision = queue.revision
    BY <1>0, <2>1, ReinsertedFields
  <2> HIDE DEF p
  <2>5. p.revision = queue.revision /\ Returns(queue, p, r)
    BY <2>1, <2>4 DEF Returns
  <2>3. r \in Ids
    BY DEF Ids
  <2> QED BY <2>1, <2>2, <2>3, <2>5, ActionSaves DEF LineMoves
<1>8. CASE ReadSnapshot \/ \E r \in Watched : ReadReceipt(r)
  BY <1>8 DEF ReadSnapshot, ReadReceipt, fileVars, rtVars, Saves
<1> QED BY <1>1, <1>2, <1>3, <1>4, <1>5, <1>6, <1>7, <1>8 DEF QueueHandler

(* The worker takes the dispatched head out with its receipt. *)
LEMMA WorkerStepSaves ==
  ASSUME TypeOK, QueueInv, WorkerInv, WorkerStep
  PROVE  Saves
<1>1. CASE WorkerSettle /\ ~UNCHANGED <<disk, queue>>
  <2>1. /\ HeadIsDispatched /\ queue' = Popped(queue, worker.req, worker.outcome)
        /\ disk' = queue'
    BY <1>1 DEF WorkerSettle, Pop
  <2>2. worker.req \in Ids /\ live
    BY <1>1 DEF WorkerSettle, WorkerInv, WorkerBound
  <2> DEFINE p == Popped(queue, worker.req, worker.outcome)
  <2>3. queue \in Document /\ queue.items \in Seq(Ids) /\ queue.items # <<>>
    BY <2>1 DEF TypeOK, Document, HeadIsDispatched
  <2>4. 1 \in DOMAIN queue.items /\ queue.items[1] = worker.req
    BY <2>1, <2>3 DEF HeadIsDispatched
  <2>5. /\ p \in Document /\ p.items = RemoveAt(queue.items, 1) /\ p.edits = queue.edits
        /\ \E receipt \in {"accepted", "failed"} :
              p.receipts = [queue.receipts EXCEPT ![worker.req] = receipt]
        /\ p.revision = queue.revision + 1
    BY <2>2, <2>3, PoppedType, PoppedFields
  <2> HIDE DEF p
  <2>6. Withdraws(queue, p, 1)
    BY <2>4, <2>5 DEF Withdraws
  <2>7. SameLine(queue, disk) /\ queue.revision = disk.revision
    BY <2>2, MemoryLine DEF QueueInv
  <2>8. Withdraws(disk, p, 1) /\ 1 \in DOMAIN disk.items
    BY <2>4, <2>6, <2>7 DEF Withdraws, SameLine
  <2> QED BY <2>1, <2>2, <2>5, <2>7, <2>8 DEF Saves, LineMoves, p
<1> QED BY <1>1 DEF WorkerStep, WorkerLoop, WorkerDispatch, WorkerSettle, WorkerExit, fileVars,
  rtVars, DispatchStarts, Saves

(* Everybody else leaves the document alone; a load reads it, an end of the session *)
(* forgets it.                                                                         *)
LEMMA OthersSaveNothing ==
  ASSUME OtherHandler \/ (\E n \in RunIds : RunStep(n)) \/ Environment \/ UNCHANGED vars
  PROVE  /\ disk' = disk
         /\ \/ queue' = queue /\ live' = live
            \/ ~live' \/ queue' = LoadedQueue
<1>1. CASE OtherHandler
  BY <1>1 DEF OtherHandler, Prompt, Compact, Cancel, fileVars, rtVars
<1>2. ASSUME NEW n \in RunIds, RunStep(n) PROVE UNCHANGED <<disk, queue, live>>
  BY <1>2 DEF RunStep, TurnEnds, RecordState, Release, RunTail, CompactFinish, fileVars, rtVars
<1>3. CASE Environment
  BY <1>3 DEF Environment, Load, Evict, ShutDown, CloseSession, Crash, CrashInAcceptance,
    CrashInRelease, Restart, Unload, fileVars, rtVars
<1> QED BY <1>1, <1>2, <1>3 DEF vars, fileVars, rtVars

(* A step of the session saves a document one revision on, forgets the queue in     *)
(* memory, loads it, or leaves it.                                                      *)
QueueStep ==
  \/ Saves /\ live' = live
  \/ disk' = disk /\ (~live' \/ queue' = LoadedQueue)

LEMMA NextSaves ==
  ASSUME TypeOK, QueueInv, WorkerInv, [Next]_vars
  PROVE  QueueStep
<1>1. CASE QueueHandler
  BY <1>1, QueueHandlerSaves, QueueHandlerFrame DEF QueueStep
<1>2. CASE WorkerStep
  <2>1. live' = live
    BY <1>2 DEF WorkerStep, WorkerLoop, WorkerDispatch, WorkerSettle, WorkerExit, rtVars,
      DispatchStarts
  <2> QED BY <1>2, <2>1, WorkerStepSaves DEF QueueStep
<1>3. CASE OtherHandler \/ (\E n \in RunIds : RunStep(n)) \/ Environment \/ UNCHANGED vars
  <2>1. /\ disk' = disk
        /\ (queue' = queue /\ live' = live) \/ ~live' \/ queue' = LoadedQueue
    BY <1>3, OthersSaveNothing
  <2>2. CASE queue' = queue /\ live' = live
    BY <2>1, <2>2 DEF QueueStep, Saves
  <2> QED BY <2>1, <2>2 DEF QueueStep
<1> QED BY <1>1, <1>2, <1>3 DEF Next

LEMMA LineInvParts == LineInv <=> QueueInv /\ SeenSound
BY DEF LineInv, QueueInv, Coherent, ReceiptsMatchQueue

(* The line is kept together by every step, and what is in memory is what is saved. *)
LEMMA NextKeepsQueueInv ==
  ASSUME TypeOK, QueueInv, WorkerInv, [Next]_vars
  PROVE  QueueInv'
<1>1. QueueStep /\ disk \in Document /\ queue \in Document /\ live \in BOOLEAN
  BY NextSaves DEF TypeOK
<1>2. CASE UNCHANGED <<disk, queue, live>>
  BY <1>2 DEF QueueInv, Coherent, MemoryMatchesDisk, Editing, Pending
<1>3. CASE /\ disk' \in Document /\ queue' = disk' /\ LineMoves(disk, disk')
  <2>1. Coherent(disk)'
    <3>1. Coherent(disk')
      BY <1>1, <1>3, MovesAreCoherent DEF QueueInv
    <3> QED BY <3>1 DEF Coherent, Editing, Pending
  <2>2. MemoryMatchesDisk'
    BY <1>3 DEF MemoryMatchesDisk, Document
  <2> QED BY <2>1, <2>2 DEF QueueInv
<1>4. CASE disk' = disk /\ (~live' \/ queue' = LoadedQueue)
  <2>1. Coherent(disk)'
    BY <1>4 DEF QueueInv, Coherent, Editing, Pending
  <2>2. MemoryMatchesDisk'
    BY <1>1, <1>4 DEF MemoryMatchesDisk, LoadedQueue, Document
  <2> QED BY <2>1, <2>2 DEF QueueInv
<1> QED BY <1>1, <1>2, <1>3, <1>4 DEF QueueStep, Saves

(* Only reading a snapshot changes what a client has seen. *)
LEMMA OnlyReadsShow ==
  ASSUME [Next]_vars
  PROVE  ReadSnapshot \/ seen' = seen
<1>1. CASE QueueHandler
  BY <1>1 DEF QueueHandler, Submit, Action, PauseQueue, ResumeQueue, EditBegin, RemoveItem,
    RunNow, Move, EditEnd, ReadReceipt, clientVars
<1>2. CASE OtherHandler \/ WorkerStep
  BY <1>2 DEF OtherHandler, Prompt, Compact, Cancel, WorkerStep, WorkerLoop, WorkerDispatch,
    WorkerSettle, WorkerExit, clientVars
<1>3. ASSUME NEW n \in RunIds, RunStep(n) PROVE seen' = seen
  BY <1>3 DEF RunStep, TurnEnds, RecordState, Release, RunTail, CompactFinish, clientVars
<1>4. CASE Environment
  BY <1>4 DEF Environment, Load, Evict, ShutDown, CloseSession, Crash, CrashInAcceptance,
    CrashInRelease, Restart, clientVars
<1> QED BY <1>1, <1>2, <1>3, <1>4 DEF Next, vars, clientVars

LEMMA NextKeepsSeenSound ==
  ASSUME TypeOK, QueueInv, SeenSound, WorkerInv, [Next]_vars
  PROVE  SeenSound'
<1>1. QueueInv /\ SeenSound /\ disk \in Document /\ seen \in Snapshot
  BY DEF TypeOK
<1>2. CASE ReadSnapshot
  <2>1. live /\ disk' = disk /\ seen' = [revision |-> queue.revision, items |-> queue.items]
    BY <1>2 DEF ReadSnapshot, fileVars
  <2>2. queue.items = disk.items /\ queue.revision = disk.revision
    BY <1>1, <2>1, MemoryLine DEF QueueInv, SameLine
  <2>3. seen'.revision = disk'.revision /\ seen'.items = disk'.items /\ disk.revision \in Nat
    BY <1>1, <2>1, <2>2 DEF Document
  <2> QED BY <2>1, <2>3 DEF SeenSound
<1>3. CASE seen' = seen /\ disk' = disk
  BY <1>1, <1>3 DEF SeenSound
<1>4. CASE seen' = seen /\ disk'.revision = disk.revision + 1
  BY <1>1, <1>4 DEF SeenSound, Document, Snapshot
<1> QED BY <1>1, <1>2, <1>3, <1>4, NextSaves, OnlyReadsShow DEF QueueStep, Saves

LEMMA InitLineInv == Init => LineInv
<1> SUFFICES ASSUME Init PROVE LineInv
  OBVIOUS
<1>1. disk = NoDocument /\ ~live /\ seen = [revision |-> 0, items |-> <<>>]
  BY DEF Init
<1>2. Editing(disk) = {} /\ disk.items = <<>> /\ disk.revision = 0
      /\ \A r \in Ids : disk.receipts[r] = "none"
  BY <1>1 DEF NoDocument, Editing
<1>3. ToSet(disk.items) = {} /\ IsInjective(disk.items)
  BY <1>2 DEF ToSet, IsInjective
<1>4. Coherent(disk)
  BY <1>2, <1>3 DEF Coherent, Pending
<1> QED BY <1>1, <1>2, <1>4, LineInvParts DEF QueueInv, SeenSound, MemoryMatchesDisk


-----------------------------------------------------------------------------
(* Steps of the session, as steps of PromptLine. *)

(* A goroutine that runs a prompt is the one that ran it, for the same request. *)
KeepsPrompt(n) ==
  /\ go'[n].kind = "prompt" <=> go[n].kind = "prompt"
  /\ go[n].kind = "prompt" => go'[n].req = go[n].req

LEMMA OthersKeepPrompts ==
  ASSUME TypeOK, RunsBound, NEW n \in RunIds,
         \/ QueueHandler \/ Cancel \/ Environment \/ UNCHANGED vars
         \/ \E c \in CompactIds : Compact(c)
         \/ \E m \in RunIds : RunStep(m)
         \/ WorkerStep /\ ~(worker.pc = "dispatch" /\ DispatchStarts)
  PROVE  KeepsPrompt(n)
<1>2. CASE go' = go \/ go' = CancelRun(go)
  BY <1>2 DEF KeepsPrompt, CancelRun, TypeOK, Goroutine
<1>3. CASE QueueHandler
  BY <1>2, <1>3, QueueHandlerFrame
<1>4. CASE Cancel \/ UNCHANGED vars
  BY <1>2, <1>4 DEF Cancel, vars, goVars
<1>5. CASE Environment
  <2>1. CASE Restart
    BY <2>1 DEF KeepsPrompt, Restart, TypeOK, Goroutine
  <2>2. CASE ~Restart
    BY <1>2, <1>5, <2>2 DEF Environment, Load, Evict, ShutDown, CloseSession, Crash,
      CrashInAcceptance, CrashInRelease, goVars
  <2> QED BY <2>1, <2>2
<1>6. ASSUME NEW c \in CompactIds, Compact(c) PROVE KeepsPrompt(n)
  <2> DEFINE g1 == [NoGoroutine EXCEPT !.phase = "turn", !.kind = "compact", !.req = c,
                                       !.body = None]
             g2 == [NoGoroutine EXCEPT !.phase = "ended", !.kind = "compact", !.req = c,
                                       !.state = "failed"]
  <2>1. go' = go \/ go' = [go EXCEPT ![nextRun] = g1] \/ go' = [go EXCEPT ![nextRun] = g2]
    BY <1>6 DEF Compact, Execute
  <2>2. g1.kind = "compact" /\ g2.kind = "compact"
    BY DEF NoGoroutine
  <2>3. nextRun \in RunIds /\ nextRun >= nextRun
    <3>1. nextRun \in RunIds
      BY <1>6 DEF Compact
    <3> QED BY <3>1, MaxRunsIsNat DEF RunIds
  <2>4. go[nextRun].kind = "none"
    BY <2>3 DEF RunsBound
  <2> HIDE DEF g1, g2
  <2> QED BY <2>1, <2>2, <2>3, <2>4 DEF TypeOK, KeepsPrompt
<1>7. ASSUME NEW m \in RunIds, RunStep(m) PROVE KeepsPrompt(n)
  <2>1. \E p, state : \/ go' = [go EXCEPT ![m].phase = p, ![m].state = state]
                     \/ go' = [go EXCEPT ![m].phase = p]
    BY <1>7 DEF RunStep, TurnEnds, RecordState, Release, RunTail, CompactFinish
  <2>2. PICK p, state : \/ go' = [go EXCEPT ![m].phase = p]
                        \/ go' = [go EXCEPT ![m].phase = p, ![m].state = state]
    BY <2>1
  <2>3. go \in [RunIds -> Goroutine]
    BY DEF TypeOK
  <2>4. CASE go' = [go EXCEPT ![m].phase = p]
    BY <2>3, <2>4, GoroutineUpdates DEF KeepsPrompt
  <2>5. CASE go' = [go EXCEPT ![m].phase = p, ![m].state = state]
    BY <2>3, <2>5, GoroutineUpdates DEF KeepsPrompt
  <2> QED BY <2>2, <2>4, <2>5
<1>8. CASE WorkerStep /\ ~(worker.pc = "dispatch" /\ DispatchStarts)
  BY <1>2, <1>8 DEF WorkerStep, WorkerLoop, WorkerDispatch, WorkerSettle, WorkerExit, goVars
<1> QED BY <1>3, <1>4, <1>5, <1>6, <1>7, <1>8

(* Which requests a step makes executed. *)
LEMMA SamePromptsExecuted ==
  ASSUME \A n \in RunIds : KeepsPrompt(n)
  PROVE  \A r : Executed(r)' <=> Executed(r)
BY DEF KeepsPrompt, Executed

LEMMA StartExecutes ==
  ASSUME TypeOK, RunsBound, NEW r \in Ids, NEW b, StartRun(r, b)
  PROVE  \/ \A s : Executed(s)' <=> Executed(s)
         \/ \A s : Executed(s)' <=> (Executed(s) \/ s = r)
<1> DEFINE g == [NoGoroutine EXCEPT !.phase = "turn", !.kind = "prompt", !.req = r, !.body = b]
<1>1. nextRun \in RunIds /\ go[nextRun].kind = "none"
  BY MaxRunsIsNat DEF StartRun, RunsBound, RunIds
<1>2. go' = go \/ go' = [go EXCEPT ![nextRun] = g]
  BY DEF StartRun, Accept, AbortAcceptance, Execute
<1>3. g.kind = "prompt" /\ g.req = r
  BY DEF NoGoroutine
<1> HIDE DEF g
<1>4. CASE go' = go
  BY <1>4 DEF Executed
<1>5. CASE go' = [go EXCEPT ![nextRun] = g]
  <2>1. go'[nextRun] = g /\ \A n \in RunIds \ {nextRun} : go'[n] = go[n]
    BY <1>1, <1>5 DEF TypeOK
  <2> QED BY <1>1, <1>3, <2>1 DEF Executed
<1> QED BY <1>2, <1>4, <1>5

(* A request without a record has not been executed. *)
LEMMA UnrecordedIsNew ==
  ASSUME RunsRemembered, live, NEW r, runs[r].kind = "none"
  PROVE  ~Executed(r)
BY DEF RunsRemembered, NamesRun, Executed

(* The status of a request follows from whether it was executed, whether it waits,   *)
(* and its receipt.                                                                     *)
LEMMA StatusStays ==
  ASSUME NEW s \in Ids, Executed(s)' <=> Executed(s),
         s \in Pending(disk') <=> s \in Pending(disk), disk'.receipts[s] = disk.receipts[s]
  PROVE  StatusOf(s)' = StatusOf(s)
<1>1. s \in Pending(disk)' <=> s \in Pending(disk)
  BY DEF Pending, Editing
<1> QED BY <1>1 DEF StatusOf

LEMMA MovesImplement ==
  ASSUME TypeOK, RunsRemembered, Coherent(disk), live, disk' \in Document,
         LineMoves(disk, disk'), \A s \in Ids : Executed(s)' <=> Executed(s)
  PROVE  [Line!LineNext]_(Line!lineVars)
<1> DEFINE stat == [r \in Ids |-> StatusOf(r)]
<1>0. /\ disk \in Document /\ disk.items \in Seq(Ids) /\ Len(disk.items) \in Nat
      /\ DOMAIN disk.items = 1..Len(disk.items)
  BY DEF TypeOK, Document
<1>1. CASE SameLine(disk', disk)
  <2>1. Editing(disk)' = Editing(disk) /\ Pending(disk') = Pending(disk)
    BY <1>1 DEF SameLine, Editing, Pending
  <2>2. \A s \in Ids : StatusOf(s)' = StatusOf(s)
    BY <1>1, <2>1, StatusStays DEF SameLine
  <2>3. stat' = stat
    BY <2>2
  <2> QED BY <1>1, <2>1, <2>3 DEF Line!lineVars, SameLine
<1>2. ASSUME NEW r \in Ids, Joins(disk, disk', r) PROVE Line!Join(r)
  <2>1. PICK pos \in {1, Len(disk.items) + 1} : disk'.items = InsertAt(disk.items, pos, r)
    BY <1>2 DEF Joins
  <2>2. /\ disk.receipts[r] = "none" /\ runs[r].kind = "none" /\ disk'.edits = disk.edits
        /\ disk'.receipts = [disk.receipts EXCEPT ![r] = "queued"]
    BY <1>2 DEF Joins
  <2>4. Pending(disk') = Pending(disk) \cup {r}
    BY <1>0, <1>2, JoinsEffect
  <2>5. Editing(disk)' = Editing(disk)
    BY <2>2 DEF Editing
  <2>6. disk'.items \in {Append(disk.items, r), <<r>> \o disk.items}
    BY <1>0, <2>1, EndsOfLine
  <2>7. ~Executed(r) /\ r \notin Pending(disk)
    BY <2>2, UnrecordedIsNew DEF Coherent
  <2>8. StatusOf(r) = "new"
    BY <2>2, <2>7 DEF StatusOf
  <2>9. StatusOf(r)' = "queued"
    <3>1. r \in Pending(disk)' /\ ~Executed(r)'
      BY <2>4, <2>7 DEF Pending, Editing
    <3> QED BY <3>1 DEF StatusOf
  <2>10. \A s \in Ids \ {r} : StatusOf(s)' = StatusOf(s)
    <3>1. \A s \in Ids \ {r} : disk'.receipts[s] = disk.receipts[s]
      BY <1>0, <2>2 DEF Document
    <3> QED BY <2>4, <3>1, StatusStays
  <2>11. stat' = [stat EXCEPT ![r] = "queued"] /\ stat[r] = "new"
    BY <2>8, <2>9, <2>10
  <2> QED BY <2>5, <2>6, <2>11 DEF Line!Join
<1>3. ASSUME NEW r \in Ids, Returns(disk, disk', r) PROVE Line!Return(r)
  <2>1. PICK pos \in 1..Len(disk.items) + 1 : disk'.items = InsertAt(disk.items, pos, r)
    BY <1>3 DEF Returns
  <2>2. r \in Editing(disk) /\ disk'.receipts = disk.receipts
        /\ disk'.edits = [disk.edits EXCEPT ![r] = NotEditing]
    BY <1>3 DEF Returns
  <2>6. Editing(disk') = Editing(disk) \ {r} /\ Pending(disk') = Pending(disk)
    BY <1>0, <1>3, ReturnsEffect
  <2>3. \A s \in Ids : StatusOf(s)' = StatusOf(s)
    BY <2>2, <2>6, StatusStays
  <2>4. stat' = stat
    BY <2>3
  <2>5. disk'.items = Line!InsertAt(disk.items, pos, r)
    BY <2>1 DEF Line!InsertAt, InsertAt
  <2> QED BY <2>1, <2>2, <2>4, <2>5, <2>6 DEF Line!Return, Editing
<1>4. ASSUME NEW i \in DOMAIN disk.items, Holds(disk, disk', i) PROVE Line!Hold(i)
  <2>1. /\ disk'.items = RemoveAt(disk.items, i) /\ disk'.receipts = disk.receipts
        /\ disk'.edits = [disk.edits EXCEPT ![disk.items[i]] = i]
    BY <1>4 DEF Holds
  <2>6. Pending(disk') = Pending(disk) /\ Editing(disk') = Editing(disk) \cup {disk.items[i]}
    BY <1>0, <1>4, HoldsEffect
  <2>7. \A s \in Ids : StatusOf(s)' = StatusOf(s)
    BY <2>1, <2>6, StatusStays
  <2>8. stat' = stat
    BY <2>7
  <2>9. disk'.items = Line!RemoveAt(disk.items, i)
    BY <2>1 DEF Line!RemoveAt, RemoveAt
  <2> QED BY <2>6, <2>8, <2>9, <2>1 DEF Line!Hold, Editing
<1>5. ASSUME NEW i \in DOMAIN disk.items, Withdraws(disk, disk', i) PROVE Line!Withdraw(i)
  <2>1. PICK r \in Ids : r = disk.items[i]
    BY <1>0
  <2>2. r \in ToSet(disk.items) /\ r \notin Editing(disk)
    BY <1>0, <2>1 DEF ToSet, Coherent
  <2>3. PICK receipt \in {"accepted", "failed", "cancelled"} :
          disk'.receipts = [disk.receipts EXCEPT ![r] = receipt]
    BY <1>5, <2>1 DEF Withdraws
  <2>4. disk'.items = RemoveAt(disk.items, i) /\ disk'.edits = disk.edits
    BY <1>5 DEF Withdraws
  <2>5. Editing(disk') = Editing(disk) /\ Pending(disk') = Pending(disk) \ {r}
    BY <1>0, <1>5, <2>1, WithdrawsEffect
  <2>8. \A s \in Ids \ {r} : StatusOf(s)' = StatusOf(s)
    <3>1. \A s \in Ids \ {r} : disk'.receipts[s] = disk.receipts[s]
      BY <1>0, <2>3 DEF Document
    <3> QED BY <2>5, <3>1, StatusStays
  <2>9. r \in Pending(disk) /\ r \notin Pending(disk)'
    BY <2>2, <2>5 DEF Pending, Editing
  <2> DEFINE next == IF StatusOf(r) = "queued" THEN "dropped" ELSE StatusOf(r)
  <2>12. StatusOf(r)' = next
    <3>1. disk'.receipts[r] \in {"accepted", "failed", "cancelled"}
      BY <1>0, <2>1, <2>3 DEF Document
    <3>2. CASE Executed(r)
      <4>1. StatusOf(r) = "executed" /\ StatusOf(r)' = "executed"
        BY <2>1, <3>2 DEF StatusOf
      <4> QED BY <4>1
    <3>3. CASE ~Executed(r)
      <4>1. StatusOf(r) = "queued" /\ StatusOf(r)' = "dropped"
        BY <2>1, <2>9, <3>1, <3>3 DEF StatusOf
      <4> QED BY <4>1
    <3> QED BY <3>2, <3>3
  <2>13. stat[r] = StatusOf(r)
    BY <2>1
  <2> HIDE DEF next
  <2>14. stat' = [stat EXCEPT ![r] = next]
    BY <2>1, <2>8, <2>12
  <2>10. stat' = [stat EXCEPT ![r] = IF @ = "queued" THEN "dropped" ELSE @]
    BY <2>13, <2>14 DEF next
  <2>11. disk'.items = Line!RemoveAt(disk.items, i)
    BY <2>4 DEF Line!RemoveAt, RemoveAt
  <2> QED BY <2>1, <2>5, <2>10, <2>11 DEF Line!Withdraw, Editing
<1>6. ASSUME NEW i \in DOMAIN disk.items, Reorders(disk, disk', i) PROVE Line!Reorder
  <2>1. /\ \/ \E j \in DOMAIN disk.items \cap {i - 1, i + 1} :
                 disk'.items = Moved(disk.items, i, j)
           \/ disk'.items = <<disk.items[i]>> \o RemoveAt(disk.items, i)
        /\ disk'.edits = disk.edits /\ disk'.receipts = disk.receipts
    BY <1>6 DEF Reorders
  <2>2. Editing(disk') = Editing(disk) /\ Pending(disk') = Pending(disk)
    BY <1>0, <1>6, ReordersEffect
  <2>3. \A s \in Ids : StatusOf(s)' = StatusOf(s)
    BY <2>1, <2>2, StatusStays
  <2>4. stat' = stat
    BY <2>3
  <2>5. CASE disk'.items = <<disk.items[i]>> \o RemoveAt(disk.items, i)
    <3>1. disk'.items = <<disk.items[i]>> \o Line!RemoveAt(disk.items, i)
      BY <2>5 DEF Line!RemoveAt, RemoveAt
    <3> QED BY <2>2, <2>4, <3>1 DEF Line!Reorder, Editing
  <2>6. ASSUME NEW j \in DOMAIN disk.items \cap {i - 1, i + 1},
               disk'.items = Moved(disk.items, i, j)
        PROVE  Line!Reorder
    <3>1. \E k \in 1..Len(disk.items) - 1 :
            disk'.items = [disk.items EXCEPT ![k] = disk.items[k + 1], ![k + 1] = disk.items[k]]
      <4>1. CASE j = i + 1
        <5>1. i \in 1..Len(disk.items) - 1
          BY <1>0, <4>1
        <5>2. disk'.items = [disk.items EXCEPT ![i] = disk.items[i + 1], ![i + 1] = disk.items[i]]
          BY <2>6, <4>1 DEF Moved
        <5> QED BY <5>1, <5>2
      <4>2. CASE j = i - 1
        <5>1. j \in 1..Len(disk.items) - 1 /\ i = j + 1
          BY <1>0, <4>2
        <5>2. disk'.items = [disk.items EXCEPT ![j] = disk.items[j + 1], ![j + 1] = disk.items[j]]
          BY <1>0, <2>6, <5>1 DEF Moved
        <5> QED BY <5>1, <5>2
      <4> QED BY <2>6, <4>1, <4>2
    <3> QED BY <2>2, <2>4, <3>1 DEF Line!Reorder, Editing
  <2> QED BY <2>1, <2>5, <2>6
<1> QED BY <1>1, <1>2, <1>3, <1>4, <1>5, <1>6 DEF LineMoves, Line!LineNext

LEMMA LineRests ==
  ASSUME disk' = disk, \A s \in Ids : Executed(s)' <=> Executed(s)
  PROVE  UNCHANGED Line!lineVars
<1> DEFINE stat == [r \in Ids |-> StatusOf(r)]
<1>1. Editing(disk)' = Editing(disk) /\ Pending(disk') = Pending(disk)
  BY DEF Editing, Pending
<1>2. \A s \in Ids : StatusOf(s)' = StatusOf(s)
  BY <1>1, StatusStays
<1>3. stat' = stat
  BY <1>2
<1> QED BY <1>1, <1>3 DEF Line!lineVars

(* An acceptance executes the request it is for, which is new or the queued head. *)
LEMMA StartImplements ==
  ASSUME TypeOK, RunsBound, RunsRemembered, Coherent(disk), live, disk' = disk,
         NEW r \in Ids, NEW b, StartRun(r, b), runs[r].kind = "none",
         \/ Pending(disk) = {} /\ disk.receipts[r] = "none"
         \/ disk.items # <<>> /\ Head(disk.items) = r
  PROVE  [Line!LineNext]_(Line!lineVars)
<1> DEFINE stat == [s \in Ids |-> StatusOf(s)]
<1>1. CASE \A s : Executed(s)' <=> Executed(s)
  BY <1>1, LineRests
<1>2. CASE \A s : Executed(s)' <=> (Executed(s) \/ s = r)
  <2>1. ~Executed(r)
    BY UnrecordedIsNew
  <2>2. Editing(disk)' = Editing(disk) /\ Pending(disk') = Pending(disk)
    BY DEF Editing, Pending
  <2>3. \A s \in Ids \ {r} : StatusOf(s)' = StatusOf(s)
    BY <1>2, <2>2, StatusStays
  <2>4. StatusOf(r)' = "executed"
    <3>1. Executed(r)'
      BY <1>2
    <3> QED BY <3>1 DEF StatusOf
  <2>5. stat' = [stat EXCEPT ![r] = "executed"] /\ stat[r] = StatusOf(r)
    BY <2>3, <2>4
  <2>6. CASE Pending(disk) = {} /\ disk.receipts[r] = "none"
    <3>1. StatusOf(r) = "new"
      BY <2>1, <2>6 DEF StatusOf
    <3>2. Editing(disk) = {} /\ disk.items = <<>>
      <4>1. Editing(disk) = {} /\ ToSet(disk.items) = {} /\ disk.items \in Seq(Ids)
        BY <2>6 DEF Pending, TypeOK, Document
      <4>2. DOMAIN disk.items = {}
        BY <4>1 DEF ToSet
      <4> QED BY <4>1, <4>2
    <3>3. Line!ExecuteDirect(r)
      BY <2>2, <2>5, <3>1, <3>2 DEF Line!ExecuteDirect
    <3> QED BY <3>3 DEF Line!LineNext
  <2>7. CASE disk.items # <<>> /\ Head(disk.items) = r
    <3>1. disk.items \in Seq(Ids) /\ r \in ToSet(disk.items)
      BY <2>7 DEF TypeOK, Document, ToSet
    <3>2. r \in Pending(disk)
      BY <3>1 DEF Pending
    <3>3. StatusOf(r) = "queued"
      BY <2>1, <3>2 DEF StatusOf
    <3>4. Line!ExecuteHead
      BY <2>2, <2>5, <2>7, <3>3 DEF Line!ExecuteHead
    <3> QED BY <3>4 DEF Line!LineNext
  <2> QED BY <2>6, <2>7
<1> QED BY <1>1, <1>2, StartExecutes

LEMMA NextImplements ==
  ASSUME IInv, LineInv, [Next]_vars
  PROVE  [Line!LineNext]_(Line!lineVars)
<1>0. /\ TypeOK /\ RunsBound /\ RunsRemembered /\ WorkerInv
      /\ QueueInv /\ Coherent(disk) /\ MemoryMatchesDisk
  BY LineInvParts DEF IInv, QueueInv, WorkerInv
<1>1. ASSUME NEW r \in PromptIds, NEW b \in Bodies, Prompt(r, b)
      PROVE  [Line!LineNext]_(Line!lineVars)
  <2>1. /\ StartRun(r, b) /\ live /\ disk' = disk /\ runs[r].kind = "none"
        /\ Pending(queue) = {} /\ queue.receipts[r] = "none" /\ r \in Ids
    BY <1>1 DEF Prompt, PromptAllowed, Ids
  <2>2. SameLine(queue, disk)
    BY <1>0, <2>1, MemoryLine
  <2>3. Pending(disk) = {} /\ disk.receipts[r] = "none"
    BY <2>1, <2>2 DEF SameLine, Pending, Editing
  <2> QED BY <1>0, <2>1, <2>3, StartImplements
<1>2. CASE worker.pc = "dispatch" /\ DispatchStarts
  <2>1. /\ StartRun(worker.req, worker.body) /\ disk' = disk
        /\ runs[worker.req].kind = "none"
    BY <1>2 DEF DispatchStarts
  <2>2. live /\ worker.req \in Ids /\ queue.items # <<>> /\ Head(queue.items) = worker.req
    BY <1>0, <1>2 DEF WorkerInv, WorkerBound, DispatchPinned, HeadIsDispatched
  <2>3. SameLine(queue, disk)
    BY <1>0, <2>2, MemoryLine
  <2>4. disk.items # <<>> /\ Head(disk.items) = worker.req
    BY <2>2, <2>3 DEF SameLine
  <2> QED BY <1>0, <2>1, <2>2, <2>4, StartImplements
<1>3. CASE /\ ~\E r \in PromptIds, b \in Bodies : Prompt(r, b)
           /\ ~(worker.pc = "dispatch" /\ DispatchStarts)
  <2>1. \A n \in RunIds : KeepsPrompt(n)
    <3> SUFFICES ASSUME NEW n \in RunIds PROVE KeepsPrompt(n)
      OBVIOUS
    <3> QED BY <1>0, <1>3, OthersKeepPrompts DEF Next, OtherHandler
  <2>2. \A s : Executed(s)' <=> Executed(s)
    BY <2>1, SamePromptsExecuted
  <2>3. CASE disk' = disk
    BY <2>2, <2>3, LineRests
  <2>4. CASE live /\ disk' \in Document /\ LineMoves(disk, disk')
    BY <1>0, <2>2, <2>4, MovesImplement
  <2>5. QueueStep
    BY <1>0, NextSaves
  <2> QED BY <2>3, <2>4, <2>5 DEF QueueStep, Saves
<1> QED BY <1>1, <1>2, <1>3

LEMMA InitImplements == Init => Line!LineInit
<1> SUFFICES ASSUME Init PROVE Line!LineInit
  OBVIOUS
<1>1. disk.items = <<>> /\ Editing(disk) = {} /\ \A r \in Ids : disk.receipts[r] = "none"
  BY DEF Init, NoDocument, Editing
<1>2. \A r \in Ids : ~Executed(r) /\ r \notin Pending(disk)
  <2>1. \A n \in RunIds : go[n].kind = "none"
    BY DEF Init, NoGoroutine
  <2>2. ToSet(disk.items) = {}
    BY <1>1 DEF ToSet
  <2> QED BY <1>1, <2>1, <2>2 DEF Executed, Pending
<1>3. \A r \in Ids : StatusOf(r) = "new"
  BY <1>1, <1>2 DEF StatusOf
<1> QED BY <1>1, <1>3 DEF Line!LineInit


-----------------------------------------------------------------------------
(* Theorems. *)

(* The new process starts in the invariant: nothing is loaded and nothing runs. *)
LEMMA InitInv == Init => IInv
<1> SUFFICES ASSUME Init PROVE IInv
  OBVIOUS
<1>1. TypeOK
  BY InitType
<1>2. /\ worker.pc = "off" /\ ~active /\ nextRun = 1
      /\ \A n \in RunIds : go[n].phase = "none" /\ go[n].kind = "none"
  BY DEF Init, NoWorker, NoGoroutine
<1>3. WorkerBound /\ DispatchPinned
  BY <1>2 DEF WorkerBound, DispatchPinned
<1>4. RunsBound /\ RunningIsCurrent
  BY <1>2 DEF RunsBound, RunningIsCurrent, Running, Unfinished
<1>5. RunsRemembered /\ DurableBeforeExecution /\ AtMostOnce
  BY <1>2 DEF RunsRemembered, DurableBeforeExecution, AtMostOnce
<1> QED BY <1>1, <1>3, <1>4, <1>5 DEF IInv

(* Every step of a handler, the worker, a run, a crash or a load keeps it. *)
LEMMA NextInv == IInv /\ [Next]_vars => IInv'
<1> SUFFICES ASSUME IInv, [Next]_vars PROVE IInv'
  OBVIOUS
<1>1. TypeOK /\ WorkBound /\ WorkerInv /\ RunInv
  BY DEF IInv, WorkBound, WorkerInv, RunInv
<1>2. TypeOK'
  BY <1>1, NextType
<1>3. WorkerInv'
  BY <1>1, NextKeepsWorkerInv DEF RunInv
<1>4. RunInv'
  BY <1>1, NextKeepsRunInv DEF WorkerInv
<1> QED BY <1>2, <1>3, <1>4 DEF IInv, WorkerInv, RunInv

(* The inductive invariant holds in every reachable state: types, leases of the   *)
(* session, the pinned dispatch, and the durable record of every started prompt.    *)
THEOREM InvariantHolds == Spec => []IInv
<1>1. Init => IInv
  BY InitInv
<1>2. IInv /\ [Next]_vars => IInv'
  BY NextInv
<1> QED BY <1>1, <1>2, PTL DEF Spec

(* Every variable of the session always holds a value of its kind. *)
THEOREM TypeCorrect == Spec => []TypeOK
<1>1. IInv => TypeOK
  BY DEF IInv
<1> QED BY <1>1, InvariantHolds, PTL

(* No client_request_id is executed twice, over retries, duplicate submissions,   *)
(* failed writes, evictions and any number of crashes.                               *)
THEOREM ExecutesAtMostOnce == Spec => []AtMostOnce
<1>1. IInv => AtMostOnce
  BY DEF IInv
<1> QED BY <1>1, InvariantHolds, PTL

(* A prompt executes only after its acceptance is journaled and runs.json names    *)
(* it; a torn runs.json makes the session unloadable instead of forgetful.            *)
THEOREM ExecutesOnlyDurable == Spec => []DurableBeforeExecution
<1>1. IInv => DurableBeforeExecution
  BY DEF IInv
<1> QED BY <1>1, InvariantHolds, PTL

(* No prompt executes twice or before its acceptance is durable. *)
THEOREM ExecutesOnce == Spec => []AcceptedOnce
<1>1. IInv => AcceptedOnce
  BY DEF IInv, AcceptedOnce
<1> QED BY <1>1, InvariantHolds, PTL

(* While the worker has released rt.mu, the entry it copied stays the head of the  *)
(* queue with its committed payload.                                                  *)
THEOREM DispatchStaysPinned == Spec => []DispatchPinned
<1>1. IInv => DispatchPinned
  BY DEF IInv
<1> QED BY <1>1, InvariantHolds, PTL

(* At most one run or compaction of a session executes at any time. *)
THEOREM RunsAreSerial == Spec => []OneRunAtATime
<1>1. IInv => OneRunAtATime
  BY DEF IInv, RunningIsCurrent, OneRunAtATime
<1> QED BY <1>1, InvariantHolds, PTL

(* Only an immediate run and a dispatch start a prompt, each at most one. *)
LEMMA StartsOnlyNext ==
  ASSUME TypeOK, NEW r \in Ids, NEW b, StartRun(r, b), NEW n \in RunIds, Starts(n)
  PROVE  go'[n].req = r
<1>1. nextRun \in RunIds
  BY DEF StartRun
<1>2. go' = go \/ go' = [go EXCEPT ![nextRun] =
              [NoGoroutine EXCEPT !.phase = "turn", !.kind = "prompt", !.req = r, !.body = b]]
  BY DEF StartRun, Accept, AbortAcceptance, Execute
<1>3. go[n].kind # go'[n].kind
  BY DEF Starts
<1> QED BY <1>1, <1>2, <1>3 DEF NoGoroutine, TypeOK

(* Nothing overtakes the queue: a prompt that starts while requests are queued or *)
(* being edited is the head of the line.                                              *)
THEOREM LineIsRespected == Spec => NothingOvertakes
<1> DEFINE InOrder == \A n \in RunIds : Starts(n) /\ Pending(queue) # {} =>
                         queue.items # <<>> /\ go'[n].req = Head(queue.items)
<1>1. IInv /\ [Next]_vars => [InOrder]_vars
  <2> SUFFICES ASSUME IInv, [Next]_vars, NEW n \in RunIds, Starts(n), Pending(queue) # {}
               PROVE  queue.items # <<>> /\ go'[n].req = Head(queue.items)
    OBVIOUS
  <2>1. TypeOK /\ WorkerBound /\ DispatchPinned /\ RunsBound
    BY DEF IInv
  <2>2. ~\E r \in PromptIds, b \in Bodies : Prompt(r, b)
    BY DEF Prompt, PromptAllowed
  <2>6. ~KeepsPrompt(n)
    BY DEF Starts, KeepsPrompt
  <2>3. worker.pc = "dispatch" /\ DispatchStarts
    BY <2>1, <2>2, <2>6, OthersKeepPrompts DEF Next, OtherHandler
  <2>4. worker.req \in Ids /\ HeadIsDispatched
    BY <2>1, <2>3 DEF WorkerBound, DispatchPinned
  <2>5. go'[n].req = worker.req
    BY <2>1, <2>3, <2>4, StartsOnlyNext DEF DispatchStarts
  <2> QED BY <2>4, <2>5 DEF HeadIsDispatched
<1> QED BY <1>1, InvariantHolds, PTL DEF Spec, NothingOvertakes

(* The dispatched entry stays the head as it was last committed, and nothing else is *)
(* started while requests wait.                                                        *)
THEOREM HeadGoesFirstAlways == Spec => HeadGoesFirst
BY DispatchStaysPinned, LineIsRespected, PTL DEF HeadGoesFirst

(* The line is kept together in every reachable state: receipts, memory and what     *)
(* clients have seen of it.                                                             *)
THEOREM LineInvHolds == Spec => []LineInv
<1>1. Init => LineInv
  BY InitLineInv
<1>2. IInv /\ LineInv /\ [Next]_vars => LineInv'
  <2> SUFFICES ASSUME IInv, LineInv, [Next]_vars PROVE LineInv'
    OBVIOUS
  <2>1. TypeOK /\ WorkerInv /\ QueueInv
    BY LineInvParts DEF IInv, WorkerInv
  <2>2. SeenSound /\ SeenSound' /\ QueueInv'
    BY <2>1, NextKeepsQueueInv, NextKeepsSeenSound DEF LineInv
  <2> QED BY <2>2 DEF LineInv, QueueInv, Coherent, ReceiptsMatchQueue
<1> QED BY <1>1, <1>2, InvariantHolds, PTL DEF Spec

(* A request is in the line or being edited exactly when its receipt says queued, and  *)
(* in one place only, over every edit, dispatch, failed save, eviction and crash.        *)
THEOREM ReceiptsAlwaysMatch == Spec => []ReceiptsMatchQueue
<1>1. LineInv => ReceiptsMatchQueue
  BY DEF LineInv
<1> QED BY <1>1, LineInvHolds, PTL

(* The queue a session works on is the saved one, but for the pause of a load. *)
THEOREM MemoryIsSaved == Spec => []MemoryMatchesDisk
<1>1. LineInv => MemoryMatchesDisk
  BY DEF LineInv
<1> QED BY <1>1, LineInvHolds, PTL

(* A queue revision names one list of items, also after a reload or a crash: an action *)
(* at the revision a client saw acts on the list it saw.                                 *)
THEOREM RevisionsNameLines == Spec => []RevisionNamesItems
<1>1. IInv /\ LineInv => RevisionNamesItems
  <2> SUFFICES ASSUME IInv, LineInv, live, seen.revision = queue.revision
               PROVE  seen.items = queue.items
    BY DEF RevisionNamesItems
  <2>1. TypeOK /\ MemoryMatchesDisk /\ SeenSound
    BY DEF IInv, LineInv
  <2>2. queue.items = disk.items /\ queue.revision = disk.revision
    BY <2>1, MemoryLine DEF SameLine
  <2> QED BY <2>1, <2>2 DEF SeenSound
<1> QED BY <1>1, LineInvHolds, InvariantHolds, PTL

(* A session implements PromptLine: every step of its handlers, worker, runs, loads and *)
(* crashes is a step of the line or leaves it alone, so each request executes at most     *)
(* once, and only from the head of the line or while nobody waits.                         *)
THEOREM SessionImplementsLine == Spec => ImplementsLine
<1>1. Init => Line!LineInit
  BY InitImplements
<1>2. IInv /\ LineInv /\ [Next]_vars => [Line!LineNext]_(Line!lineVars)
  BY NextImplements
<1> QED BY <1>1, <1>2, InvariantHolds, LineInvHolds, PTL DEF Spec, ImplementsLine, Line!LineSpec

-----------------------------------------------------------------------------
(* The records a load makes of the files. *)

(* The least and the greatest index of a set of events. *)
Least(S) == CHOOSE i \in S : \A j \in S : i <= j
Greatest(S) == CHOOSE i \in S : \A j \in S : i >= j

(* Both are in the set: what CHOOSE finds in the journal is there. *)
LEMMA LeastIsIn ==
  ASSUME NEW S \in SUBSET Nat, S # {}
  PROVE  Least(S) \in S
BY LeastExists DEF Least

LEMMA GreatestIsIn ==
  ASSUME NEW s, NEW T, s \in Seq(T), NEW S \in SUBSET DOMAIN s, S # {}
  PROVE  Greatest(S) \in S
<1>1. S \in SUBSET (0..Len(s)) /\ Len(s) \in Nat
  BY LenProperties
<1>2. \E i \in S : \A j \in S : i >= j
  BY <1>1, GreatestExists
<1> QED BY <1>2 DEF Greatest

(* FirstAcceptance and Settled with these names, now and in the next state. *)
LEMMA JournalReads ==
  /\ \A r : FirstAcceptance(r) = journal[Least(Acceptances(r))].run
  /\ \A r : FirstAcceptance(r)' = journal'[Least(Acceptances(r)')].run
  /\ \A rec : Settled(rec) =
       IF rec.kind # "none" /\ Terminals(rec.run) # {}
       THEN [rec EXCEPT !.terminal = TRUE,
                        !.state = journal[Greatest(Terminals(rec.run))].state]
       ELSE rec
  /\ \A rec : Settled(rec)' =
       IF rec.kind # "none" /\ Terminals(rec.run)' # {}
       THEN [rec EXCEPT !.terminal = TRUE,
                        !.state = journal'[Greatest(Terminals(rec.run)')].state]
       ELSE rec
BY DEF FirstAcceptance, Settled, Least, Greatest

(* The kinds of events an append adds, and what it leaves. *)
LEMMA EventAppended ==
  ASSUME journal \in Seq(Event), NEW e \in Event, journal' = Append(journal, e)
  PROVE  /\ DOMAIN journal' = DOMAIN journal \cup {Len(journal) + 1}
         /\ Len(journal) + 1 \notin DOMAIN journal
         /\ journal'[Len(journal) + 1] = e
         /\ \A i \in DOMAIN journal : journal'[i] = journal[i]
OBVIOUS

(* An acceptance is added to those of its request; ends stay as they are. *)
LEMMA AcceptanceAppended ==
  ASSUME journal \in Seq(Event), NEW n \in RunIds, NEW s \in Ids,
         journal' = Append(journal, AcceptedEvent(n, s))
  PROVE  /\ \A r : r # s => Acceptances(r)' = Acceptances(r)
         /\ Acceptances(s)' = Acceptances(s) \cup {Len(journal) + 1}
         /\ \A m : Terminals(m)' = Terminals(m)
         /\ AcceptedIn(n, s)'
         /\ \A m, r : AcceptedIn(m, r) => AcceptedIn(m, r)'
<1> DEFINE e == AcceptedEvent(n, s)
<1>1. e \in Event /\ e.type = "accepted" /\ e.run = n /\ e.req = s
  BY DEF AcceptedEvent, Event, RunState
<1> HIDE DEF e
<1>2. /\ DOMAIN journal' = DOMAIN journal \cup {Len(journal) + 1}
      /\ Len(journal) + 1 \notin DOMAIN journal
      /\ journal'[Len(journal) + 1] = e
      /\ \A i \in DOMAIN journal : journal'[i] = journal[i]
  BY <1>1, EventAppended DEF e
<1>3. \A r : r # s => Acceptances(r)' = Acceptances(r)
  BY <1>1, <1>2 DEF Acceptances
<1>4. Acceptances(s)' = Acceptances(s) \cup {Len(journal) + 1}
  BY <1>1, <1>2 DEF Acceptances
<1>5. \A m : Terminals(m)' = Terminals(m)
  BY <1>1, <1>2 DEF Terminals
<1>8. \A r : Acceptances(r) \subseteq DOMAIN journal
  BY DEF Acceptances
<1>6. AcceptedIn(n, s)'
  BY <1>1, <1>2, <1>4 DEF AcceptedIn
<1>7. \A m, r : AcceptedIn(m, r) => AcceptedIn(m, r)'
  BY <1>2, <1>3, <1>4, <1>8 DEF AcceptedIn
<1> QED BY <1>3, <1>4, <1>5, <1>6, <1>7

(* An end is added to those of its run; acceptances stay as they are. *)
LEMMA TerminalAppended ==
  ASSUME journal \in Seq(Event), NEW n \in RunIds, NEW s \in Ids, NEW state \in RunState,
         journal' = Append(journal, TerminalEvent(n, s, state))
  PROVE  /\ \A r : Acceptances(r)' = Acceptances(r)
         /\ \A m : m # n => Terminals(m)' = Terminals(m)
         /\ \A i \in Terminals(n)' : i \in Terminals(n) \/ journal'[i].state = state
         /\ \A m, r : AcceptedIn(m, r) <=> AcceptedIn(m, r)'
         /\ \A i \in DOMAIN journal' :
              journal'[i].type = "accepted" => i \in DOMAIN journal
<1> DEFINE e == TerminalEvent(n, s, state)
<1>1. e \in Event /\ e.type = "terminal" /\ e.run = n /\ e.state = state
  BY DEF TerminalEvent, Event
<1> HIDE DEF e
<1>2. /\ DOMAIN journal' = DOMAIN journal \cup {Len(journal) + 1}
      /\ Len(journal) + 1 \notin DOMAIN journal
      /\ journal'[Len(journal) + 1] = e
      /\ \A i \in DOMAIN journal : journal'[i] = journal[i]
  BY <1>1, EventAppended DEF e
<1>3. \A r : Acceptances(r)' = Acceptances(r)
  BY <1>1, <1>2 DEF Acceptances
<1>4. \A m : m # n => Terminals(m)' = Terminals(m)
  BY <1>1, <1>2 DEF Terminals
<1>5. \A i \in Terminals(n)' : i \in Terminals(n) \/ journal'[i].state = state
  BY <1>1, <1>2 DEF Terminals
<1>6. \A r : Acceptances(r) \subseteq DOMAIN journal
  BY DEF Acceptances
<1>7. \A m, r : AcceptedIn(m, r) <=> AcceptedIn(m, r)'
  BY <1>2, <1>3, <1>6 DEF AcceptedIn
<1>8. \A i \in DOMAIN journal' : journal'[i].type = "accepted" => i \in DOMAIN journal
  BY <1>1, <1>2
<1> QED BY <1>3, <1>4, <1>5, <1>7, <1>8

(* What reading the journal makes of a record. *)
LEMMA SettledIs ==
  ASSUME journal \in Seq(Event), NEW rec \in RunRecord
  PROVE  /\ Settled(rec) \in RunRecord
         /\ Settled(rec).kind = rec.kind /\ Settled(rec).run = rec.run
         /\ Terminals(rec.run) = {} => Settled(rec) = rec
         /\ rec.kind # "none" /\ Terminals(rec.run) # {} =>
              /\ Settled(rec).terminal
              /\ Settled(rec).state = journal[Greatest(Terminals(rec.run))].state
              /\ Greatest(Terminals(rec.run)) \in Terminals(rec.run)
<1> DEFINE T == Terminals(rec.run)
<1>1. T \in SUBSET DOMAIN journal
  BY DEF Terminals
<1>2. \A i \in DOMAIN journal : journal[i].state \in RunState
  <2>1. \A i \in DOMAIN journal : journal[i] \in Event
    BY ElementOfSeq
  <2> QED BY <2>1 DEF Event
<1>3. CASE rec.kind # "none" /\ T # {}
  <2>1. Greatest(T) \in T
    BY <1>1, <1>3, GreatestIsIn
  <2> DEFINE state == journal[Greatest(T)].state
  <2>2. state \in RunState
    BY <1>1, <1>2, <2>1
  <2>3. Settled(rec) = [rec EXCEPT !.terminal = TRUE, !.state = state]
    BY <1>3, JournalReads
  <2> HIDE DEF state
  <2>4. /\ Settled(rec) \in RunRecord
        /\ Settled(rec).kind = rec.kind /\ Settled(rec).run = rec.run
        /\ Settled(rec).terminal /\ Settled(rec).state = state
    BY <2>2, <2>3 DEF RunRecord
  <2> QED BY <1>3, <2>1, <2>4 DEF state
<1>4. CASE ~(rec.kind # "none" /\ T # {})
  <2>1. Settled(rec) = rec
    BY <1>4, JournalReads
  <2> QED BY <1>4, <2>1
<1> QED BY <1>3, <1>4

(* The first acceptance of a request is one of its acceptances. *)
LEMMA FirstIsAccepted ==
  ASSUME journal \in Seq(Event), NEW r \in Ids, Acceptances(r) # {}
  PROVE  FirstAcceptance(r) \in RunIds /\ AcceptedIn(FirstAcceptance(r), r)
<1>1. Acceptances(r) \in SUBSET Nat /\ Acceptances(r) \subseteq DOMAIN journal
  BY DEF Acceptances
<1>2. PICK i \in Acceptances(r) : i = Least(Acceptances(r))
  BY <1>1, LeastIsIn
<1>3. i \in DOMAIN journal /\ journal[i] \in Event
  BY <1>1, <1>2, ElementOfSeq
<1>4. FirstAcceptance(r) = journal[i].run
  BY <1>2, JournalReads
<1> QED BY <1>2, <1>3, <1>4 DEF Event, AcceptedIn

(* A load takes the saved record of a request, or attaches a journaled *)
(* acceptance.                                                         *)
LEMMA AttachedIs ==
  ASSUME TypeOK, NEW r \in Ids
  PROVE  /\ Attached(r) \in RunRecord
         /\ \/ Attached(r) = runsFile.runs[r]
            \/ /\ runsFile.runs[r].kind = "none" /\ Attached(r).kind = "prompt"
               /\ AcceptedIn(Attached(r).run, r)
         /\ runsFile.runs[r].kind # "none" => Attached(r) = runsFile.runs[r]
         /\ disk.receipts[r] # "none" /\ Acceptances(r) # {} => Attached(r).kind # "none"
<1>0. runsFile.runs[r] \in RunRecord /\ journal \in Seq(Event)
  BY DEF TypeOK
<1>1. CASE runsFile.runs[r].kind = "none" /\ disk.receipts[r] # "none" /\ Acceptances(r) # {}
  <2> DEFINE m == FirstAcceptance(r)
  <2>1. m \in RunIds /\ AcceptedIn(m, r)
    BY <1>0, <1>1, FirstIsAccepted
  <2>2. m \in 0..MaxRuns
    BY <2>1, MaxRunsIsNat DEF RunIds
  <2>3. Attached(r) = [NoRecord EXCEPT !.kind = "prompt", !.run = m]
    BY <1>1 DEF Attached
  <2> HIDE DEF m
  <2>4. Attached(r) \in RunRecord /\ Attached(r).kind = "prompt" /\ Attached(r).run = m
    BY <2>2, <2>3 DEF NoRecord, RunRecord, RunState
  <2> QED BY <1>1, <2>1, <2>4
<1>2. CASE ~(runsFile.runs[r].kind = "none" /\ disk.receipts[r] # "none" /\ Acceptances(r) # {})
  <2>1. Attached(r) = runsFile.runs[r]
    BY <1>2 DEF Attached
  <2> QED BY <1>0, <1>2, <2>1
<1> QED BY <1>1, <1>2

(* The record a load would make of what is saved. *)
LEMMA DiskRecordIs ==
  ASSUME TypeOK, RecordsSound, AcceptancesSound, NEW r \in Ids
  PROVE  /\ DiskRecord(r) \in RunRecord
         /\ Justified(DiskRecord(r), r)
         /\ runsFile.runs[r].kind # "none" => DiskRecord(r).kind = runsFile.runs[r].kind
         /\ DiskRecord(r).kind = "compact" => runsFile.runs[r].kind = "compact"
         /\ DiskRecord(r).kind = Attached(r).kind /\ DiskRecord(r).run = Attached(r).run
<1>0. Attached(r) \in RunRecord /\ journal \in Seq(Event)
  BY AttachedIs DEF TypeOK
<1>1. /\ DiskRecord(r) \in RunRecord
      /\ DiskRecord(r).kind = Attached(r).kind /\ DiskRecord(r).run = Attached(r).run
  BY <1>0, SettledIs DEF DiskRecord
<1>2. \A m : AcceptedIn(m, r) => m \in RunIds /\ m < nextRun
  <2>1. \A i \in DOMAIN journal : journal[i] \in Event
    BY <1>0, ElementOfSeq
  <2> QED BY <2>1 DEF AcceptedIn, Acceptances, AcceptancesSound, Event
<1>3. Justified(runsFile.runs[r], r)
  BY DEF RecordsSound
<1>4. CASE Attached(r) = runsFile.runs[r]
  BY <1>1, <1>3, <1>4 DEF Justified
<1>5. CASE /\ runsFile.runs[r].kind = "none" /\ Attached(r).kind = "prompt"
           /\ AcceptedIn(Attached(r).run, r)
  BY <1>1, <1>2, <1>5 DEF Justified
<1> QED BY <1>4, <1>5, AttachedIs

(* It stays while the events and the saved record it is made of do. *)
JournalKept == \A i \in DOMAIN journal : i \in DOMAIN journal' /\ journal'[i] = journal[i]

LEMMA AttachedStays ==
  ASSUME TypeOK, NEW r \in Ids, JournalKept, Acceptances(r)' = Acceptances(r),
         runsFile'.runs[r] = runsFile.runs[r],
         disk'.receipts[r] = "none" <=> disk.receipts[r] = "none"
  PROVE  Attached(r)' = Attached(r)
<1>1. CASE Acceptances(r) = {}
  BY <1>1 DEF Attached
<1>2. CASE Acceptances(r) # {}
  <2>1. Acceptances(r) \in SUBSET Nat /\ Acceptances(r) \subseteq DOMAIN journal
    BY DEF Acceptances, TypeOK
  <2>2. Least(Acceptances(r)) \in DOMAIN journal
    BY <1>2, <2>1, LeastIsIn
  <2>3. FirstAcceptance(r)' = FirstAcceptance(r)
    BY <2>2, JournalReads DEF JournalKept
  <2> QED BY <2>3 DEF Attached
<1> QED BY <1>1, <1>2

(* The same for the ends that are read into a record. *)
LEMMA SettledStays ==
  ASSUME TypeOK, JournalKept, NEW rec \in RunRecord,
         Terminals(rec.run)' = Terminals(rec.run)
  PROVE  Settled(rec)' = Settled(rec)
<1>1. CASE rec.kind # "none" /\ Terminals(rec.run) # {}
  <2>1. Greatest(Terminals(rec.run)) \in DOMAIN journal
    BY <1>1, SettledIs DEF TypeOK, Terminals
  <2> QED BY <2>1, JournalReads DEF JournalKept
<1>2. CASE ~(rec.kind # "none" /\ Terminals(rec.run) # {})
  BY <1>2, JournalReads
<1> QED BY <1>1, <1>2

(* And for the record a load would make. *)
LEMMA DiskRecordStays ==
  ASSUME TypeOK, NEW r \in Ids, JournalKept, Acceptances(r)' = Acceptances(r),
         runsFile'.runs[r] = runsFile.runs[r],
         disk'.receipts[r] = "none" <=> disk.receipts[r] = "none",
         NEW m, m = DiskRecord(r).run, Terminals(m)' = Terminals(m)
  PROVE  DiskRecord(r)' = DiskRecord(r)
<1>1. PICK rec \in RunRecord : rec = Attached(r)
  BY AttachedIs
<1>2. Attached(r)' = rec
  BY <1>1, AttachedStays
<1>3. DiskRecord(r) = Settled(rec) /\ DiskRecord(r)' = Settled(rec)'
  BY <1>1, <1>2 DEF DiskRecord
<1>4. m = rec.run
  BY <1>3, SettledIs DEF TypeOK
<1> QED BY <1>3, <1>4, SettledStays

(* How the ends in the journal show in a record that is read with them. *)
SettledReads ==
  journal \in Seq(Event) =>
    \A rec \in RunRecord :
      /\ Settled(rec) \in RunRecord /\ Settled(rec).kind = rec.kind /\ Settled(rec).run = rec.run
      /\ Terminals(rec.run) = {} => Settled(rec) = rec
      /\ rec.kind # "none" /\ Terminals(rec.run) # {} =>
           /\ Settled(rec).terminal
           /\ \E i \in Terminals(rec.run) : Settled(rec).state = journal[i].state

(* It holds in every state, *)
LEMMA SettledReadsNow == SettledReads
<1> SUFFICES ASSUME journal \in Seq(Event), NEW rec \in RunRecord
             PROVE  /\ Settled(rec) \in RunRecord
                    /\ Settled(rec).kind = rec.kind /\ Settled(rec).run = rec.run
                    /\ Terminals(rec.run) = {} => Settled(rec) = rec
                    /\ rec.kind # "none" /\ Terminals(rec.run) # {} =>
                         /\ Settled(rec).terminal
                         /\ \E i \in Terminals(rec.run) : Settled(rec).state = journal[i].state
  BY DEF SettledReads
<1> QED BY SettledIs

(* so in the next one. *)
LEMMA SettledReadsNext == SettledReads'
BY SettledReadsNow, PTL

(* Saving the records of memory makes the record of a request its saved one. *)
LEMMA SavedEnding ==
  ASSUME journal' \in Seq(Event), NEW r \in Ids, NEW rec \in RunRecord,
         runsFile'.runs[r] = rec, rec.kind = "prompt"
  PROVE  /\ DiskRecord(r)' = Settled(rec)'
         /\ DiskRecord(r)'.kind = "prompt" /\ DiskRecord(r)'.run = rec.run
         /\ Terminals(rec.run)' = {} => Ending(DiskRecord(r)') = Ending(rec)
         /\ Terminals(rec.run)' # {} =>
              \E i \in Terminals(rec.run)' : Ending(DiskRecord(r)') = journal'[i].state
<1>1. Attached(r)' = rec
  BY DEF Attached
<1>2. DiskRecord(r)' = Settled(rec)'
  BY <1>1 DEF DiskRecord
<1>3. /\ Settled(rec)' \in RunRecord /\ Settled(rec)'.kind = rec.kind /\ Settled(rec)'.run = rec.run
      /\ Terminals(rec.run)' = {} => Settled(rec)' = rec
      /\ rec.kind # "none" /\ Terminals(rec.run)' # {} =>
           /\ Settled(rec)'.terminal
           /\ \E i \in Terminals(rec.run)' : Settled(rec)'.state = journal'[i].state
  BY SettledReadsNext DEF SettledReads
<1> QED BY <1>2, <1>3 DEF Ending

-----------------------------------------------------------------------------
(* What a step does to a receipt, and to a request it leaves alone. *)

(* What a step of the queue does to a receipt. *)
ReceiptMoves(r) ==
  \/ disk'.receipts[r] = disk.receipts[r]
  \/ disk.receipts[r] = "none" /\ disk'.receipts[r] = "queued" /\ runs[r].kind = "none"
  \/ disk.receipts[r] = "queued" /\ disk'.receipts[r] \in {"accepted", "failed", "cancelled"}

(* A move of the line changes the receipt of the request it moves only. *)
LEMMA LineMovesReceipts ==
  ASSUME disk \in Document, Coherent(disk), LineMoves(disk, disk'), NEW r \in Ids
  PROVE  ReceiptMoves(r)
<1>0. disk.receipts \in [Ids -> Receipt]
  BY DEF Document
<1>1. CASE SameLine(disk', disk)
  BY <1>1 DEF SameLine, ReceiptMoves
<1>2. ASSUME NEW s \in Ids, Joins(disk, disk', s) PROVE ReceiptMoves(r)
  <2>1. /\ disk.receipts[s] = "none" /\ runs[s].kind = "none"
        /\ disk'.receipts = [disk.receipts EXCEPT ![s] = "queued"]
    BY <1>2 DEF Joins
  <2> QED BY <1>0, <2>1 DEF ReceiptMoves
<1>3. ASSUME NEW s \in Ids, Returns(disk, disk', s) PROVE ReceiptMoves(r)
  BY <1>3 DEF Returns, ReceiptMoves
<1>4. ASSUME NEW i \in DOMAIN disk.items,
             Holds(disk, disk', i) \/ Reorders(disk, disk', i)
      PROVE  ReceiptMoves(r)
  BY <1>4 DEF Holds, Reorders, ReceiptMoves
<1>5. ASSUME NEW i \in DOMAIN disk.items, Withdraws(disk, disk', i) PROVE ReceiptMoves(r)
  <2>1. disk.items[i] \in Ids /\ disk.items[i] \in ToSet(disk.items)
    BY DEF Document, ToSet
  <2>2. disk.receipts[disk.items[i]] = "queued"
    BY <2>1 DEF Coherent, Pending
  <2>3. PICK receipt \in {"accepted", "failed", "cancelled"} :
           disk'.receipts = [disk.receipts EXCEPT ![disk.items[i]] = receipt]
    BY <1>5 DEF Withdraws
  <2> QED BY <1>0, <2>1, <2>2, <2>3 DEF ReceiptMoves
<1> QED BY <1>1, <1>2, <1>3, <1>4, <1>5 DEF LineMoves

(* So does every step of the session; the first one saves revision 1. *)
LEMMA StepMovesReceipts ==
  ASSUME TypeOK, QueueInv, QueueStep
  PROVE  /\ \A r \in Ids : ReceiptMoves(r)
         /\ disk'.revision = 0 => disk' = disk
         /\ ~live => disk' = disk
<1>0. disk \in Document /\ Coherent(disk) /\ disk.revision \in Nat
  BY DEF TypeOK, Document, QueueInv
<1>1. CASE disk' = disk
  BY <1>1 DEF ReceiptMoves
<1>2. CASE live /\ LineMoves(disk, disk') /\ disk'.revision = disk.revision + 1
  BY <1>0, <1>2, LineMovesReceipts
<1> QED BY <1>1, <1>2 DEF QueueStep, Saves

(* A loaded session is healthy only if it was. *)
LEMMA QuarantineStays ==
  ASSUME [Next]_vars, live, live', ~quarantined'
  PROVE  ~quarantined
<1>0. ASSUME NEW next, NEW interrupt, QueueOpen PROVE ~quarantined
  BY <1>0 DEF QueueOpen
<1>1. CASE QueueHandler
  BY <1>1 DEF QueueHandler, Submit, Action, PauseQueue, ResumeQueue, EditBegin, RemoveItem,
    RunNow, Move, EditEnd, ReadReceipt, ReadSnapshot, QueueOpen
<1>2. CASE OtherHandler
  BY <1>2 DEF OtherHandler, Prompt, Compact, Cancel, rtVars
<1>3. CASE WorkerStep
  BY <1>3 DEF WorkerStep, WorkerLoop, WorkerDispatch, WorkerSettle, WorkerExit, DispatchStarts,
    rtVars
<1>4. ASSUME NEW n \in RunIds, RunStep(n) PROVE ~quarantined
  BY <1>4 DEF RunStep, TurnEnds, RecordState, Release, RunTail, CompactFinish, PersistEnd, rtVars
<1>5. CASE Environment
  BY <1>5 DEF Environment, Load, Evict, ShutDown, CloseSession, Crash, CrashInAcceptance,
    CrashInRelease, Restart, Unload, rtVars
<1> QED BY <1>1, <1>2, <1>3, <1>4, <1>5 DEF Next, vars, rtVars

(* Only reading a receipt changes what a client was told. *)
LEMMA OnlyReadsTell ==
  ASSUME [Next]_vars
  PROVE  told' = told \/ \E r \in Watched : ReadReceipt(r)
<1>1. CASE QueueHandler
  BY <1>1 DEF QueueHandler, Submit, Action, PauseQueue, ResumeQueue, EditBegin, RemoveItem,
    RunNow, Move, EditEnd, ReadSnapshot, clientVars
<1>2. CASE OtherHandler \/ WorkerStep
  BY <1>2 DEF OtherHandler, Prompt, Compact, Cancel, WorkerStep, WorkerLoop, WorkerDispatch,
    WorkerSettle, WorkerExit, clientVars
<1>3. ASSUME NEW n \in RunIds, RunStep(n) PROVE told' = told
  BY <1>3 DEF RunStep, TurnEnds, RecordState, Release, RunTail, CompactFinish, clientVars
<1>4. CASE Environment
  BY <1>4 DEF Environment, Load, Evict, ShutDown, CloseSession, Crash, CrashInAcceptance,
    CrashInRelease, Restart, clientVars
<1> QED BY <1>1, <1>2, <1>3, <1>4 DEF Next, vars, clientVars

(* How a record of the run m is read, with the end of that run in the journal.  Two   *)
(* records of one run are read alike once it has an end.                                 *)
LEMMA ReadAlike ==
  ASSUME journal \in Seq(Event), NEW a \in RunRecord, NEW b \in RunRecord,
         a.kind # "none", b.kind # "none", a.run = b.run,
         Ending(Settled(a)) = Ending(b)
  PROVE  Ending(Settled(b)) = Ending(b)
<1>1. CASE Terminals(b.run) = {}
  BY <1>1, SettledIs
<1>2. CASE Terminals(b.run) # {}
  <2>1. Settled(a).terminal /\ Settled(b).terminal /\ Settled(a).state = Settled(b).state
    BY <1>2, SettledIs
  <2> QED BY <2>1 DEF Ending
<1> QED BY <1>1, <1>2

(* What memory knows of a run that does not execute is what a load would find, also    *)
(* after its record was saved.                                                            *)
LEMMA AgreedRecordStays ==
  ASSUME TypeOK, TypeOK', NEW r \in Ids, runs[r].kind = "prompt",
         runsFile'.runs[r] \in {runsFile.runs[r], runs[r]},
         disk'.receipts[r] = "none" <=> disk.receipts[r] = "none",
         JournalKept, Acceptances(r)' = Acceptances(r),
         NEW m, m = runs[r].run, Terminals(m)' = Terminals(m),
         DiskRecord(r).kind = "prompt", DiskRecord(r).run = m,
         Ending(DiskRecord(r)) = Ending(runs[r])
  PROVE  /\ DiskRecord(r)'.kind = "prompt" /\ DiskRecord(r)'.run = m
         /\ Ending(DiskRecord(r)') = Ending(runs[r])
<1>1. CASE runsFile'.runs[r] = runsFile.runs[r]
  <2>1. DiskRecord(r)' = DiskRecord(r)
    BY <1>1, DiskRecordStays
  <2> QED BY <2>1
<1>2. CASE runsFile'.runs[r] = runs[r]
  <2>1. PICK b \in RunRecord : b = runs[r]
    BY DEF TypeOK
  <2>2. PICK a \in RunRecord : a = Attached(r)
    BY AttachedIs
  <2>3. DiskRecord(r) = Settled(a) /\ journal \in Seq(Event) /\ journal' \in Seq(Event)
    BY <2>2 DEF DiskRecord, TypeOK
  <2>4. a.kind = "prompt" /\ a.run = b.run
    BY <2>1, <2>3, SettledIs
  <2>5. Ending(Settled(b)) = Ending(b)
    BY <2>1, <2>3, <2>4, ReadAlike
  <2>6. DiskRecord(r)' = Settled(b)' /\ DiskRecord(r)'.kind = "prompt" /\ DiskRecord(r)'.run = b.run
    BY <1>2, <2>1, <2>3, SavedEnding
  <2>7. Settled(b)' = Settled(b)
    BY <2>1, SettledStays
  <2> QED BY <2>1, <2>5, <2>6, <2>7
<1> QED BY <1>1, <1>2

(* A step that leaves a request alone: its record stays or is saved, its run neither     *)
(* starts nor ends.                                                                        *)
Undisturbed(r) ==
  /\ runs'[r] = runs[r] /\ runsFile'.runs[r] \in {runsFile.runs[r], runs[r]}
  /\ Acceptances(r)' = Acceptances(r)
  /\ \A m \in RunIds : m = runs[r].run /\ runs[r].kind = "prompt" =>
       /\ Running(m)' <=> Running(m)
       /\ ~Running(m) => Terminals(m)' = Terminals(m)
       /\ ~active \/ current # m => ~active' \/ current' # m

(* A justified prompt record names a journaled acceptance under a used run id. *)
LEMMA PromptsAreAccepted ==
  ASSUME TypeOK, NEW r \in Ids, NEW rec, Justified(rec, r), rec.kind = "prompt"
  PROVE  rec.run \in RunIds /\ Acceptances(r) # {} /\ rec.run < nextRun
<1>1. PICK i \in Acceptances(r) : journal[i].run = rec.run
  BY DEF Justified, AcceptedIn
<1>2. i \in DOMAIN journal /\ journal[i] \in Event
  BY <1>1, ElementOfSeq DEF Acceptances, TypeOK
<1> QED BY <1>1, <1>2 DEF Event, Justified

(* Such a request keeps its agreement with the files *)
LEMMA UndisturbedAgrees ==
  ASSUME TypeOK, TypeOK', NEW r \in Ids, RecordsSound, MemoryAgrees(r), JournalKept,
         live, ~quarantined' => ~quarantined, Undisturbed(r), ReceiptMoves(r)
  PROVE  MemoryAgrees(r)'
<1>1. CASE runs[r].kind = "prompt"
  <2>1. Justified(runs[r], r)
    BY DEF RecordsSound
  <2>2. PICK m \in RunIds : m = runs[r].run
    BY <1>1, <2>1, PromptsAreAccepted
  <2>3. runs'[r] = runs[r]
    BY DEF Undisturbed
  <2> SUFFICES ASSUME ~quarantined', disk'.receipts[r] # "none", ~Running(m)'
               PROVE  /\ DiskRecord(r)'.kind = "prompt" /\ DiskRecord(r)'.run = m
                      /\ Ending(DiskRecord(r)') = Ending(runs[r])
    <3>1. Running(runs[r].run)' <=> Running(m)'
      BY <2>2, <2>3 DEF Running
    <3>2. Ending(DiskRecord(r))' = Ending(DiskRecord(r)') /\ Ending(runs[r])' = Ending(runs[r])
      BY <2>3 DEF Ending
    <3> QED BY <2>2, <2>3, <3>1, <3>2 DEF MemoryAgrees
  <2>4. ~Running(m) /\ Terminals(m)' = Terminals(m)
    BY <1>1, <2>2 DEF Undisturbed
  <2>5. disk.receipts[r] # "none"
    BY <1>1 DEF ReceiptMoves
  <2>6. /\ DiskRecord(r).kind = "prompt" /\ DiskRecord(r).run = m
        /\ Ending(DiskRecord(r)) = Ending(runs[r])
    BY <1>1, <2>2, <2>4, <2>5 DEF MemoryAgrees
  <2>7. /\ runsFile'.runs[r] \in {runsFile.runs[r], runs[r]} /\ Acceptances(r)' = Acceptances(r)
    BY DEF Undisturbed
  <2> QED BY <1>1, <2>2, <2>4, <2>5, <2>6, <2>7, AgreedRecordStays
<1>2. CASE runs[r].kind # "prompt"
  BY <1>2 DEF MemoryAgrees, Undisturbed
<1> QED BY <1>1, <1>2

(* and what was said of it. *)
LEMMA UndisturbedAnswer ==
  ASSUME TypeOK, TypeOK', NEW r \in Ids, RecordsSound, AnswerKept(r), JournalKept,
         live, Undisturbed(r), ReceiptMoves(r), told'[r] = told[r]
  PROVE  AnswerKept(r)'
<1> SUFFICES ASSUME told[r] \in FinalView
             PROVE  AnswerKept(r)'
  BY DEF AnswerKept, FinalView
<1>0. /\ runs'[r] = runs[r] /\ Acceptances(r)' = Acceptances(r)
      /\ runsFile'.runs[r] \in {runsFile.runs[r], runs[r]}
  BY DEF Undisturbed
<1>1. CASE RefusedFor(r)
  <2>1. disk'.receipts[r] = disk.receipts[r]
    BY <1>1 DEF RefusedFor, ReceiptMoves
  <2>2. RefusedFor(r)' /\ (KeptAsReceipt(r) => KeptAsReceipt(r)')
    BY <1>0, <1>1, <2>1 DEF RefusedFor, KeptAsReceipt
  <2>3. Acceptances(r) = {} \/ Acceptances(r) # {}
    OBVIOUS
  <2>4. CASE KeptAsReceipt(r) \/ Acceptances(r) # {}
    BY <1>0, <2>2, <2>4 DEF AnswerKept
  <2>5. CASE Acceptances(r) = {} /\ KeptAsRecord(r)
    <3>1. Justified(runs[r], r) /\ runs[r].kind = "prompt"
      BY <2>5 DEF RecordsSound, KeptAsRecord
    <3> QED BY <2>5, <3>1, PromptsAreAccepted
  <2>6. CASE runsFile.runs[r].kind = "compact"
    <3>1. runs[r].kind = "compact"
      BY <2>6 DEF RecordsSound
    <3> QED BY <1>0, <2>6, <3>1 DEF AnswerKept
  <2> QED BY <2>4, <2>5, <2>6 DEF AnswerKept
<1>2. CASE runsFile.runs[r].kind = "compact"
  <2>1. runs[r].kind = "compact"
    BY <1>2 DEF RecordsSound
  <2> QED BY <1>0, <1>2, <2>1 DEF AnswerKept
<1>3. CASE KeptAsRecord(r)
  <2>1. /\ disk.receipts[r] # "none" /\ DiskRecord(r).kind = "prompt"
        /\ ~Running(DiskRecord(r).run) /\ Ending(DiskRecord(r)) = told[r]
        /\ runs[r].kind = "prompt" /\ runs[r].run = DiskRecord(r).run
        /\ Ending(runs[r]) = told[r]
        /\ runs[r].terminal \/ ~active \/ current # runs[r].run
    BY <1>3 DEF KeptAsRecord
  <2>2. Justified(runs[r], r)
    BY DEF RecordsSound
  <2>3. PICK m \in RunIds : m = runs[r].run
    BY <2>1, <2>2, PromptsAreAccepted
  <2>4. ~Running(m) /\ ~Running(m)' /\ Terminals(m)' = Terminals(m)
        /\ (runs[r].terminal \/ ~active' \/ current' # m)
    BY <2>1, <2>3 DEF Undisturbed
  <2>5. disk'.receipts[r] # "none"
    BY <2>1 DEF ReceiptMoves
  <2>6. /\ DiskRecord(r)'.kind = "prompt" /\ DiskRecord(r)'.run = m
        /\ Ending(DiskRecord(r)') = Ending(runs[r])
    BY <1>0, <2>1, <2>3, <2>4, <2>5, AgreedRecordStays
  <2>7. Running(DiskRecord(r).run)' <=> Running(m)'
    BY <2>6 DEF Running
  <2>8. Ending(DiskRecord(r))' = Ending(DiskRecord(r)') /\ Ending(runs[r])' = Ending(runs[r])
    BY <1>0 DEF Ending
  <2>9. KeptAsRecord(r)'
    BY <1>0, <2>1, <2>3, <2>4, <2>5, <2>6, <2>7, <2>8 DEF KeptAsRecord
  <2> QED BY <2>9 DEF AnswerKept
<1> QED BY <1>1, <1>2, <1>3 DEF AnswerKept, KeptAsReceipt

(* Nothing is promised of a request without a record that waits or is new. *)
LEMMA NewIsUntold ==
  ASSUME TypeOK, NEW r \in Ids, RecordsSound, AnswerKept(r), live, runs[r].kind = "none",
         disk.receipts[r] \in {"none", "queued"}
  PROVE  told[r] \notin FinalView
BY DEF RecordsSound, AnswerKept, KeptAsReceipt, KeptAsRecord, RefusedFor

(* Answers also stay while the session leaves memory, or is not there. *)
LEMMA UnloadedAnswer ==
  ASSUME TypeOK, NEW r \in Ids, RecordsSound, AcceptancesSound, AnswerKept(r), JournalKept,
         ~live', disk' = disk, told'[r] = told[r], runsFile'.runs = runsFile.runs,
         Acceptances(r)' = Acceptances(r), \A m \in RunIds : Terminals(m)' = Terminals(m),
         \A n \in RunIds : Running(n)' => Running(n)
  PROVE  AnswerKept(r)'
<1>1. KeptAsReceipt(r) => KeptAsReceipt(r)'
  BY DEF KeptAsReceipt, RefusedFor
<1>2. ASSUME KeptAsRecord(r) PROVE KeptAsRecord(r)'
  <2>1. /\ disk.receipts[r] # "none" /\ DiskRecord(r).kind = "prompt"
        /\ ~Running(DiskRecord(r).run) /\ Ending(DiskRecord(r)) = told[r]
    BY <1>2 DEF KeptAsRecord
  <2>2. Justified(DiskRecord(r), r)
    BY DiskRecordIs
  <2>3. PICK m \in RunIds : m = DiskRecord(r).run
    BY <2>1, <2>2, PromptsAreAccepted
  <2>4. DiskRecord(r)' = DiskRecord(r)
    BY <2>3, DiskRecordStays
  <2>5. ~Running(m)' /\ (Running(DiskRecord(r).run)' <=> Running(m)')
    BY <2>1, <2>3, <2>4 DEF Running
  <2>6. Ending(DiskRecord(r))' = Ending(DiskRecord(r))
    BY <2>4 DEF Ending
  <2> QED BY <2>1, <2>4, <2>5, <2>6 DEF KeptAsRecord
<1>3. RefusedFor(r)' <=> RefusedFor(r)
  BY DEF RefusedFor
<1> QED BY <1>1, <1>2, <1>3 DEF AnswerKept

(* Reading a receipt tells what is kept. *)
LEMMA ReadIsKept ==
  ASSUME TypeOK, TypeOK', MemoryMatchesDisk, RecordsSound, EndsSound, MemorySound,
         RunningIsCurrent, NEW r \in Ids, ReadReceipt(r)
  PROVE  AnswerKept(r)'
<1> SUFFICES ASSUME View(r) \in FinalView PROVE AnswerKept(r)'
  <2>1. told'[r] = View(r)
    BY DEF ReadReceipt, TypeOK
  <2> QED BY <2>1 DEF AnswerKept, FinalView
<1>0. /\ told'[r] = View(r) /\ live /\ ~quarantined
      /\ UNCHANGED <<disk, journal, runsFile, runs, live, active, current, go>>
  BY DEF ReadReceipt, TypeOK, fileVars, rtVars, goVars
<1>1. queue.receipts = disk.receipts /\ disk.receipts[r] \in Receipt
  BY <1>0, MemoryLine DEF SameLine, TypeOK, Document
<1>2. /\ Acceptances(r)' = Acceptances(r) /\ RefusedFor(r)' = RefusedFor(r)
      /\ DiskRecord(r)' = DiskRecord(r) /\ \A n : Running(n)' <=> Running(n)
  <2>1. Attached(r)' = Attached(r)
    BY <1>0 DEF Attached, FirstAcceptance, Acceptances
  <2>2. \A rec : Settled(rec)' = Settled(rec)
    BY <1>0 DEF Settled, Terminals
  <2> QED BY <1>0, <2>1, <2>2 DEF Acceptances, RefusedFor, DiskRecord, Running
<1>3. CASE runs[r].kind = "none" \/ disk.receipts[r] = "none"
  <2>1. View(r) = disk.receipts[r]
    BY <1>1, <1>3 DEF View
  <2>2. disk.receipts[r] \in {"cancelled", "failed"}
    BY <1>1, <2>1 DEF FinalView, Receipt
  <2> QED BY <1>0, <1>2, <2>1, <2>2 DEF AnswerKept, KeptAsReceipt, RefusedFor
<1>4. CASE runs[r].kind = "compact"
  BY <1>0, <1>4 DEF RecordsSound, AnswerKept
<1>5. CASE runs[r].kind = "prompt" /\ disk.receipts[r] # "none"
  <2>1. Justified(runs[r], r) /\ runs[r] \in RunRecord
    BY <1>0 DEF RecordsSound, TypeOK
  <2>2. runs[r].run \in RunIds
    BY <1>5, <2>1, PromptsAreAccepted
  <2>3. View(r) = IF runs[r].terminal THEN runs[r].state
                  ELSE IF ~active \/ runs[r].run # current THEN "interrupted" ELSE "running"
    BY <1>1, <1>5 DEF View
  <2>4. runs[r].terminal \/ ~active \/ runs[r].run # current
    BY <2>3 DEF FinalView
  <2>5. ~Running(runs[r].run)
    BY <1>0, <1>5, <2>2, <2>4 DEF EndsSound, EndsRecorded, RunningIsCurrent
  <2>6. Ending(runs[r]) = View(r)
    BY <2>3, <2>4 DEF Ending
  <2>7. /\ DiskRecord(r).kind = "prompt" /\ DiskRecord(r).run = runs[r].run
        /\ Ending(DiskRecord(r)) = Ending(runs[r])
    BY <1>0, <1>5, <2>5 DEF MemorySound, MemoryAgrees
  <2>8. Ending(DiskRecord(r))' = Ending(DiskRecord(r)) /\ Ending(runs[r])' = Ending(runs[r])
    BY <1>0, <1>2 DEF Ending
  <2>9. Running(DiskRecord(r).run)' <=> Running(DiskRecord(r).run)
    BY <1>0, <1>2 DEF Running
  <2>10. KeptAsRecord(r)'
    BY <1>0, <1>2, <1>5, <2>4, <2>5, <2>6, <2>7, <2>8, <2>9 DEF KeptAsRecord
  <2> QED BY <2>10 DEF AnswerKept
<1>6. runs[r].kind \in {"none", "prompt", "compact"}
  BY DEF TypeOK, RunRecord
<1> QED BY <1>3, <1>4, <1>5, <1>6

(* The invariant gives the promise. *)
LEMMA KeptAnswersHold ==
  ASSUME TypeOK, MemoryMatchesDisk, RecordsSound, AnswersKept
  PROVE  FinalReceiptsStay
<1> SUFFICES ASSUME NEW r \in Ids, live, ~quarantined, told[r] \in FinalView,
                    disk.receipts[r] \in {"cancelled", "failed"} => Acceptances(r) = {},
                    runs[r].kind # "compact"
             PROVE  View(r) = told[r]
  BY DEF FinalReceiptsStay
<1>1. queue.receipts = disk.receipts /\ AnswerKept(r) /\ Justified(runs[r], r)
      /\ runs[r].kind \in {"none", "prompt", "compact"}
  BY MemoryLine DEF SameLine, AnswersKept, RecordsSound, TypeOK, RunRecord
<1>2. CASE KeptAsReceipt(r)
  <2>1. runs[r].kind # "prompt"
    BY <1>1, <1>2, PromptsAreAccepted DEF KeptAsReceipt
  <2> QED BY <1>1, <1>2, <2>1 DEF KeptAsReceipt, View
<1>3. CASE KeptAsRecord(r)
  BY <1>1, <1>3 DEF KeptAsRecord, View, Ending
<1>4. runsFile.runs[r].kind # "compact"
  BY DEF RecordsSound
<1> QED BY <1>1, <1>2, <1>3, <1>4 DEF AnswerKept, RefusedFor

-----------------------------------------------------------------------------
(* How the journal and the records grow. *)

(* How the journal grows: by the end of a run, or by an acceptance under a new run id. *)
Accepts(r) ==
  /\ nextRun \in RunIds /\ nextRun' = nextRun + 1 /\ go'[nextRun].kind # "compact"
  /\ journal' = Append(journal, AcceptedEvent(nextRun, r))
JournalMoves ==
  \/ journal' = journal
  \/ \E n \in RunIds, r \in Ids, state \in RunState :
       journal' = Append(journal, TerminalEvent(n, r, state))
  \/ \E r \in Ids : Accepts(r)

(* Whatever is appended, the events before it stay. *)
LEMMA MovesKeepJournal ==
  ASSUME TypeOK, JournalMoves
  PROVE  JournalKept /\ \A m, r : AcceptedIn(m, r) => AcceptedIn(m, r)'
<1>0. journal \in Seq(Event)
  BY DEF TypeOK
<1>1. CASE journal' = journal
  BY <1>1 DEF JournalKept, AcceptedIn, Acceptances
<1>2. ASSUME NEW n \in RunIds, NEW r \in Ids, NEW state \in RunState,
             journal' = Append(journal, TerminalEvent(n, r, state))
      PROVE  JournalKept /\ \A m, s : AcceptedIn(m, s) => AcceptedIn(m, s)'
  <2>1. TerminalEvent(n, r, state) \in Event
    BY DEF TerminalEvent, Event
  <2> QED BY <1>0, <1>2, <2>1, EventAppended, TerminalAppended DEF JournalKept
<1>3. ASSUME NEW r \in Ids, Accepts(r)
      PROVE  JournalKept /\ \A m, s : AcceptedIn(m, s) => AcceptedIn(m, s)'
  <2>0. nextRun \in RunIds /\ journal' = Append(journal, AcceptedEvent(nextRun, r))
    BY <1>3 DEF Accepts
  <2>1. AcceptedEvent(nextRun, r) \in Event
    BY <2>0 DEF AcceptedEvent, Event, RunState
  <2> QED BY <1>0, <2>0, <2>1, EventAppended, AcceptanceAppended DEF JournalKept
<1> QED BY <1>1, <1>2, <1>3 DEF JournalMoves

(* Acceptances keep their own run ids. *)
LEMMA AcceptancesStay ==
  ASSUME TypeOK, AcceptancesSound, JournalMoves, nextRun' \in {nextRun, nextRun + 1},
         \A n \in RunIds : go'[n].kind = "compact" => go[n].kind = "compact" \/ n = nextRun
  PROVE  AcceptancesSound'
<1>0. /\ journal \in Seq(Event) /\ nextRun \in Nat /\ nextRun' >= nextRun
      /\ \A i \in DOMAIN journal : journal[i].run \in RunIds /\ journal[i].run \in Nat
  <2>1. \A i \in DOMAIN journal : journal[i] \in Event
    BY ElementOfSeq DEF TypeOK
  <2> QED BY <2>1, MaxRunsIsNat DEF TypeOK, Event, RunIds
<1>1. \A i \in DOMAIN journal : journal[i].type = "accepted" =>
        /\ journal[i].run < nextRun' /\ go'[journal[i].run].kind # "compact"
        /\ journal[i].run # nextRun
  BY <1>0 DEF AcceptancesSound
<1>2. CASE journal' = journal
  BY <1>1, <1>2 DEF AcceptancesSound
<1>3. ASSUME NEW n \in RunIds, NEW r \in Ids, NEW state \in RunState,
             journal' = Append(journal, TerminalEvent(n, r, state))
      PROVE  AcceptancesSound'
  <2>1. \A i \in DOMAIN journal' : journal'[i].type = "accepted" => i \in DOMAIN journal
    BY <1>0, <1>3, TerminalAppended
  <2>2. \A i \in DOMAIN journal : journal'[i] = journal[i]
    BY <1>3, MovesKeepJournal DEF JournalKept, JournalMoves
  <2> QED BY <1>1, <2>1, <2>2 DEF AcceptancesSound
<1>4. ASSUME NEW r \in Ids, Accepts(r) PROVE AcceptancesSound'
  <2> DEFINE e == AcceptedEvent(nextRun, r)
  <2>1. e \in Event /\ e.type = "accepted" /\ e.run = nextRun /\ e.req = r
    BY <1>4 DEF Accepts, AcceptedEvent, Event, RunState
  <2>2. journal' = Append(journal, e)
    BY <1>4 DEF Accepts
  <2> HIDE DEF e
  <2>3. /\ DOMAIN journal' = DOMAIN journal \cup {Len(journal) + 1}
        /\ journal'[Len(journal) + 1] = e
        /\ \A i \in DOMAIN journal : journal'[i] = journal[i]
    BY <1>0, <2>1, <2>2, EventAppended
  <2>4. nextRun < nextRun' /\ go'[nextRun].kind # "compact"
    BY <1>0, <1>4 DEF Accepts
  <2> QED BY <1>1, <2>1, <2>3, <2>4 DEF AcceptancesSound
<1> QED BY <1>2, <1>3, <1>4 DEF JournalMoves

(* How the record of a request moves in a loaded session: it keeps its run, or names  *)
(* a new one.                                                                             *)
RecordMoves(r) ==
  /\ runsFile'.runs[r] \in {runsFile.runs[r], runs'[r]}
  /\ \/ runs'[r].kind = runs[r].kind /\ runs'[r].run = runs[r].run
     \/ /\ runs[r].kind = "none" /\ Justified(runs[r], r)'
        /\ runs'[r].kind = "compact" => runsFile'.runs[r] = runs'[r]

(* Its parts that are compared with each other. *)
LEMMA JustifiedStays ==
  ASSUME TypeOK, JournalMoves, nextRun' \in {nextRun, nextRun + 1},
         NEW r \in Ids, NEW rec \in RunRecord, Justified(rec, r),
         NEW x, x.kind = rec.kind, x.run = rec.run
  PROVE  /\ x.kind # "none" => x.run \in RunIds /\ x.run < nextRun'
         /\ x.kind = "prompt" => AcceptedIn(x.run, r)'
<1>1. \A m \in RunIds : m < nextRun => m < nextRun'
  BY MaxRunsIsNat DEF TypeOK, RunIds
<1>2. \A m, s : AcceptedIn(m, s) => AcceptedIn(m, s)'
  BY MovesKeepJournal
<1> QED BY <1>1, <1>2 DEF Justified

(* Such moves keep the records justified. *)
LEMMA RecordsStay ==
  ASSUME TypeOK, TypeOK', RecordsSound, live, JournalMoves,
         nextRun' \in {nextRun, nextRun + 1}, \A r \in Ids : RecordMoves(r),
         disk'.revision = 0 => disk' = disk
  PROVE  RecordsSound'
<1>1. disk'.revision = 0 => \A r \in Ids : disk'.receipts[r] = "none"
  BY DEF RecordsSound
<1>2. ASSUME NEW r \in Ids
      PROVE  /\ Justified(runsFile.runs[r], r)' /\ Justified(runs[r], r)'
             /\ runsFile'.runs[r].kind # "none" => runs'[r].kind = runsFile'.runs[r].kind
             /\ runs'[r].kind = "compact" => runsFile'.runs[r].kind = "compact"
  <2>0. /\ Justified(runsFile.runs[r], r) /\ Justified(runs[r], r) /\ RecordMoves(r)
        /\ runsFile.runs[r].kind # "none" => runs[r].kind = runsFile.runs[r].kind
        /\ runs[r].kind = "compact" => runsFile.runs[r].kind = "compact"
        /\ runsFile.runs[r] \in RunRecord /\ runs[r] \in RunRecord
    BY DEF RecordsSound, TypeOK
  <2>1. Justified(runs[r], r)'
    <3>1. CASE runs'[r].kind = runs[r].kind /\ runs'[r].run = runs[r].run
      BY <2>0, <3>1, JustifiedStays DEF Justified
    <3> QED BY <2>0, <3>1 DEF RecordMoves
  <2>2. Justified(runsFile.runs[r], r)'
    <3>1. CASE runsFile'.runs[r] = runsFile.runs[r]
      BY <2>0, <3>1, JustifiedStays DEF Justified
    <3>2. CASE runsFile'.runs[r] = runs'[r]
      BY <2>1, <3>2 DEF Justified
    <3> QED BY <2>0, <3>1, <3>2 DEF RecordMoves
  <2> QED BY <2>0, <2>1, <2>2 DEF RecordMoves
<1> QED BY <1>1, <1>2 DEF RecordsSound

-----------------------------------------------------------------------------
(* Each group of steps keeps the answers. *)

(* Steps that leave the records, the journal and the executing runs alone. *)
SameGoroutine(n) ==
  /\ go'[n].kind = go[n].kind /\ go'[n].req = go[n].req /\ go'[n].state = go[n].state
  /\ go'[n].phase = go[n].phase \/ (go[n].phase = "tail" /\ go'[n].phase = "done")
Quiet ==
  /\ UNCHANGED <<journal, runsFile, runs, live, active, current, nextRun>>
  /\ \A n \in RunIds : SameGoroutine(n)

(* Cancelling the current run leaves what the invariant speaks of. *)
LEMMA CancelsAreQuiet ==
  ASSUME TypeOK, go' = go \/ go' = CancelRun(go)
  PROVE  \A n \in RunIds : SameGoroutine(n)
<1>1. CASE go' = go
  BY <1>1 DEF SameGoroutine
<1>2. CASE go' = CancelRun(go)
  <2>1. \A n \in RunIds : go[n] \in Goroutine
    BY DEF TypeOK
  <2>2. \A n \in RunIds : go'[n] = go[n] \/ go'[n] = [go[n] EXCEPT !.cancelled = TRUE]
    BY <1>2 DEF CancelRun, TypeOK
  <2>3. \A x \in Goroutine :
          LET y == [x EXCEPT !.cancelled = TRUE] IN
          y.kind = x.kind /\ y.req = x.req /\ y.state = x.state /\ y.phase = x.phase
    BY DEF Goroutine
  <2> QED BY <2>1, <2>2, <2>3 DEF SameGoroutine
<1> QED BY <1>1, <1>2

(* Handlers, the worker, a run's tail and the flags of a shutdown are quiet. *)
LEMMA QuietSteps ==
  ASSUME TypeOK,
         \/ QueueHandler \/ Cancel \/ ShutDown \/ CloseSession \/ UNCHANGED vars
         \/ WorkerStep /\ ~(worker.pc = "dispatch" /\ DispatchStarts)
         \/ \E n \in RunIds : RunTail(n)
  PROVE  Quiet
<1>1. CASE QueueHandler
  BY <1>1, QueueHandlerFrame, CancelsAreQuiet DEF Quiet
<1>2. CASE Cancel \/ ShutDown \/ CloseSession \/ UNCHANGED vars
  <2>1. /\ UNCHANGED <<journal, runsFile, runs, live, active, current, nextRun>>
        /\ go' = go \/ go' = CancelRun(go)
    BY <1>2 DEF Cancel, ShutDown, CloseSession, vars, fileVars, rtVars, goVars
  <2> QED BY <2>1, CancelsAreQuiet DEF Quiet
<1>3. CASE WorkerStep /\ ~(worker.pc = "dispatch" /\ DispatchStarts)
  <2>1. UNCHANGED <<journal, runsFile, runs, live, active, current, nextRun, go>>
    BY <1>3 DEF WorkerStep, WorkerLoop, WorkerDispatch, WorkerSettle, WorkerExit, goVars,
      fileVars, rtVars
  <2> QED BY <2>1, CancelsAreQuiet DEF Quiet
<1>4. ASSUME NEW n \in RunIds, RunTail(n) PROVE Quiet
  <2>1. /\ UNCHANGED <<journal, runsFile, runs, live, active, current, nextRun>>
        /\ go[n].phase = "tail" /\ go' = [go EXCEPT ![n].phase = "done"]
    BY <1>4 DEF RunTail, fileVars, rtVars
  <2>2. \A m \in RunIds : go[m] \in Goroutine
    BY DEF TypeOK
  <2>3. \A m \in RunIds : m # n => go'[m] = go[m]
    BY <2>1
  <2>4. go'[n] = [go[n] EXCEPT !.phase = "done"]
    BY <2>1 DEF TypeOK
  <2>5. \A m \in RunIds : SameGoroutine(m)
    BY <2>1, <2>2, <2>3, <2>4 DEF SameGoroutine, Goroutine
  <2> QED BY <2>1, <2>5 DEF Quiet
<1> QED BY <1>1, <1>2, <1>3, <1>4

(* Quiet steps keep all answers but one that is being read. *)
LEMMA QuietKeeps ==
  ASSUME TypeOK, TypeOK', AnswersInv, Quiet, \A r \in Ids : ReceiptMoves(r),
         disk'.revision = 0 => disk' = disk, ~live => disk' = disk,
         live /\ ~quarantined' => ~quarantined
  PROVE  /\ AcceptancesSound' /\ RecordsSound' /\ EndsSound' /\ MemorySound'
         /\ \A r \in Ids : told'[r] = told[r] => AnswerKept(r)'
<1>0. /\ UNCHANGED <<journal, runsFile, runs, live, active, current, nextRun>>
      /\ JournalMoves /\ nextRun' \in {nextRun, nextRun + 1}
      /\ \A n \in RunIds : SameGoroutine(n)
      /\ AcceptancesSound /\ RecordsSound /\ EndsSound /\ MemorySound /\ AnswersKept
  BY DEF Quiet, JournalMoves, AnswersInv
<1>1. JournalKept
  BY <1>0, MovesKeepJournal
<1>2. /\ \A n \in RunIds : Running(n)' <=> Running(n)
      /\ \A n : Terminals(n)' = Terminals(n)
      /\ \A r : Acceptances(r)' = Acceptances(r)
  BY <1>0 DEF SameGoroutine, Running, Terminals, Acceptances
<1>3. AcceptancesSound'
  <2>1. \A n \in RunIds : go'[n].kind = "compact" => go[n].kind = "compact"
    BY <1>0 DEF SameGoroutine
  <2> QED BY <1>0, <2>1, AcceptancesStay
<1>4. RecordsSound'
  <2>1. CASE live
    BY <1>0, <2>1, RecordsStay DEF RecordMoves
  <2>2. CASE ~live
    BY <1>0, <2>2 DEF RecordsSound, Justified, AcceptedIn, Acceptances
  <2> QED BY <2>1, <2>2
<1>5. EndsJournaled'
  BY <1>0, <1>2 DEF EndsSound, EndsJournaled, SameGoroutine
<1>6. EndsRecorded'
  <2>1. \A r \in Ids : live /\ runs[r].kind # "none" => runs[r].run \in RunIds
    BY <1>0 DEF RecordsSound, Justified
  <2>2. \A r \in Ids : live /\ runs[r].kind # "none" =>
          (Running(runs[r].run)' <=> Running(runs[r].run))
    BY <1>0, <1>2, <2>1 DEF Running
  <2>3. \A n \in RunIds : /\ Running(n)' => runs'[go'[n].req].kind = go'[n].kind
                          /\ go'[n].phase = "recorded" => runs'[go'[n].req].state = go'[n].state
    BY <1>0, <1>2 DEF EndsSound, EndsRecorded, SameGoroutine
  <2> QED BY <1>0, <2>2, <2>3 DEF EndsSound, EndsRecorded
<1>7. ASSUME NEW r \in Ids
      PROVE  MemoryAgrees(r)' /\ (told'[r] = told[r] => AnswerKept(r)')
  <2>0. MemoryAgrees(r) /\ AnswerKept(r) /\ ReceiptMoves(r)
    BY <1>0 DEF MemorySound, AnswersKept
  <2>1. CASE live
    <3>1. Undisturbed(r)
      BY <1>0, <1>2 DEF Undisturbed
    <3> QED BY <1>0, <1>1, <2>0, <2>1, <3>1, UndisturbedAgrees, UndisturbedAnswer
  <2>2. CASE ~live
    <3>1. MemoryAgrees(r)'
      BY <1>0, <2>2 DEF MemoryAgrees
    <3>2. told'[r] = told[r] => AnswerKept(r)'
      BY <1>0, <1>1, <1>2, <2>0, <2>2, UnloadedAnswer
    <3> QED BY <3>1, <3>2
  <2> QED BY <2>1, <2>2
<1> QED BY <1>3, <1>4, <1>5, <1>6, <1>7 DEF EndsSound, MemorySound

(* A step that takes the session for a new run of r, and writes its record and its   *)
(* acceptance, or fails to.                                                              *)
Takes(r) ==
  /\ live /\ live' /\ ~active /\ disk' = disk /\ told' = told
  /\ nextRun \in RunIds /\ nextRun' = nextRun + 1 /\ current' = nextRun
  /\ runs[r].kind = "none"
  /\ \A s \in Ids \ {r} : runs'[s] = runs[s]
  /\ runsFile'.runs \in {runsFile.runs, runs'}
  /\ journal' = journal \/ (Accepts(r) /\ disk.receipts[r] \in {"none", "queued"})
  /\ \A n \in RunIds \ {nextRun} : go'[n] = go[n]
RunIsNew(r) ==
  \/ /\ runs'[r] = runs[r] /\ go'[nextRun] = go[nextRun]
  \/ /\ runs'[r].kind = "prompt" /\ runs'[r].run = nextRun /\ ~runs'[r].terminal /\ Accepts(r)
     /\ \/ go'[nextRun] = go[nextRun] /\ quarantined'
        \/ go'[nextRun].phase = "turn" /\ go'[nextRun].req = r /\ go'[nextRun].kind = "prompt"
  \/ /\ runs'[r].kind = "compact" /\ runs'[r].run = nextRun /\ ~runs'[r].terminal
     /\ journal' = journal /\ runsFile'.runs = runs'
     /\ go'[nextRun].phase \in {"turn", "ended"}
     /\ go'[nextRun].req = r /\ go'[nextRun].kind = "compact"

(* It keeps the answers: nothing was said of r, and the other records that are *)
(* saved with its own are read as before.                                      *)
LEMMA TakesKeeps ==
  ASSUME TypeOK, TypeOK', RunsBound, RunningIsCurrent, AnswersInv,
         ~quarantined' => ~quarantined, NEW r \in Ids, Takes(r), RunIsNew(r)
  PROVE  AnswersInv'
<1>0. /\ AcceptancesSound /\ RecordsSound /\ EndsSound /\ MemorySound /\ AnswersKept
      /\ nextRun' \in {nextRun, nextRun + 1} /\ live /\ nextRun \in RunIds /\ nextRun \in Nat
      /\ journal \in Seq(Event) /\ JournalMoves /\ \A s \in Ids : ReceiptMoves(s)
  BY MaxRunsIsNat DEF AnswersInv, Takes, JournalMoves, TypeOK, RunIds, ReceiptMoves
<1>1. JournalKept
  BY <1>0, MovesKeepJournal
<1> PICK x \in RunIds : x = nextRun
  BY <1>0
<1>2. /\ \A s : s # r => Acceptances(s)' = Acceptances(s)
      /\ \A m : Terminals(m)' = Terminals(m)
      /\ Accepts(r) => AcceptedIn(x, r)'
  <2>1. CASE journal' = journal
    <3>1. ~Accepts(r)
      <4>1. Accepts(r) => AcceptedEvent(nextRun, r) \in Event
        BY <1>0 DEF AcceptedEvent, Event, RunState
      <4> QED BY <1>0, <2>1, <4>1, EventAppended DEF Accepts
    <3> QED BY <2>1, <3>1 DEF Acceptances, Terminals
  <2>2. CASE Accepts(r)
    <3>1. journal' = Append(journal, AcceptedEvent(x, r))
      BY <2>2 DEF Accepts
    <3> QED BY <1>0, <3>1, AcceptanceAppended
  <2> QED BY <2>1, <2>2 DEF Takes
<1>3. /\ \A n \in RunIds : ~Running(n)
      /\ \A n \in RunIds : n # nextRun => ~Running(n)'
      /\ go[nextRun].phase = "none" /\ go[nextRun].kind = "none"
  <2>1. \A n \in RunIds : ~Running(n)
    BY DEF Takes, RunningIsCurrent
  <2> QED BY <1>0, <2>1 DEF Takes, Running, RunsBound
<1>4. AcceptancesSound'
  <2>1. \A n \in RunIds : go'[n].kind = "compact" => go[n].kind = "compact" \/ n = nextRun
    BY DEF Takes
  <2> QED BY <1>0, <2>1, AcceptancesStay
<1>5. \A s \in Ids : RecordMoves(s)
  <2>1. \A s \in Ids : runsFile'.runs[s] \in {runsFile.runs[s], runs'[s]}
    BY DEF Takes
  <2>2. CASE runs'[r] = runs[r]
    BY <2>1, <2>2 DEF Takes, RecordMoves
  <2>3. CASE runs'[r] # runs[r]
    <3>1. /\ runs'[r].run = nextRun /\ nextRun < nextRun'
          /\ runs'[r].kind = "prompt" => AcceptedIn(x, r)'
          /\ runs'[r].kind = "compact" => runsFile'.runs[r] = runs'[r]
      BY <1>0, <1>2, <2>3 DEF RunIsNew, Takes
    <3>2. AcceptedIn(runs[r].run, r)' <=> AcceptedIn(x, r)'
      BY <3>1 DEF AcceptedIn, Acceptances
    <3>3. Justified(runs[r], r)'
      BY <1>0, <3>1, <3>2 DEF Justified
    <3> QED BY <2>1, <3>1, <3>3 DEF Takes, RecordMoves
  <2> QED BY <2>2, <2>3
<1>6. RecordsSound'
  BY <1>0, <1>5, RecordsStay DEF Takes
<1>7. EndsJournaled'
  <2>1. Terminals(nextRun) = {}
    BY <1>0, <1>3 DEF EndsSound, EndsJournaled
  <2>2. ASSUME NEW n \in RunIds
        PROVE  /\ go'[n].phase \in {"none", "turn", "unjournaled"} => Terminals(n)' = {}
               /\ \A i \in Terminals(n)' : journal'[i].state = go'[n].state
    <3>1. CASE n = nextRun
      BY <1>2, <2>1, <3>1
    <3>2. CASE n # nextRun
      <4>1. go'[n] = go[n] /\ Terminals(n)' = Terminals(n) /\ Terminals(n) \subseteq DOMAIN journal
        BY <1>2, <3>2 DEF Takes, Terminals
      <4> QED BY <1>0, <1>1, <4>1 DEF EndsSound, EndsJournaled, JournalKept
    <3> QED BY <3>1, <3>2
  <2> QED BY <2>2 DEF EndsJournaled
<1>8. EndsRecorded'
  <2>1. ASSUME NEW n \in RunIds
        PROVE  /\ Running(n)' => runs'[go'[n].req].kind = go'[n].kind
               /\ go'[n].phase # "recorded"
    <3>1. CASE n # nextRun
      BY <1>3, <3>1 DEF Running
    <3>2. CASE n = nextRun
      BY <1>3, <3>2 DEF RunIsNew, Running
    <3> QED BY <3>1, <3>2
  <2>2. ASSUME NEW s \in Ids, runs'[s].kind # "none", runs'[s].terminal
        PROVE  ~Running(runs[s].run)'
    <3>1. s # r /\ runs'[s] = runs[s]
      BY <2>2 DEF RunIsNew, Takes
    <3>2. runs[s].run \in RunIds /\ runs[s].run < nextRun /\ runs[s].run # nextRun
      <4>1. runs[s].run \in RunIds /\ runs[s].run < nextRun
        BY <1>0, <2>2, <3>1 DEF RecordsSound, Justified
      <4> QED BY <1>0, <4>1
    <3> QED BY <1>3, <3>1, <3>2 DEF Running
  <2> QED BY <2>1, <2>2 DEF EndsRecorded
<1>9. ASSUME NEW s \in Ids, s # r \/ (runs'[r] = runs[r] /\ journal' = journal)
      PROVE  MemoryAgrees(s)' /\ AnswerKept(s)'
  <2>1. runs'[s] = runs[s] /\ runsFile'.runs[s] \in {runsFile.runs[s], runs[s]}
    BY <1>9 DEF Takes
  <2>2. Acceptances(s)' = Acceptances(s)
    BY <1>2, <1>9 DEF Acceptances
  <2>3. ASSUME NEW m \in RunIds, m = runs[s].run, runs[s].kind = "prompt"
        PROVE  /\ Running(m)' <=> Running(m)
               /\ current' # m
    <3>1. m < nextRun /\ m # nextRun
      <4>1. m < nextRun
        BY <1>0, <2>3 DEF RecordsSound, Justified
      <4> QED BY <1>0, <4>1
    <3> QED BY <1>3, <3>1 DEF Takes
  <2>4. Undisturbed(s)
    BY <1>2, <2>1, <2>2, <2>3 DEF Undisturbed
  <2>5. MemoryAgrees(s) /\ AnswerKept(s) /\ told'[s] = told[s]
    BY <1>0 DEF MemorySound, AnswersKept, Takes
  <2> QED BY <1>0, <1>1, <2>4, <2>5, UndisturbedAgrees, UndisturbedAnswer
<1>10. ASSUME ~(runs'[r] = runs[r] /\ journal' = journal)
       PROVE  MemoryAgrees(r)' /\ AnswerKept(r)'
  <2>1. MemoryAgrees(r)'
    <3>1. CASE runs'[r].kind = "prompt" /\ ~quarantined'
      <4>1. runs'[r].run = nextRun /\ go'[nextRun].phase = "turn"
        BY <3>1 DEF RunIsNew, Takes
      <4> QED BY <4>1 DEF Running, MemoryAgrees
    <3> QED BY <3>1 DEF MemoryAgrees
  <2>2. AnswerKept(r)'
    <3>1. CASE disk.receipts[r] \in {"none", "queued"}
      <4>1. told[r] \notin FinalView
        BY <1>0, <3>1, NewIsUntold DEF AnswersKept, Takes
      <4> QED BY <4>1 DEF Takes, AnswerKept, FinalView
    <3>2. CASE disk.receipts[r] \notin {"none", "queued"}
      <4>1. journal' = journal
        BY <3>2 DEF Takes
      <4>2. ~Accepts(r)
        <5>1. Accepts(r) => AcceptedEvent(nextRun, r) \in Event
          BY <1>0 DEF AcceptedEvent, Event, RunState
        <5> QED BY <1>0, <4>1, <5>1, EventAppended DEF Accepts
      <4>3. runsFile'.runs[r].kind = "compact"
        BY <1>10, <4>1, <4>2 DEF RunIsNew
      <4> QED BY <4>3 DEF AnswerKept
    <3> QED BY <3>1, <3>2
  <2> QED BY <2>1, <2>2
<1>11. MemorySound' /\ AnswersKept'
  BY <1>9, <1>10 DEF MemorySound, AnswersKept
<1> QED BY <1>4, <1>6, <1>7, <1>8, <1>11 DEF AnswersInv, EndsSound

(* Accepting a prompt is such a step, whether it succeeds or is aborted, *)
LEMMA StartTakes ==
  ASSUME TypeOK, RunsBound, NEW r \in Ids, NEW b, StartRun(r, b), live, live' = live,
         disk' = disk, told' = told, ~active, runs[r].kind = "none",
         disk.receipts[r] \in {"none", "queued"}
  PROVE  Takes(r) /\ RunIsNew(r)
<1>1. nextRun \in RunIds /\ current' = nextRun /\ nextRun' = nextRun + 1
      /\ go[nextRun].kind = "none"
  <2>1. nextRun \in RunIds /\ nextRun \in Nat
    BY MaxRunsIsNat DEF StartRun, RunIds
  <2> QED BY <2>1 DEF StartRun, RunsBound
<1>2. /\ Recorded(r, b)[r].kind = "prompt" /\ Recorded(r, b)[r].run = nextRun
      /\ ~Recorded(r, b)[r].terminal
      /\ \A q \in Ids \ {r} : Recorded(r, b)[q] = runs[q]
  BY DEF Recorded, NoRecord, TypeOK
<1>3. CASE Accept(r, b)
  <2> DEFINE g == [NoGoroutine EXCEPT !.phase = "turn", !.kind = "prompt", !.req = r, !.body = b]
  <2>1. /\ journal' = Append(journal, AcceptedEvent(nextRun, r))
        /\ runs' = Recorded(r, b) /\ runsFile'.runs = runs'
        /\ go' = [go EXCEPT ![nextRun] = g]
    BY <1>3 DEF Accept, SavedRuns, Execute
  <2>2. g.kind = "prompt" /\ g.req = r /\ g.phase = "turn"
    BY DEF NoGoroutine
  <2> HIDE DEF g
  <2>3. go'[nextRun] = g /\ \A n \in RunIds \ {nextRun} : go'[n] = go[n]
    BY <1>1, <2>1 DEF TypeOK
  <2>4. Accepts(r)
    BY <1>1, <2>1, <2>2, <2>3 DEF Accepts
  <2>5. RunIsNew(r)
    BY <1>2, <2>1, <2>2, <2>3, <2>4 DEF RunIsNew
  <2> QED BY <1>1, <1>2, <2>1, <2>3, <2>4, <2>5 DEF Takes
<1>4. CASE AbortAcceptance(r, b)
  <2>1. /\ go' = go /\ quarantined' /\ runsFile'.runs = runsFile.runs
        /\ journal' = journal \/ journal' = Append(journal, AcceptedEvent(nextRun, r))
        /\ \/ runs' = runs
           \/ runs' = Recorded(r, b) /\ journal' = Append(journal, AcceptedEvent(nextRun, r))
    BY <1>4 DEF AbortAcceptance, FailedRunsFile, TypeOK
  <2>2. journal' = Append(journal, AcceptedEvent(nextRun, r)) => Accepts(r)
    BY <1>1, <2>1 DEF Accepts
  <2>3. RunIsNew(r)
    BY <1>2, <2>1, <2>2 DEF RunIsNew
  <2> QED BY <1>1, <1>2, <2>1, <2>2, <2>3 DEF Takes
<1> QED BY <1>3, <1>4 DEF StartRun

(* and so is starting a compaction. *)
LEMMA CompactTakes ==
  ASSUME TypeOK, NEW c \in Ids, Compact(c)
  PROVE  Takes(c) /\ RunIsNew(c)
<1>1. /\ nextRun \in RunIds /\ current' = nextRun /\ nextRun' = nextRun + 1
      /\ live /\ live' = live /\ ~active /\ disk' = disk /\ told' = told /\ journal' = journal
      /\ runs[c].kind = "none"
  BY DEF Compact, clientVars
<1> DEFINE rs == [runs EXCEPT ![c] = CompactRecord]
           g1 == [NoGoroutine EXCEPT !.phase = "turn", !.kind = "compact", !.req = c,
                                     !.body = None]
           g2 == [NoGoroutine EXCEPT !.phase = "ended", !.kind = "compact", !.req = c,
                                     !.state = "failed"]
<1>2. \/ runs' = rs /\ runsFile'.runs = rs /\ go' = [go EXCEPT ![nextRun] = g1]
      \/ runs' = runs /\ runsFile'.runs = runsFile.runs /\ go' = go
      \/ runs' = rs /\ runsFile'.runs = rs /\ go' = [go EXCEPT ![nextRun] = g2]
  <2>1. \/ runs' = rs /\ runsFile' = SavedRuns(runs') /\ go' = [go EXCEPT ![nextRun] = g1]
        \/ runs' = runs /\ runsFile' \in FailedRunsFile /\ go' = go
        \/ runs' = rs /\ runsFile' = SavedRuns(runs') /\ go' = [go EXCEPT ![nextRun] = g2]
    BY DEF Compact, Execute
  <2>2. runsFile' \in FailedRunsFile => runsFile'.runs = runsFile.runs
    BY DEF FailedRunsFile, TypeOK
  <2>3. runsFile' = SavedRuns(runs') => runsFile'.runs = runs'
    BY DEF SavedRuns
  <2> HIDE DEF rs, g1, g2
  <2> QED BY <2>1, <2>2, <2>3
<1>3. /\ rs[c].kind = "compact" /\ rs[c].run = nextRun /\ ~rs[c].terminal
      /\ \A s \in Ids \ {c} : rs[s] = runs[s]
      /\ g1.phase = "turn" /\ g1.kind = "compact" /\ g1.req = c
      /\ g2.phase = "ended" /\ g2.kind = "compact" /\ g2.req = c
  BY DEF CompactRecord, NoRecord, NoGoroutine, TypeOK
<1> HIDE DEF rs, g1, g2
<1>4. CASE runs' = runs /\ runsFile'.runs = runsFile.runs /\ go' = go
  BY <1>1, <1>4 DEF Takes, RunIsNew
<1>5. ASSUME NEW g \in {g1, g2},
             runs' = rs /\ runsFile'.runs = rs /\ go' = [go EXCEPT ![nextRun] = g]
      PROVE  Takes(c) /\ RunIsNew(c)
  <2>1. go'[nextRun] = g /\ \A n \in RunIds \ {nextRun} : go'[n] = go[n]
    BY <1>1, <1>5 DEF TypeOK
  <2> QED BY <1>1, <1>3, <1>5, <2>1 DEF Takes, RunIsNew
<1> QED BY <1>2, <1>4, <1>5

(* The end of a turn is journaled for a run that still executes. *)
LEMMA TurnEndsKeeps ==
  ASSUME TypeOK, TypeOK', RunsBound, AnswersInv, ~quarantined' => ~quarantined,
         NEW n \in RunIds, TurnEnds(n)
  PROVE  AnswersInv'
<1>0. /\ AcceptancesSound /\ RecordsSound /\ EndsSound /\ MemorySound /\ AnswersKept
      /\ nextRun' = nextRun /\ live /\ live' = live /\ disk' = disk /\ told' = told
      /\ UNCHANGED <<runsFile, runs, active, current>> /\ go[n].phase = "turn"
      /\ journal \in Seq(Event) /\ go[n].req \in Ids
  BY DEF AnswersInv, TurnEnds, TypeOK, rtVars, clientVars, RunsBound, Unfinished
<1>1. PICK state \in RunState, p \in {"ended", "unjournaled"} :
        /\ journal' = IF p = "ended" THEN Append(journal, TerminalEvent(n, go[n].req, state))
                                     ELSE journal
        /\ go' = [go EXCEPT ![n].phase = p, ![n].state = state]
  <2>1. PICK ok \in BOOLEAN, state \in Outcomes :
           /\ journal' = IF ok THEN Append(journal, TerminalEvent(n, go[n].req, state)) ELSE journal
           /\ go' = [go EXCEPT ![n].phase = IF ok THEN "ended" ELSE "unjournaled",
                               ![n].state = state]
    BY Zenon DEF TurnEnds
  <2>2. state \in RunState
    BY OutcomesAssumption DEF RunState
  <2>3. CASE ok
    BY <2>1, <2>2, <2>3
  <2>4. CASE ~ok
    BY <2>1, <2>2, <2>4
  <2> QED BY <2>3, <2>4
<1>2. JournalMoves
  BY <1>0, <1>1 DEF JournalMoves
<1>3. JournalKept
  BY <1>2, MovesKeepJournal
<1>4. /\ \A r : Acceptances(r)' = Acceptances(r)
      /\ \A m : m # n => Terminals(m)' = Terminals(m)
      /\ \A i \in Terminals(n)' : i \in Terminals(n) \/ journal'[i].state = state
      /\ p = "unjournaled" => Terminals(n)' = Terminals(n)
  <2>1. CASE p = "ended"
    <3>1. journal' = Append(journal, TerminalEvent(n, go[n].req, state))
      BY <1>1, <2>1
    <3> QED BY <1>0, <2>1, <3>1, TerminalAppended
  <2>2. CASE p = "unjournaled"
    <3>1. journal' = journal
      BY <1>1, <2>2
    <3> QED BY <3>1 DEF Acceptances, Terminals
  <2> QED BY <2>1, <2>2
<1>5. /\ \A m \in RunIds : m # n => go'[m] = go[m]
      /\ go'[n].phase = p /\ go'[n].kind = go[n].kind /\ go'[n].req = go[n].req
      /\ go'[n].state = state
  <2>1. go'[n] = [go[n] EXCEPT !.phase = p, !.state = state]
    BY <1>1 DEF TypeOK
  <2>2. go[n] \in Goroutine
    BY DEF TypeOK
  <2>3. \A m \in RunIds : m # n => go'[m] = go[m]
    BY <1>1 DEF TypeOK
  <2> QED BY <2>1, <2>2, <2>3 DEF Goroutine
<1>6. \A m \in RunIds : (Running(m)' <=> Running(m)) /\ go'[m].kind = go[m].kind
                        /\ go'[m].req = go[m].req
  <2>1. Running(n) /\ Running(n)'
    BY <1>0, <1>5 DEF Running
  <2> QED BY <1>5, <2>1 DEF Running
<1>7. AcceptancesSound'
  BY <1>0, <1>2, <1>6, AcceptancesStay
<1>8. RecordsSound'
  <2>1. \A r \in Ids : RecordMoves(r)
    BY <1>0 DEF RecordMoves
  <2> QED BY <1>0, <1>2, <2>1, RecordsStay
<1>9. EndsJournaled'
  <2>1. Terminals(n) = {}
    BY <1>0 DEF EndsSound, EndsJournaled
  <2>2. ASSUME NEW m \in RunIds
        PROVE  /\ go'[m].phase \in {"none", "turn", "unjournaled"} => Terminals(m)' = {}
               /\ \A i \in Terminals(m)' : journal'[i].state = go'[m].state
    <3>1. CASE m = n
      BY <1>4, <1>5, <2>1, <3>1
    <3>2. CASE m # n
      <4>1. Terminals(m)' = Terminals(m) /\ Terminals(m) \subseteq DOMAIN journal
        BY <1>4, <3>2 DEF Terminals
      <4> QED BY <1>0, <1>3, <1>5, <3>2, <4>1 DEF EndsSound, EndsJournaled, JournalKept
    <3> QED BY <3>1, <3>2
  <2> QED BY <2>2 DEF EndsJournaled
<1>10. EndsRecorded'
  <2>1. \A r \in Ids : runs[r].kind # "none" => runs[r].run \in RunIds
    BY <1>0 DEF RecordsSound, Justified
  <2>2. \A r \in Ids : runs[r].kind # "none" =>
          (Running(runs[r].run)' <=> Running(runs[r].run))
    BY <1>0, <1>6, <2>1 DEF Running
  <2>3. \A m \in RunIds : /\ Running(m)' => runs'[go'[m].req].kind = go'[m].kind
                          /\ go'[m].phase = "recorded" => runs'[go'[m].req].state = go'[m].state
    BY <1>0, <1>5, <1>6 DEF EndsSound, EndsRecorded
  <2> QED BY <1>0, <2>2, <2>3 DEF EndsSound, EndsRecorded
<1>11. ASSUME NEW r \in Ids PROVE MemoryAgrees(r)' /\ AnswerKept(r)'
  <2>1. Running(n)
    BY <1>0 DEF Running
  <2>2. Undisturbed(r) /\ ReceiptMoves(r)
    BY <1>0, <1>4, <1>6, <2>1 DEF Undisturbed, ReceiptMoves
  <2>3. MemoryAgrees(r) /\ AnswerKept(r)
    BY <1>0 DEF MemorySound, AnswersKept
  <2> QED BY <1>0, <1>3, <2>2, <2>3, UndisturbedAgrees, UndisturbedAnswer
<1> QED BY <1>7, <1>8, <1>9, <1>10, <1>11 DEF AnswersInv, EndsSound, MemorySound, AnswersKept

(* The run n is the one that executes, and no other request's record names it. *)
LEMMA OwnRecord ==
  ASSUME TypeOK, RunsBound, RunningIsCurrent, RunsRemembered, DurableBeforeExecution,
         AnswersInv, NEW n \in RunIds, Running(n)
  PROVE  /\ live /\ go[n].req \in Ids /\ go[n].kind \in {"prompt", "compact"}
         /\ runs[go[n].req].kind = go[n].kind
         /\ go[n].kind = "prompt" => runs[go[n].req].run = n
         /\ \A m \in RunIds : Running(m) => m = n
         /\ \A s \in Ids \ {go[n].req} : runs[s].kind = "prompt" => runs[s].run # n
<1>1. live /\ go[n].kind # "none" /\ go[n].req \in Ids /\ go[n].kind \in {"none", "prompt", "compact"}
  BY DEF Running, RunsBound, Unfinished, TypeOK, Goroutine
<1>2. \A m \in RunIds : Running(m) => m = n
  BY DEF RunningIsCurrent
<1>3. runs[go[n].req].kind = go[n].kind
  BY DEF AnswersInv, EndsSound, EndsRecorded
<1>4. go[n].kind = "prompt" => runs[go[n].req].run = n
  BY <1>1 DEF RunsRemembered, NamesRun
<1>5. ASSUME NEW s \in Ids, s # go[n].req, runs[s].kind = "prompt", runs[s].run = n
      PROVE  FALSE
  <2>1. AcceptedIn(n, s)
    BY <1>1, <1>5 DEF AnswersInv, RecordsSound, Justified
  <2>2. PICK i \in DOMAIN journal :
           journal[i].type = "accepted" /\ journal[i].req = s /\ journal[i].run = n
    BY <2>1 DEF AcceptedIn, Acceptances
  <2>3. /\ go[n].kind # "compact"
        /\ \A j \in DOMAIN journal :
             journal[j].type = "accepted" /\ journal[j].run = n => journal[j].req = s
    BY <2>2 DEF AnswersInv, AcceptancesSound
  <2>4. PICK j \in DOMAIN journal : journal[j] = AcceptedEvent(n, go[n].req)
    BY <1>1, <2>3 DEF DurableBeforeExecution
  <2>5. journal[j].type = "accepted" /\ journal[j].run = n /\ journal[j].req = go[n].req
    <3>1. \A a, b : /\ AcceptedEvent(a, b).type = "accepted"
                    /\ AcceptedEvent(a, b).run = a /\ AcceptedEvent(a, b).req = b
      BY DEF AcceptedEvent
    <3> QED BY <2>4, <3>1
  <2> QED BY <1>5, <2>3, <2>5
<1> QED BY <1>1, <1>2, <1>3, <1>4, <1>5

(* A step of the goroutine n that notes its end, or releases the session. *)
Notes(n) ==
  LET r == go[n].req IN
  /\ go[n].phase \in {"ended", "unjournaled", "recorded"}
  /\ disk' = disk /\ told' = told /\ journal' = journal /\ live' = live /\ nextRun' = nextRun
  /\ \A m \in RunIds \ {n} : go'[m] = go[m]
  /\ go'[n].kind = go[n].kind /\ go'[n].req = r /\ go'[n].state = go[n].state
  /\ \A s \in Ids \ {r} : runs'[s] = runs[s]
  /\ runs'[r].kind = runs[r].kind /\ runs'[r].run = runs[r].run
  /\ runs'[r].state = go[n].state
Noted(n) ==
  LET r == go[n].req IN
  /\ go[n].kind = "prompt" /\ go'[n].phase = "recorded" /\ runs'[r].terminal = runs[r].terminal
  /\ UNCHANGED <<active, current, runsFile>>
Released(n) ==
  LET r == go[n].req IN
  /\ go'[n].phase \in {"tail", "done"} /\ runs'[r].terminal /\ ~active'
  /\ runsFile'.runs \in {runsFile.runs, runs'}
  /\ ~quarantined' => runsFile'.runs = runs'

(* Both keep the answers: the run's own record is of a run that executed, and *)
(* what is saved with its end is read as the state its goroutine saw.         *)
LEMMA NotesKeeps ==
  ASSUME TypeOK, TypeOK', RunsBound, RunningIsCurrent, RunsRemembered, DurableBeforeExecution,
         AnswersInv, ~quarantined' => ~quarantined, NEW n \in RunIds,
         Notes(n), Noted(n) \/ Released(n)
  PROVE  AnswersInv'
<1>1. Running(n)
  BY DEF Notes, Running
<1> PICK r \in Ids : r = go[n].req
  BY <1>1, OwnRecord
<1>0. /\ AcceptancesSound /\ RecordsSound /\ EndsSound /\ MemorySound /\ AnswersKept
      /\ JournalMoves /\ nextRun' \in {nextRun, nextRun + 1} /\ disk' = disk /\ told' = told
      /\ live /\ live' /\ journal' = journal
      /\ journal \in Seq(Event) /\ journal' \in Seq(Event)
  BY <1>1, OwnRecord DEF AnswersInv, Notes, JournalMoves, TypeOK
<1>2. JournalKept /\ (\A s : Acceptances(s)' = Acceptances(s))
      /\ \A m : Terminals(m)' = Terminals(m)
  BY <1>0 DEF JournalKept, Acceptances, Terminals
<1>3. /\ go[n].kind \in {"prompt", "compact"} /\ runs[r].kind = go[n].kind
      /\ go[n].kind = "prompt" => runs[r].run = n
      /\ \A m \in RunIds : Running(m) => m = n
      /\ \A s \in Ids \ {r} : runs[s].kind = "prompt" => runs[s].run # n
  BY <1>1, OwnRecord
<1>4. /\ \A m \in RunIds \ {n} : go'[m] = go[m]
      /\ go'[n].kind = go[n].kind /\ go'[n].req = r /\ go'[n].state = go[n].state
      /\ \A s \in Ids \ {r} : runs'[s] = runs[s]
      /\ runs'[r].kind = runs[r].kind /\ runs'[r].run = runs[r].run
      /\ runs'[r].state = go[n].state
  BY DEF Notes
<1>5. \/ /\ Running(n)' /\ go[n].kind = "prompt" /\ runs'[r].terminal = runs[r].terminal
         /\ UNCHANGED <<active, current>> /\ runsFile'.runs = runsFile.runs
      \/ /\ ~Running(n)' /\ runs'[r].terminal /\ ~active'
         /\ runsFile'.runs \in {runsFile.runs, runs'}
         /\ ~quarantined' => runsFile'.runs = runs'
  BY DEF Noted, Released, Running
<1>6. \A m \in RunIds : m # n => ~Running(m) /\ ~Running(m)'
  BY <1>3, <1>4 DEF Running
<1>7. AcceptancesSound'
  BY <1>0, <1>4, AcceptancesStay
<1>8. RecordsSound'
  <2>1. \A s \in Ids : RecordMoves(s)
    BY <1>4, <1>5 DEF RecordMoves
  <2> QED BY <1>0, <2>1, RecordsStay
<1>9. EndsJournaled'
  <2>1. go'[n].phase \notin {"none", "turn", "unjournaled"}
    BY DEF Noted, Released
  <2>2. ASSUME NEW m \in RunIds
        PROVE  /\ go'[m].phase \in {"none", "turn", "unjournaled"} => Terminals(m)' = {}
               /\ \A i \in Terminals(m)' : journal'[i].state = go'[m].state
    BY <1>0, <1>2, <1>4, <2>1 DEF EndsSound, EndsJournaled
  <2> QED BY <2>2 DEF EndsJournaled
<1>10. EndsRecorded'
  <2>1. ASSUME NEW m \in RunIds
        PROVE  /\ Running(m)' => runs'[go'[m].req].kind = go'[m].kind
               /\ go'[m].phase = "recorded" => runs'[go'[m].req].state = go'[m].state
    <3>1. CASE m = n
      BY <1>3, <1>4, <3>1
    <3>2. CASE m # n
      <4>1. ~Running(m)' /\ go'[m].phase # "recorded"
        BY <1>6, <3>2 DEF Running
      <4> QED BY <4>1
    <3> QED BY <3>1, <3>2
  <2>2. ASSUME NEW s \in Ids, runs'[s].kind # "none", runs'[s].terminal
        PROVE  ~Running(runs[s].run)'
    <3>1. runs'[s].run = runs[s].run /\ runs[s].run \in RunIds /\ runs[s].kind # "none"
      <4>1. runs'[s].run = runs[s].run /\ runs'[s].kind = runs[s].kind
        BY <1>4
      <4> QED BY <1>0, <2>2, <4>1 DEF RecordsSound, Justified
    <3>2. PICK m \in RunIds : m = runs[s].run
      BY <3>1
    <3>3. ~Running(m)'
      <4>1. CASE m # n
        BY <1>6, <4>1
      <4>2. CASE m = n /\ Running(n)'
        <5>1. runs[s].terminal
          BY <1>4, <1>5, <2>2, <4>2
        <5>2. ~Running(runs[s].run)
          BY <1>0, <3>1, <5>1 DEF EndsSound, EndsRecorded
        <5> QED BY <1>1, <3>2, <4>2, <5>2
      <4> QED BY <4>1, <4>2
    <3>4. runs'[s].run = m
      BY <3>1, <3>2
    <3> QED BY <3>3, <3>4 DEF Running
  <2> QED BY <2>1, <2>2 DEF EndsRecorded
<1>11. ASSUME NEW s \in Ids, s # r PROVE MemoryAgrees(s)' /\ AnswerKept(s)'
  <2>1. runs'[s] = runs[s] /\ runsFile'.runs[s] \in {runsFile.runs[s], runs[s]}
    BY <1>4, <1>5, <1>11
  <2>2. ASSUME NEW m \in RunIds, m = runs[s].run, runs[s].kind = "prompt"
        PROVE  /\ Running(m)' <=> Running(m)
               /\ ~active \/ current # m => ~active' \/ current' # m
    <3>1. m # n
      BY <1>3, <1>11, <2>2
    <3> QED BY <1>5, <1>6, <3>1
  <2>3. Undisturbed(s) /\ ReceiptMoves(s)
    BY <1>0, <1>2, <2>1, <2>2 DEF Undisturbed, ReceiptMoves
  <2>4. MemoryAgrees(s) /\ AnswerKept(s)
    BY <1>0 DEF MemorySound, AnswersKept
  <2> QED BY <1>0, <1>2, <2>3, <2>4, UndisturbedAgrees, UndisturbedAnswer
<1>12. MemoryAgrees(r)'
  <2> SUFFICES ASSUME go[n].kind = "prompt", ~quarantined', ~Running(n)'
               PROVE  MemoryAgrees(r)'
    <3>1. runs'[r].kind = go[n].kind /\ (go[n].kind = "prompt" => runs'[r].run = n)
      BY <1>3, <1>4
    <3>2. runs'[r].run = n => (Running(runs[r].run)' <=> Running(n)')
      BY DEF Running
    <3> QED BY <3>1, <3>2 DEF MemoryAgrees
  <2>1. PICK rec \in RunRecord : rec = runs'[r]
    BY DEF TypeOK
  <2>2. /\ runsFile'.runs[r] = rec /\ rec.terminal /\ rec.state = go[n].state
        /\ rec.kind = "prompt" /\ rec.run = n
    BY <1>3, <1>4, <1>5, <2>1
  <2>3. \A i \in Terminals(rec.run)' : journal'[i].state = go[n].state
    <3>1. Terminals(rec.run)' = Terminals(n)
      BY <1>0, <2>2 DEF Terminals
    <3> QED BY <1>0, <3>1 DEF EndsSound, EndsJournaled
  <2>4. /\ DiskRecord(r)'.kind = "prompt" /\ DiskRecord(r)'.run = n
        /\ Terminals(rec.run)' = {} => Ending(DiskRecord(r)') = Ending(rec)
        /\ Terminals(rec.run)' # {} =>
             \E i \in Terminals(rec.run)' : Ending(DiskRecord(r)') = journal'[i].state
    BY <1>0, <2>2, SavedEnding
  <2>5. Ending(rec) = go[n].state
    BY <2>2 DEF Ending
  <2>6. Ending(DiskRecord(r)') = Ending(rec)
    BY <2>3, <2>4, <2>5
  <2>7. Ending(DiskRecord(r))' = Ending(DiskRecord(r)') /\ Ending(runs[r])' = Ending(rec)
    BY <2>1 DEF Ending
  <2> QED BY <2>1, <2>2, <2>4, <2>6, <2>7 DEF MemoryAgrees
<1>13. AnswerKept(r)'
  <2>0. AnswerKept(r) /\ told'[r] = told[r]
    BY <1>0 DEF AnswersKept
  <2>1. ~KeptAsRecord(r)
    <3>1. runs[r].kind = "prompt" => runs[r].run = n
      BY <1>3
    <3> QED BY <1>0, <1>1, <3>1 DEF KeptAsRecord
  <2>2. KeptAsReceipt(r) => KeptAsReceipt(r)'
    BY <1>0, <1>2 DEF KeptAsReceipt, RefusedFor
  <2>3. RefusedFor(r)' <=> RefusedFor(r)
    BY <1>0 DEF RefusedFor
  <2>4. runsFile.runs[r].kind = "compact" => runsFile'.runs[r].kind = "compact"
    <3>1. runsFile.runs[r].kind = "compact" => runs'[r].kind = "compact"
      BY <1>0, <1>4 DEF RecordsSound
    <3> QED BY <1>5, <3>1
  <2> QED BY <1>2, <2>0, <2>1, <2>2, <2>3, <2>4 DEF AnswerKept
<1>14. MemorySound' /\ AnswersKept'
  BY <1>11, <1>12, <1>13 DEF MemorySound, AnswersKept
<1> QED BY <1>7, <1>8, <1>9, <1>10, <1>14 DEF AnswersInv, EndsSound

(* What noting the state, the end, or both leaves of a record. *)
LEMMA RecordEnds ==
  ASSUME NEW rs \in [Ids -> RunRecord], NEW r \in Ids, NEW state, NEW h
  PROVE  /\ h = [rs EXCEPT ![r].state = state] =>
              /\ \A s \in Ids \ {r} : h[s] = rs[s]
              /\ h[r].kind = rs[r].kind /\ h[r].run = rs[r].run
              /\ h[r].state = state /\ h[r].terminal = rs[r].terminal
         /\ h = [rs EXCEPT ![r].terminal = TRUE] =>
              /\ \A s \in Ids \ {r} : h[s] = rs[s]
              /\ h[r].kind = rs[r].kind /\ h[r].run = rs[r].run
              /\ h[r].state = rs[r].state /\ h[r].terminal
         /\ h = [rs EXCEPT ![r].terminal = TRUE, ![r].state = state] =>
              /\ \A s \in Ids \ {r} : h[s] = rs[s]
              /\ h[r].kind = rs[r].kind /\ h[r].run = rs[r].run
              /\ h[r].state = state /\ h[r].terminal
<1>0. rs[r] \in RunRecord
  OBVIOUS
<1>1. ASSUME h = [rs EXCEPT ![r].state = state]
      PROVE  /\ \A s \in Ids \ {r} : h[s] = rs[s]
             /\ h[r].kind = rs[r].kind /\ h[r].run = rs[r].run
             /\ h[r].state = state /\ h[r].terminal = rs[r].terminal
  <2>1. h[r] = [rs[r] EXCEPT !.state = state] /\ \A s \in Ids \ {r} : h[s] = rs[s]
    BY <1>1
  <2> QED BY <1>0, <2>1 DEF RunRecord
<1>2. ASSUME h = [rs EXCEPT ![r].terminal = TRUE]
      PROVE  /\ \A s \in Ids \ {r} : h[s] = rs[s]
             /\ h[r].kind = rs[r].kind /\ h[r].run = rs[r].run
             /\ h[r].state = rs[r].state /\ h[r].terminal
  <2>1. h[r] = [rs[r] EXCEPT !.terminal = TRUE] /\ \A s \in Ids \ {r} : h[s] = rs[s]
    BY <1>2
  <2> QED BY <1>0, <2>1 DEF RunRecord
<1>3. ASSUME h = [rs EXCEPT ![r].terminal = TRUE, ![r].state = state]
      PROVE  /\ \A s \in Ids \ {r} : h[s] = rs[s]
             /\ h[r].kind = rs[r].kind /\ h[r].run = rs[r].run
             /\ h[r].state = state /\ h[r].terminal
  <2>1. h[r] = [rs[r] EXCEPT !.terminal = TRUE, !.state = state]
        /\ \A s \in Ids \ {r} : h[s] = rs[s]
    BY <1>3
  <2> QED BY <1>0, <2>1 DEF RunRecord
<1> QED BY <1>1, <1>2, <1>3

(* Memory's records after persistRuns, and runs.json. *)
LEMMA PersistWrites ==
  ASSUME TypeOK, NEW rs, NEW lost, PersistEnd(rs, lost)
  PROVE  /\ runs' = rs /\ runsFile'.runs \in {runsFile.runs, runs'}
         /\ ~quarantined' => runsFile'.runs = runs'
<1>1. runsFile' \in FailedRunsFile => runsFile'.runs = runsFile.runs
  BY DEF FailedRunsFile, TypeOK
<1>2. runsFile' = SavedRuns(rs) => runsFile'.runs = rs
  BY DEF SavedRuns
<1>3. runs' = rs /\ (runsFile' = SavedRuns(rs) \/ runsFile' \in FailedRunsFile)
      /\ (~quarantined' => runsFile' = SavedRuns(rs))
  BY Zenon DEF PersistEnd
<1> QED BY <1>1, <1>2, <1>3

(* They are the steps of a run's bookkeeping. *)
LEMMA RunStepNotes ==
  ASSUME TypeOK, RunsBound, RunningIsCurrent, RunsRemembered, DurableBeforeExecution, AnswersInv,
         NEW n \in RunIds, RecordState(n) \/ Release(n) \/ CompactFinish(n)
  PROVE  Notes(n) /\ (Noted(n) \/ Released(n))
<1>0. go[n].phase \in {"ended", "unjournaled", "recorded"} /\ Running(n)
  BY DEF RecordState, Release, CompactFinish, Running
<1> PICK r \in Ids : r = go[n].req
  BY <1>0, OwnRecord
<1>1. PICK p \in {"recorded", "tail", "done"} : go' = [go EXCEPT ![n].phase = p]
  BY DEF RecordState, Release, CompactFinish
<1>2. /\ \A m \in RunIds \ {n} : go'[m] = go[m]
      /\ go'[n].kind = go[n].kind /\ go'[n].req = r /\ go'[n].state = go[n].state
      /\ go'[n].phase = p
  <2>1. go'[n] = [go[n] EXCEPT !.phase = p] /\ go[n] \in Goroutine
    BY <1>1 DEF TypeOK
  <2>2. \A m \in RunIds \ {n} : go'[m] = go[m]
    BY <1>1 DEF TypeOK
  <2> QED BY <2>1, <2>2 DEF Goroutine
<1>3. disk' = disk /\ told' = told /\ journal' = journal /\ live' = live /\ nextRun' = nextRun
  BY DEF RecordState, Release, CompactFinish, fileVars, clientVars
<1>4. runs \in [Ids -> RunRecord]
  BY DEF TypeOK
<1>5. CASE RecordState(n)
  <2>1. /\ go[n].kind = "prompt" /\ runs' = [runs EXCEPT ![r].state = go[n].state]
        /\ go'[n].phase = "recorded" /\ UNCHANGED <<active, current, runsFile>>
    <3>1. go' = [go EXCEPT ![n].phase = "recorded"]
      BY <1>5 DEF RecordState
    <3>2. go'[n] = [go[n] EXCEPT !.phase = "recorded"] /\ go[n] \in Goroutine
      BY <3>1 DEF TypeOK
    <3>3. go'[n].phase = "recorded"
      BY <3>2 DEF Goroutine
    <3> QED BY <1>5, <3>3 DEF RecordState, fileVars
  <2>2. /\ \A s \in Ids \ {r} : runs'[s] = runs[s]
        /\ runs'[r].kind = runs[r].kind /\ runs'[r].run = runs[r].run
        /\ runs'[r].state = go[n].state /\ runs'[r].terminal = runs[r].terminal
    BY <1>4, <2>1, RecordEnds
  <2> QED BY <1>0, <1>2, <1>3, <2>1, <2>2 DEF Notes, Noted
<1>6. CASE Release(n)
  <2>1. /\ runs' = [runs EXCEPT ![r].terminal = TRUE] /\ go[n].phase = "recorded"
        /\ ~active' /\ runsFile'.runs \in {runsFile.runs, runs'}
        /\ ~quarantined' => runsFile'.runs = runs'
    <3>1. PersistEnd([runs EXCEPT ![r].terminal = TRUE], FALSE)
      BY <1>6 DEF Release
    <3> QED BY <1>6, <3>1, PersistWrites DEF Release
  <2>2. go'[n].phase = "tail"
    <3>1. go' = [go EXCEPT ![n].phase = "tail"]
      BY <1>6 DEF Release
    <3>2. go'[n] = [go[n] EXCEPT !.phase = "tail"] /\ go[n] \in Goroutine
      BY <3>1 DEF TypeOK
    <3> QED BY <3>2 DEF Goroutine
  <2>3. /\ \A s \in Ids \ {r} : runs'[s] = runs[s]
        /\ runs'[r].kind = runs[r].kind /\ runs'[r].run = runs[r].run
        /\ runs'[r].state = runs[r].state /\ runs'[r].terminal
    BY <1>4, <2>1, RecordEnds
  <2>4. runs[r].state = go[n].state
    BY <2>1 DEF AnswersInv, EndsSound, EndsRecorded
  <2> QED BY <1>0, <1>2, <1>3, <2>1, <2>2, <2>3, <2>4 DEF Notes, Released
<1>7. CASE CompactFinish(n)
  <2>1. /\ runs' = [runs EXCEPT ![r].terminal = TRUE, ![r].state = go[n].state]
        /\ ~active' /\ runsFile'.runs \in {runsFile.runs, runs'}
        /\ ~quarantined' => runsFile'.runs = runs'
    <3>1. PersistEnd([runs EXCEPT ![r].terminal = TRUE, ![r].state = go[n].state],
                     go[n].phase = "unjournaled")
      BY <1>7 DEF CompactFinish
    <3> DEFINE rs == [runs EXCEPT ![r].terminal = TRUE, ![r].state = go[n].state]
               lost == go[n].phase = "unjournaled"
    <3>2. PersistEnd(rs, lost) /\ ~active'
      BY <1>7, <3>1 DEF CompactFinish
    <3> HIDE DEF rs, lost
    <3>3. /\ runs' = rs /\ ~active' /\ runsFile'.runs \in {runsFile.runs, runs'}
          /\ ~quarantined' => runsFile'.runs = runs'
      BY <3>2, PersistWrites
    <3> QED BY <3>3 DEF rs
  <2>2. go'[n].phase = "done"
    <3>1. go' = [go EXCEPT ![n].phase = "done"]
      BY <1>7 DEF CompactFinish
    <3>2. go'[n] = [go[n] EXCEPT !.phase = "done"] /\ go[n] \in Goroutine
      BY <3>1 DEF TypeOK
    <3> QED BY <3>2 DEF Goroutine
  <2>3. /\ \A s \in Ids \ {r} : runs'[s] = runs[s]
        /\ runs'[r].kind = runs[r].kind /\ runs'[r].run = runs[r].run
        /\ runs'[r].state = go[n].state /\ runs'[r].terminal
    BY <1>4, <2>1, RecordEnds
  <2> QED BY <1>0, <1>2, <1>3, <2>1, <2>2, <2>3 DEF Notes, Released
<1> QED BY <1>5, <1>6, <1>7

(* A load makes of the files what was said of them. *)
LEMMA LoadKeeps ==
  ASSUME TypeOK, TypeOK', RunsBound, AnswersInv, Load
  PROVE  AnswersInv'
<1>0. /\ AcceptancesSound /\ RecordsSound /\ EndsSound /\ MemorySound /\ AnswersKept
      /\ UNCHANGED <<disk, journal, runsFile, active, current, quarantined, go, nextRun, told>>
      /\ ~live /\ live' /\ runs' = RecoveredRuns /\ ~active /\ \A n \in RunIds : ~Running(n)
  BY DEF AnswersInv, Load, fileVars, goVars, clientVars, RunsBound, Running, Unfinished
<1>1. /\ \A r : Acceptances(r)' = Acceptances(r) /\ RefusedFor(r)' = RefusedFor(r)
      /\ \A m : Terminals(m)' = Terminals(m) /\ (Running(m)' <=> Running(m))
      /\ \A r : DiskRecord(r)' = DiskRecord(r)
  <2>1. \A r : Attached(r)' = Attached(r)
    BY <1>0 DEF Attached, FirstAcceptance, Acceptances
  <2>2. \A rec : Settled(rec)' = Settled(rec)
    BY <1>0 DEF Settled, Terminals
  <2> QED BY <1>0, <2>1, <2>2 DEF Acceptances, RefusedFor, DiskRecord, Running, Terminals
<1>2. AcceptancesSound' /\ EndsJournaled'
  BY <1>0, <1>1 DEF AcceptancesSound, EndsSound, EndsJournaled
<1>3. ASSUME NEW r \in Ids
      PROVE  /\ Justified(runs'[r], r) /\ runs'[r] \in RunRecord
             /\ disk.receipts[r] # "none" => runs'[r] = DiskRecord(r)
             /\ runsFile.runs[r].kind # "none" => runs'[r].kind = runsFile.runs[r].kind
             /\ runs'[r].kind = "compact" => runsFile.runs[r].kind = "compact"
  <2>1. CASE disk.revision = 0
    <3>1. runs'[r] = runsFile.runs[r] /\ disk.receipts[r] = "none"
      BY <1>0, <2>1 DEF RecoveredRuns, RecordsSound
    <3> QED BY <1>0, <3>1 DEF RecordsSound, TypeOK
  <2>2. CASE disk.revision # 0
    <3>1. runs'[r] = DiskRecord(r)
      BY <1>0, <2>2 DEF RecoveredRuns, DiskRecord
    <3> QED BY <1>0, <3>1, DiskRecordIs
  <2> QED BY <2>1, <2>2
<1>4. RecordsSound'
  <2>1. \A m, r : AcceptedIn(m, r)' <=> AcceptedIn(m, r)
    BY <1>0, <1>1 DEF AcceptedIn
  <2>2. ASSUME NEW r \in Ids
        PROVE  Justified(runsFile.runs[r], r)' /\ Justified(runs[r], r)'
    <3>1. PICK a \in RunRecord : a = runs'[r]
      BY <1>3
    <3>2. PICK b \in RunRecord : b = runsFile.runs[r]
      BY DEF TypeOK
    <3>3. Justified(a, r)' /\ Justified(b, r)'
      BY <1>0, <1>3, <2>1, <3>1, <3>2 DEF Justified, RecordsSound
    <3> QED BY <1>0, <3>1, <3>2, <3>3 DEF Justified
  <2> QED BY <1>0, <1>3, <2>2 DEF RecordsSound
<1>5. EndsRecorded'
  <2>1. \A n \in RunIds : ~Running(n)' /\ go'[n].phase # "recorded"
    BY <1>0, <1>1 DEF Running
  <2>2. ASSUME NEW r \in Ids, runs'[r].kind # "none" PROVE ~Running(runs[r].run)'
    <3>1. PICK m \in RunIds : m = runs'[r].run
      BY <1>3, <2>2 DEF Justified
    <3> QED BY <2>1, <3>1 DEF Running
  <2> QED BY <2>1, <2>2 DEF EndsRecorded
<1>6. ASSUME NEW r \in Ids PROVE MemoryAgrees(r)' /\ AnswerKept(r)'
  <2>1. disk.receipts[r] # "none" => runs'[r] = DiskRecord(r)'
    BY <1>1, <1>3
  <2>2. MemoryAgrees(r)'
    BY <1>0, <2>1 DEF MemoryAgrees, Ending
  <2>3. KeptAsReceipt(r) => KeptAsReceipt(r)'
    BY <1>0, <1>1 DEF KeptAsReceipt
  <2>4. ASSUME KeptAsRecord(r) PROVE KeptAsRecord(r)'
    <3>1. /\ disk.receipts[r] # "none" /\ DiskRecord(r).kind = "prompt"
          /\ ~Running(DiskRecord(r).run) /\ Ending(DiskRecord(r)) = told[r]
      BY <2>4 DEF KeptAsRecord
    <3>2. ~Running(DiskRecord(r).run)'
      BY <1>0, <1>1, <3>1 DEF Running
    <3>3. Ending(DiskRecord(r))' = told[r] /\ Ending(runs[r])' = told[r]
      BY <1>1, <2>1, <3>1 DEF Ending
    <3> QED BY <1>0, <1>1, <2>1, <3>1, <3>2, <3>3 DEF KeptAsRecord
  <2> QED BY <1>0, <1>1, <2>2, <2>3, <2>4 DEF AnswersKept, AnswerKept
<1> QED BY <1>2, <1>4, <1>5, <1>6 DEF AnswersInv, EndsSound, MemorySound, AnswersKept

(* An end of the session, orderly or by a crash. *)
Ends ==
  /\ ~live' /\ disk' = disk /\ told' = told /\ runsFile'.runs = runsFile.runs
  /\ \A n \in RunIds : /\ go'[n].kind = go[n].kind /\ go'[n].state = go[n].state
                       /\ go'[n].phase \in {go[n].phase, "done"} /\ ~Running(n)'
  /\ \/ journal' = journal /\ nextRun' = nextRun
     \/ \E r \in Ids : /\ Accepts(r) /\ live /\ runs[r].kind = "none"
                       /\ disk.receipts[r] \in {"none", "queued"}

(* It keeps the answers: they are in the files. *)
LEMMA EndsKeeps ==
  ASSUME TypeOK, TypeOK', AnswersInv, Ends
  PROVE  AnswersInv'
<1>0. /\ AcceptancesSound /\ RecordsSound /\ EndsSound /\ MemorySound /\ AnswersKept
      /\ JournalMoves /\ nextRun' \in {nextRun, nextRun + 1} /\ ~live' /\ disk' = disk
      /\ runsFile'.runs = runsFile.runs /\ told' = told /\ journal \in Seq(Event)
  BY DEF AnswersInv, Ends, JournalMoves, Accepts, TypeOK
<1>1. JournalKept /\ \A m, r : AcceptedIn(m, r) => AcceptedIn(m, r)'
  BY <1>0, MovesKeepJournal
<1>2. /\ \A m : Terminals(m)' = Terminals(m)
      /\ \A r \in Ids : \/ Acceptances(r)' = Acceptances(r)
                        \/ live /\ runs[r].kind = "none" /\ disk.receipts[r] \in {"none", "queued"}
  <2>1. CASE journal' = journal
    BY <2>1 DEF Acceptances, Terminals
  <2>2. ASSUME NEW s \in Ids, Accepts(s), live, runs[s].kind = "none",
               disk.receipts[s] \in {"none", "queued"}
        PROVE  /\ \A m : Terminals(m)' = Terminals(m)
               /\ \A r \in Ids : \/ Acceptances(r)' = Acceptances(r)
                                 \/ /\ live /\ runs[r].kind = "none"
                                    /\ disk.receipts[r] \in {"none", "queued"}
    <3>1. nextRun \in RunIds /\ journal' = Append(journal, AcceptedEvent(nextRun, s))
      BY <2>2 DEF Accepts
    <3>2. (\A m : Terminals(m)' = Terminals(m)) /\ \A r : r # s => Acceptances(r)' = Acceptances(r)
      BY <1>0, <3>1, AcceptanceAppended
    <3> QED BY <2>2, <3>2
  <2> QED BY <2>1, <2>2 DEF Ends
<1>3. AcceptancesSound'
  BY <1>0, AcceptancesStay DEF Ends
<1>4. RecordsSound'
  <2>1. ASSUME NEW r \in Ids PROVE Justified(runsFile.runs[r], r)'
    <3>1. PICK b \in RunRecord : b = runsFile.runs[r]
      BY DEF TypeOK
    <3>2. Justified(b, r)
      BY <1>0, <3>1 DEF RecordsSound
    <3>3. /\ b.kind # "none" => b.run \in RunIds /\ b.run < nextRun'
          /\ b.kind = "prompt" => AcceptedIn(b.run, r)'
      BY <1>0, <3>2, JustifiedStays
    <3>4. AcceptedIn(runsFile.runs[r].run, r)' <=> AcceptedIn(b.run, r)'
      BY <1>0, <3>1 DEF AcceptedIn
    <3> QED BY <1>0, <3>1, <3>3, <3>4 DEF Justified
  <2> QED BY <1>0, <2>1 DEF RecordsSound
<1>5. EndsSound'
  <2>1. EndsJournaled'
    <3> SUFFICES ASSUME NEW n \in RunIds
                 PROVE  /\ go'[n].phase \in {"none", "turn", "unjournaled"} => Terminals(n)' = {}
                        /\ \A i \in Terminals(n)' : journal'[i].state = go'[n].state
      BY DEF EndsJournaled
    <3>1. Terminals(n)' = Terminals(n) /\ Terminals(n) \subseteq DOMAIN journal
      BY <1>2 DEF Terminals
    <3> QED BY <1>0, <1>1, <3>1 DEF Ends, EndsSound, EndsJournaled, JournalKept
  <2>2. \A n \in RunIds : ~Running(n)' /\ go'[n].phase # "recorded"
    BY DEF Ends, Running
  <2> QED BY <1>0, <2>1, <2>2 DEF EndsSound, EndsRecorded
<1>6. MemorySound'
  BY <1>0 DEF MemorySound, MemoryAgrees
<1>7. ASSUME NEW r \in Ids PROVE AnswerKept(r)'
  <2>0. AnswerKept(r)
    BY <1>0 DEF AnswersKept
  <2>1. CASE Acceptances(r)' = Acceptances(r)
    BY <1>0, <1>1, <1>2, <2>0, <2>1, UnloadedAnswer DEF Ends
  <2>2. CASE live /\ runs[r].kind = "none" /\ disk.receipts[r] \in {"none", "queued"}
    <3>1. told[r] \notin FinalView
      BY <1>0, <2>0, <2>2, NewIsUntold
    <3> QED BY <1>0, <3>1 DEF AnswerKept, FinalView
  <2> QED BY <1>2, <2>1, <2>2
<1> QED BY <1>3, <1>4, <1>5, <1>6, <1>7 DEF AnswersInv, AnswersKept

(* Whose acceptance may be cut short: a request that is new, or the dispatched head. *)
LEMMA DispatchedIsQueued ==
  ASSUME TypeOK, QueueInv, WorkerInv, live, worker.pc = "dispatch"
  PROVE  worker.req \in Ids /\ disk.receipts[worker.req] = "queued"
<1>1. worker.req \in Ids /\ queue.items # <<>> /\ Head(queue.items) = worker.req
  BY DEF WorkerInv, WorkerBound, DispatchPinned, HeadIsDispatched
<1>2. disk.items # <<>> /\ Head(disk.items) = worker.req /\ disk.items \in Seq(Ids)
  BY <1>1, MemoryLine DEF QueueInv, SameLine, TypeOK, Document
<1>3. 1 \in DOMAIN disk.items /\ disk.items[1] = worker.req
  BY <1>2
<1>4. worker.req \in Pending(disk)
  BY <1>3 DEF Pending, ToSet
<1> QED BY <1>1, <1>4 DEF QueueInv, Coherent

(* A restart leaves the saved queue and ends every goroutine. *)
LEMMA RestartEnds ==
  ASSUME TypeOK, Restart
  PROVE  /\ ~live' /\ disk' = disk /\ told' = told
         /\ \A n \in RunIds : /\ go'[n].kind = go[n].kind /\ go'[n].state = go[n].state
                              /\ go'[n].phase \in {go[n].phase, "done"} /\ ~Running(n)'
<1>1. ~live' /\ disk' = disk /\ told' = told
  BY DEF Restart, Unload, clientVars
<1>2. ASSUME NEW n \in RunIds
      PROVE  /\ go'[n].kind = go[n].kind /\ go'[n].state = go[n].state
             /\ go'[n].phase \in {go[n].phase, "done"} /\ ~Running(n)'
  <2>1. go[n] \in Goroutine
    BY DEF TypeOK
  <2>2. go'[n] = IF Unfinished(n) THEN [go[n] EXCEPT !.phase = "done"] ELSE go[n]
    BY DEF Restart
  <2>3. CASE Unfinished(n)
    <3>1. go'[n] = [go[n] EXCEPT !.phase = "done"]
      BY <2>2, <2>3
    <3>2. go'[n].phase = "done" /\ go'[n].kind = go[n].kind /\ go'[n].state = go[n].state
      BY <2>1, <3>1 DEF Goroutine
    <3> QED BY <3>2 DEF Running
  <2>4. CASE ~Unfinished(n)
    <3>1. go'[n] = go[n]
      BY <2>2, <2>4
    <3> QED BY <2>4, <3>1 DEF Running, Unfinished
  <2> QED BY <2>3, <2>4
<1> QED BY <1>1, <1>2

(* Evictions and crashes are such ends. *)
LEMMA UnloadsEnd ==
  ASSUME TypeOK, QueueInv, WorkerInv, RunsBound,
         \/ Evict \/ Crash \/ (\E r \in Ids : CrashInAcceptance(r))
         \/ \E n \in RunIds : CrashInRelease(n)
  PROVE  Ends
<1>1. CASE Evict
  <2>1. \A n \in RunIds : ~Running(n)
    BY <1>1 DEF Evict, Idle, Unfinished, Running
  <2>2. UNCHANGED <<disk, journal, runsFile, go, nextRun, told>> /\ ~live'
    BY <1>1 DEF Evict, Unload, fileVars, goVars, clientVars
  <2> QED BY <2>1, <2>2 DEF Ends, Running
<1>2. CASE Crash
  BY <1>2, RestartEnds DEF Crash, Ends
<1>3. ASSUME NEW n \in RunIds, CrashInRelease(n) PROVE Ends
  <2>1. runsFile'.runs = runsFile.runs /\ journal' = journal /\ nextRun' = nextRun /\ Restart
    BY <1>3 DEF CrashInRelease, TypeOK
  <2> QED BY <2>1, RestartEnds DEF Ends
<1>4. ASSUME NEW r \in Ids, CrashInAcceptance(r) PROVE Ends
  <2>1. /\ Restart /\ nextRun \in RunIds /\ nextRun' = nextRun + 1
        /\ journal' = Append(journal, AcceptedEvent(nextRun, r))
        /\ live /\ runs[r].kind = "none"
        /\ (worker.pc = "dispatch" /\ worker.req = r) \/ queue.receipts[r] = "none"
    BY <1>4 DEF CrashInAcceptance, AcceptanceBegins, PromptAllowed
  <2>2. runsFile'.runs = runsFile.runs
    BY <1>4 DEF CrashInAcceptance, FailedRunsFile, TypeOK
  <2>3. queue.receipts = disk.receipts
    BY <2>1, MemoryLine DEF QueueInv, SameLine
  <2>4. disk.receipts[r] \in {"none", "queued"}
    BY <2>1, <2>3, DispatchedIsQueued
  <2>5. go[nextRun].kind = "none"
    <3>1. nextRun \in Nat
      BY <2>1, MaxRunsIsNat DEF RunIds
    <3> QED BY <2>1, <3>1 DEF RunsBound
  <2>6. /\ ~live' /\ disk' = disk /\ told' = told
        /\ \A n \in RunIds : /\ go'[n].kind = go[n].kind /\ go'[n].state = go[n].state
                             /\ go'[n].phase \in {go[n].phase, "done"} /\ ~Running(n)'
    BY <2>1, RestartEnds
  <2>7. Accepts(r)
    BY <2>1, <2>5, <2>6 DEF Accepts
  <2> QED BY <2>1, <2>2, <2>4, <2>6, <2>7 DEF Ends
<1> QED BY <1>1, <1>2, <1>3, <1>4

(* Every step keeps the answers. *)
LEMMA NextKeepsAnswers ==
  ASSUME IInv, TypeOK', LineInv, AnswersInv, [Next]_vars
  PROVE  AnswersInv'
<1>0. /\ TypeOK /\ RunsBound /\ RunningIsCurrent /\ RunsRemembered /\ DurableBeforeExecution
      /\ WorkerInv /\ QueueInv /\ Coherent(disk) /\ MemoryMatchesDisk
  BY LineInvParts DEF IInv, QueueInv, WorkerInv
<1>1. QueueStep
  BY <1>0, NextSaves
<1>2. /\ \A r \in Ids : ReceiptMoves(r)
      /\ disk'.revision = 0 => disk' = disk
      /\ ~live => disk' = disk
  BY <1>0, <1>1, StepMovesReceipts
<1>3. live /\ live' /\ ~quarantined' => ~quarantined
  BY QuarantineStays
<1>4. ASSUME Quiet PROVE AnswersInv'
  <2>1. live' = live
    BY <1>4 DEF Quiet
  <2>2. /\ AcceptancesSound' /\ RecordsSound' /\ EndsSound' /\ MemorySound'
        /\ \A r \in Ids : told'[r] = told[r] => AnswerKept(r)'
    BY <1>0, <1>2, <1>3, <1>4, <2>1, QuietKeeps
  <2>3. ASSUME NEW r \in Ids, told'[r] # told[r] PROVE AnswerKept(r)'
    <3>1. PICK q \in Watched : ReadReceipt(q)
      BY <2>3, OnlyReadsTell
    <3>2. q = r
      BY <2>3, <3>1 DEF ReadReceipt, TypeOK
    <3> QED BY <1>0, <3>1, <3>2, ReadIsKept DEF AnswersInv
  <2> QED BY <2>2, <2>3 DEF AnswersInv, AnswersKept
<1>5. ASSUME NEW r \in Ids, Takes(r), RunIsNew(r) PROVE AnswersInv'
  <2>1. ~quarantined' => ~quarantined
    BY <1>3, <1>5 DEF Takes
  <2> QED BY <1>0, <1>5, <2>1, TakesKeeps
<1>6. CASE OtherHandler /\ ~Cancel
  <2>1. ASSUME NEW r \in PromptIds, NEW b \in Bodies, Prompt(r, b) PROVE AnswersInv'
    <3>1. /\ r \in Ids /\ StartRun(r, b) /\ live /\ live' = live /\ disk' = disk /\ told' = told
          /\ ~active /\ runs[r].kind = "none" /\ queue.receipts[r] = "none"
      BY <2>1 DEF Prompt, PromptAllowed, Ids, clientVars
    <3>2. disk.receipts[r] = "none"
      BY <1>0, <3>1, MemoryLine DEF SameLine
    <3> QED BY <1>0, <1>5, <3>1, <3>2, StartTakes
  <2>2. ASSUME NEW c \in CompactIds, Compact(c) PROVE AnswersInv'
    BY <1>0, <1>5, <2>2, CompactTakes DEF Ids
  <2> QED BY <1>6, <2>1, <2>2 DEF OtherHandler
<1>7. CASE WorkerStep /\ worker.pc = "dispatch" /\ DispatchStarts
  <2>1. /\ StartRun(worker.req, worker.body) /\ live' = live /\ disk' = disk /\ told' = told
        /\ ~active /\ runs[worker.req].kind = "none" /\ live
    BY <1>0, <1>7 DEF WorkerStep, WorkerLoop, WorkerDispatch, WorkerSettle, WorkerExit,
      DispatchStarts, clientVars, WorkerInv, WorkerBound
  <2>2. worker.req \in Ids /\ disk.receipts[worker.req] = "queued"
    BY <1>0, <1>7, <2>1, DispatchedIsQueued
  <2> QED BY <1>0, <1>5, <2>1, <2>2, StartTakes
<1>8. ASSUME NEW n \in RunIds, RunStep(n), ~RunTail(n) PROVE AnswersInv'
  <2>1. live /\ live' = live
    BY <1>0, <1>8 DEF RunStep, TurnEnds, RecordState, Release, CompactFinish, rtVars,
      RunsBound, Unfinished
  <2>2. ~quarantined' => ~quarantined
    BY <1>3, <2>1
  <2>3. CASE TurnEnds(n)
    BY <1>0, <2>2, <2>3, TurnEndsKeeps
  <2>4. CASE RecordState(n) \/ Release(n) \/ CompactFinish(n)
    BY <1>0, <2>2, <2>4, RunStepNotes, NotesKeeps
  <2> QED BY <1>8, <2>3, <2>4 DEF RunStep
<1>9. CASE Load
  BY <1>0, <1>9, LoadKeeps
<1>10. CASE \/ Evict \/ Crash \/ (\E r \in Ids : CrashInAcceptance(r))
            \/ \E n \in RunIds : CrashInRelease(n)
  <2>1. Ends
    BY <1>0, <1>10, UnloadsEnd
  <2> QED BY <1>0, <2>1, EndsKeeps
<1>11. CASE \/ QueueHandler \/ Cancel \/ ShutDown \/ CloseSession \/ UNCHANGED vars
            \/ WorkerStep /\ ~(worker.pc = "dispatch" /\ DispatchStarts)
            \/ \E n \in RunIds : RunTail(n)
  BY <1>0, <1>4, <1>11, QuietSteps
<1> QED BY <1>6, <1>7, <1>8, <1>9, <1>10, <1>11 DEF Next, Environment

(* At the start nothing was said. *)
LEMMA InitAnswersInv == Init => AnswersInv
<1> SUFFICES ASSUME Init PROVE AnswersInv
  OBVIOUS
<1>1. /\ journal = <<>> /\ ~live /\ go = [n \in RunIds |-> NoGoroutine]
      /\ disk = NoDocument /\ runsFile = SavedRuns(NoRecords) /\ told = [r \in Ids |-> "none"]
  BY DEF Init
<1>2. /\ \A n \in RunIds : go[n].phase = "none"
      /\ \A r \in Ids : disk.receipts[r] = "none" /\ runsFile.runs[r].kind = "none"
  BY <1>1 DEF NoGoroutine, NoDocument, SavedRuns, NoRecords, NoRecord
<1>3. DOMAIN journal = {} /\ \A n : Terminals(n) = {}
  BY <1>1 DEF Terminals
<1>4. AcceptancesSound /\ RecordsSound
  BY <1>1, <1>2, <1>3 DEF AcceptancesSound, RecordsSound, Justified
<1>5. EndsSound /\ MemorySound
  BY <1>1, <1>2, <1>3 DEF EndsSound, EndsJournaled, EndsRecorded, Running, MemorySound, MemoryAgrees
<1>6. AnswersKept
  BY <1>1 DEF AnswersKept, AnswerKept, FinalView
<1> QED BY <1>4, <1>5, <1>6 DEF AnswersInv

(* What the files and memory say of each request whose fate a client was told.         *)
THEOREM AnswersInvHolds == Spec => []AnswersInv
<1>1. Init => AnswersInv
  BY InitAnswersInv
<1>2. IInv /\ IInv' /\ LineInv /\ AnswersInv /\ [Next]_vars => AnswersInv'
  BY NextKeepsAnswers DEF IInv
<1> QED BY <1>1, <1>2, InvariantHolds, LineInvHolds, PTL DEF Spec

(* What the server has said of a queue stays true, over every eviction, crash and        *)
(* failed write: clients see the saved line, a revision names one list of items, and a     *)
(* final receipt is never taken back.                                                        *)
THEOREM AnswersAlwaysHold == Spec => []AnswersHold
<1>1. IInv /\ LineInv /\ AnswersInv => MemoryMatchesDisk /\ FinalReceiptsStay
  BY KeptAnswersHold DEF IInv, LineInv, AnswersInv
<1> QED BY <1>1, InvariantHolds, LineInvHolds, AnswersInvHolds, RevisionsNameLines, PTL
     DEF AnswersHold

=============================================================================
