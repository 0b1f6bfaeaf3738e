---------------------------- MODULE SessionQueue ----------------------------
(***************************************************************************)
(* One backend session: its persistent prompt queue, the worker that       *)
(* dispatches it, run acceptance, compaction, and what survives a crash.   *)
(*                                                                         *)
(* Source: internal/backend/queue.go, run_start.go, compact.go, wake of    *)
(* the worker through rt.changed, executeRun's end and the reaper.         *)
(*                                                                         *)
(* Every action below is one critical section of rt.mu (or the part of a   *)
(* goroutine between two of them), so the interleavings of the actions are *)
(* the interleavings of HTTP handlers, the queue worker, run goroutines,   *)
(* the idle reaper, shutdown and a process crash.                          *)
(***************************************************************************)
EXTENDS Integers, Sequences, FiniteSets, SequencesExt

CONSTANTS
  QueueIds,       (* client_request_ids that clients POST to /queue          *)
  PromptIds,      (* client_request_ids that clients POST to /runs           *)
  CompactIds,     (* client_request_ids that clients POST to /compact        *)
  Bodies,         (* request payloads, the abstraction of prompt and hash    *)
  Outcomes,       (* the terminal states a turn may end in                   *)
  Watched,        (* client_request_ids whose receipts clients read          *)
  None,           (* the empty client_request_id, and no payload             *)
  MaxItems,       (* maxQueueItems: items plus open edits                    *)
  MaxReceipts,    (* maxQueueReceipts: identities the queue remembers        *)
  MaxRevision,    (* bound: client operations stop at this queue revision    *)
  MaxBoots,       (* bound: number of process crashes and restarts           *)
  MaxFaults       (* bound: number of failing writes                         *)

Ids == QueueIds \cup PromptIds \cup CompactIds

ASSUME IdsAssumption == None \notin Ids /\ None \notin Bodies
ASSUME FiniteAssumption == IsFiniteSet(Ids)
ASSUME OutcomesAssumption == Outcomes \subseteq {"completed", "failed", "cancelled"}
ASSUME BoundsAssumption ==
  /\ MaxItems \in Nat /\ MaxReceipts \in Nat /\ MaxRevision \in Nat
  /\ MaxBoots \in Nat /\ MaxFaults \in Nat

(* Run ids (newRunID) are numbers here.  A request consumes one run id, and *)
(* one more only if a crash or a failed write aborted its acceptance, so    *)
(* this many never run out.                                                 *)
MaxRuns == Cardinality(Ids) + MaxBoots + MaxFaults
RunIds == 1..MaxRuns

VARIABLES
  (* On disk. *)
  disk,         (* <id>.queue.json; revision 0 stands for "no file"          *)
  journal,      (* <id>.jsonl, its run.accepted and terminal events          *)
  runsFile,     (* <id>.runs.json; torn when a write of it was cut short     *)
  (* The runtimeSession, meaningful while live. *)
  live,         (* the session is in Server.sessions                         *)
  queue,        (* rt.queue                                                  *)
  runs,         (* rt.runs                                                   *)
  active,       (* rt.cancel # nil and not rt.runDone                        *)
  current,      (* rt.runID                                                  *)
  quarantined,  (* rt.runtimeErr # nil                                       *)
  dispatch,     (* rt.queueDispatchID                                        *)
  worker,       (* the queue worker goroutine and its local variables        *)
  go,           (* the run goroutines, by run id                             *)
  nextRun,      (* the next unused run id                                    *)
  shutting,     (* s.shuttingDown                                            *)
  closing,      (* rt.closing and s.closed, set by Server.Close              *)
  (* What clients hold. *)
  seen,         (* the last queue snapshot a client read                     *)
  told,         (* the last receipt a client read, by request id             *)
  (* Bounds. *)
  boots, faults

fileVars   == <<disk, journal, runsFile>>
rtVars     == <<live, queue, runs, active, current, quarantined>>
workVars   == <<dispatch, worker>>
goVars     == <<go, nextRun>>
serverVars == <<shutting, closing>>
clientVars == <<seen, told>>
vars == <<fileVars, rtVars, workVars, goVars, serverVars, clientVars, boots, faults>>

-----------------------------------------------------------------------------
(* Documents and records. *)

Receipt == {"none", "queued", "accepted", "failed", "cancelled"}
NotEditing == 0

(* queueDocument.  edits[r] is the 1-based Index of an open edit of r's      *)
(* entry; body[r] is the entry's current payload, hash[r] the submitted one. *)
Document ==
  [items: Seq(Ids), edits: [Ids -> Nat], receipts: [Ids -> Receipt],
   hash: [Ids -> Bodies \cup {None}], body: [Ids -> Bodies \cup {None}],
   revision: Nat, paused: BOOLEAN]

NoDocument ==
  [items |-> <<>>, edits |-> [r \in Ids |-> NotEditing],
   receipts |-> [r \in Ids |-> "none"], hash |-> [r \in Ids |-> None],
   body |-> [r \in Ids |-> None], revision |-> 0, paused |-> FALSE]

RunState == {"", "completed", "failed", "cancelled"}

(* runRecord, as kept in rt.runs and runs.json. *)
RunRecord ==
  [kind: {"none", "prompt", "compact"}, run: 0..MaxRuns, hash: Bodies \cup {None},
   terminal: BOOLEAN, state: RunState]
NoRecord == [kind |-> "none", run |-> 0, hash |-> None, terminal |-> FALSE, state |-> ""]
NoRecords == [r \in Ids |-> NoRecord]

Event == [type: {"accepted", "terminal"}, run: RunIds, req: Ids, state: RunState]
AcceptedEvent(n, r) == [type |-> "accepted", run |-> n, req |-> r, state |-> ""]
TerminalEvent(n, r, s) == [type |-> "terminal", run |-> n, req |-> r, state |-> s]

(* A run goroutine: executing its turn, ended (terminal event written, or    *)
(* lost to a failed write), recorded (state copied to rt.runs), in its tail  *)
(* after the run was released, or done.                                      *)
Phase == {"none", "turn", "ended", "unjournaled", "recorded", "tail", "done"}
Goroutine ==
  [phase: Phase, kind: {"none", "prompt", "compact"}, req: Ids \cup {None},
   body: Bodies \cup {None}, cancelled: BOOLEAN, state: RunState]
NoGoroutine ==
  [phase |-> "none", kind |-> "none", req |-> None, body |-> None,
   cancelled |-> FALSE, state |-> ""]

Worker ==
  [pc: {"off", "loop", "waiting", "dispatch", "settle", "exit"},
   req: Ids \cup {None}, body: Bodies \cup {None}, outcome: {"", "ok", "busy", "failed"}]
NoWorker == [pc |-> "off", req |-> None, body |-> None, outcome |-> ""]

ReceiptView == Receipt \cup {"running", "interrupted"} \cup RunState
Snapshot == [revision: Nat, items: Seq(Ids)]

Running(n) == go[n].phase \in {"turn", "ended", "unjournaled", "recorded"}
Unfinished(n) == go[n].phase \notin {"none", "done"}
Editing(q) == {r \in Ids : q.edits[r] # NotEditing}
Pending(q) == ToSet(q.items) \cup Editing(q)
Receipts(q) == {r \in Ids : q.receipts[r] # "none"}

-----------------------------------------------------------------------------
(* Shared steps. *)

(* A write to the session's files succeeds, or fails within the bound. *)
Write(ok) ==
  /\ ok \/ faults < MaxFaults
  /\ faults' = IF ok THEN faults ELSE faults + 1

(* Closing rt.changed wakes a worker that waits on it. *)
Woken(w) == IF w.pc = "waiting" THEN [w EXCEPT !.pc = "loop"] ELSE w

(* startQueueWorkerLocked, with the queue and quarantine of the next state. *)
Started(w, q, bad) ==
  IF w.pc = "off" /\ ~q.paused /\ q.items # <<>> /\ ~closing /\ ~shutting /\ ~bad
  THEN [w EXCEPT !.pc = "loop"] ELSE w

CancelRun(goroutines) ==
  IF active THEN [goroutines EXCEPT ![current].cancelled = TRUE] ELSE goroutines

(* queueReceiptLocked. *)
View(r) ==
  LET rec == runs[r] IN
  IF queue.receipts[r] = "none" \/ rec.kind = "none" THEN queue.receipts[r]
  ELSE IF rec.terminal THEN rec.state
  ELSE IF ~active \/ rec.run # current THEN "interrupted" ELSE "running"

(* handleQueue's checks before it changes anything. *)
OpenDuringDispatch == live /\ ~closing /\ ~shutting /\ ~quarantined
QueueOpen == live /\ ~closing /\ ~shutting /\ ~quarantined /\ dispatch = None

(* saveQueueLocked, publishQueueLocked, the interrupt, startQueueWorkerLocked. *)
(* A failed save answers an error and leaves the queue as it was.              *)
Commit(next, interrupt) ==
  \/ /\ Write(FALSE)
     /\ UNCHANGED <<fileVars, rtVars, workVars, goVars>>
  \/ \E published \in BOOLEAN :
       /\ Write(published)
       /\ disk' = next
       /\ queue' = next
       /\ quarantined' = ~published
       /\ go' = IF interrupt THEN CancelRun(go) ELSE go
       /\ worker' = Started(Woken(worker), next, ~published)
       /\ UNCHANGED <<journal, runsFile, live, runs, active, current, dispatch, nextRun>>

-----------------------------------------------------------------------------
(* Queue handlers: POST /queue and POST /queue/actions. *)

(* Submit appends, or puts an interrupting request at the head and stops the  *)
(* current run unless the queue is paused.                                     *)
Enqueued(q, r, b, interrupt) ==
  [q EXCEPT !.items = IF interrupt THEN <<r>> \o @ ELSE Append(@, r),
            !.receipts[r] = "queued", !.hash[r] = b, !.body[r] = b,
            !.revision = @ + 1]

HasRoom(q) ==
  /\ Len(q.items) + Cardinality(Editing(q)) < MaxItems
  /\ Cardinality(Receipts(q)) < MaxReceipts

Submit(r, b, interrupt) ==
  /\ QueueOpen
  /\ queue.receipts[r] = "none"
  /\ runs[r].kind = "none"
  /\ HasRoom(queue)
  /\ queue.revision < MaxRevision
  /\ Commit(Enqueued(queue, r, b, interrupt), interrupt /\ ~queue.paused)
  /\ UNCHANGED <<serverVars, clientVars, boots>>

(* queueActionLocked applies an action only at the revision the client names. *)
Action(next, interrupt) ==
  /\ QueueOpen
  /\ seen.revision = queue.revision
  /\ queue.revision < MaxRevision
  /\ Commit([next EXCEPT !.revision = @ + 1], interrupt)
  /\ UNCHANGED <<serverVars, clientVars, boots>>

PauseQueue == Action([queue EXCEPT !.paused = TRUE], FALSE)
ResumeQueue == Action([queue EXCEPT !.paused = FALSE], FALSE)

(* edit_begin takes the entry out of the line and remembers its place. *)
EditBegin(i) ==
  /\ i \in DOMAIN queue.items
  /\ Action([queue EXCEPT !.items = RemoveAt(@, i), !.edits[queue.items[i]] = i], FALSE)

(* edit_cancel and edit_commit put it back there, or at the end. *)
Reinserted(q, r, b) ==
  LET pos == IF q.edits[r] <= Len(q.items) THEN q.edits[r] ELSE Len(q.items) + 1
  IN [q EXCEPT !.items = InsertAt(@, pos, r), !.edits[r] = NotEditing, !.body[r] = b]

EditEnd(r, b) ==
  /\ r \in Editing(queue)
  /\ Action(Reinserted(queue, r, b), FALSE)

Moved(items, i, j) == [items EXCEPT ![i] = items[j], ![j] = items[i]]
Move(i, j) ==
  /\ i \in DOMAIN queue.items
  /\ j \in DOMAIN queue.items \cap {i - 1, i + 1}
  /\ Action([queue EXCEPT !.items = Moved(@, i, j)], FALSE)

(* remove keeps the receipt, as cancelled, so the id stays used. *)
RemovedKeepingReceipt(q, i) == [q EXCEPT !.items = RemoveAt(@, i)]
RemovedForgotten(q, i) ==
  [q EXCEPT !.items = RemoveAt(@, i), !.receipts[q.items[i]] = "none"]
Removed(q, i) ==
  [q EXCEPT !.items = RemoveAt(@, i), !.receipts[q.items[i]] = "cancelled"]
RemoveItem(i) ==
  /\ i \in DOMAIN queue.items
  /\ Action(Removed(queue, i), FALSE)

RunNow(i) ==
  /\ i \in DOMAIN queue.items
  /\ Action([queue EXCEPT !.items = <<queue.items[i]>> \o RemoveAt(@, i), !.paused = FALSE], TRUE)

-----------------------------------------------------------------------------
(* Run acceptance: startCanonicalRun from its last check on.  The run is       *)
(* journaled, recorded in rt.runs and in runs.json, and only then executed;    *)
(* a failed write quarantines the session and the run never executes.          *)
Execute(r, b, k) ==
  go' = [go EXCEPT ![nextRun] =
           [NoGoroutine EXCEPT !.phase = "turn", !.kind = k, !.req = r, !.body = b]]

Recorded(r, b) ==
  [runs EXCEPT ![r] = [NoRecord EXCEPT !.kind = "prompt", !.run = nextRun, !.hash = b]]

(* persistRuns rewrites runs.json in place: a failed write may leave it torn. *)
FailedRunsFile == {runsFile, [runsFile EXCEPT !.torn = TRUE]}
SavedRuns(rs) == [torn |-> FALSE, runs |-> rs]

(* Executing before runs.json, or before the journal, holds the acceptance. *)
AcceptUnrecorded(r, b) ==
  /\ Write(TRUE)
  /\ journal' = Append(journal, AcceptedEvent(nextRun, r))
  /\ runs' = Recorded(r, b)
  /\ Execute(r, b, "prompt")
  /\ active' = TRUE
  /\ UNCHANGED <<quarantined, runsFile>>

Accept(r, b) ==
  /\ Write(TRUE)
  /\ journal' = Append(journal, AcceptedEvent(nextRun, r))
  /\ runs' = Recorded(r, b)
  /\ runsFile' = SavedRuns(runs')
  /\ Execute(r, b, "prompt")
  /\ active' = TRUE
  /\ UNCHANGED quarantined

AbortAcceptance(r, b) ==
  /\ Write(FALSE)
  /\ \/ \* run.accepted was not written, or the user message was not
        /\ journal' \in {journal, Append(journal, AcceptedEvent(nextRun, r))}
        /\ UNCHANGED <<runs, runsFile>>
     \/ \* runs.json was not written
        /\ journal' = Append(journal, AcceptedEvent(nextRun, r))
        /\ runs' = Recorded(r, b)
        /\ runsFile' \in FailedRunsFile
  /\ active' = FALSE
  /\ quarantined' = TRUE
  /\ UNCHANGED go

StartRun(r, b) ==
  /\ nextRun \in RunIds
  /\ Accept(r, b) \/ AbortAcceptance(r, b)
  /\ current' = nextRun
  /\ nextRun' = nextRun + 1

(* Weaker tests: edits not counted as waiting work, receipts not looked at. *)
PromptAllowedWhileEditing(r) ==
  /\ runs[r].kind = "none"
  /\ queue.items = <<>>
  /\ queue.receipts[r] = "none"

(* An immediate run may not overtake queued work nor reuse a queued identity. *)
PromptAllowed(r) ==
  /\ runs[r].kind = "none"
  /\ Pending(queue) = {}
  /\ queue.receipts[r] = "none"

(* POST /runs, and the runs the backend starts itself (goal, wake, cron). *)
Prompt(r, b) ==
  /\ live /\ ~closing /\ ~shutting /\ ~quarantined
  /\ PromptAllowed(r)
  /\ ~active
  /\ StartRun(r, b)
  /\ worker' = Woken(worker)
  /\ UNCHANGED <<disk, live, queue, dispatch, serverVars, clientVars, boots>>

-----------------------------------------------------------------------------
(* The queue worker: startQueueWorkerLocked's goroutine. *)

WorkerMustStop ==
  closing \/ shutting \/ quarantined \/ queue.paused \/ queue.items = <<>>

(* It takes the head entry and releases rt.mu; a request that already has a  *)
(* run is attached to it instead of being started.                            *)
WorkerLoop ==
  /\ worker.pc = "loop"
  /\ IF WorkerMustStop THEN
       /\ worker' = [worker EXCEPT !.pc = "exit"]
       /\ UNCHANGED dispatch
     ELSE IF active THEN
       /\ worker' = [worker EXCEPT !.pc = "waiting"]
       /\ UNCHANGED dispatch
     ELSE LET r == Head(queue.items) IN
       /\ dispatch' = r
       /\ worker' = [pc |-> IF runs[r].kind = "none" THEN "dispatch" ELSE "settle",
                     req |-> r, body |-> queue.body[r], outcome |-> "ok"]
  /\ UNCHANGED <<fileVars, rtVars, goVars, serverVars, clientVars, boots, faults>>

(* startCanonicalRun for the entry the worker copied: its answer when it starts *)
(* no run, in the order of its checks; the last "failed" is a refused model,    *)
(* option or setting.                                                           *)
Answer(r, b) ==
  IF closing \/ shutting \/ quarantined THEN "failed"
  ELSE IF runs[r].kind # "none" THEN
    (IF runs[r].kind = "prompt" /\ runs[r].hash = b THEN "ok" ELSE "failed")
  ELSE IF active THEN "busy" ELSE "failed"

DispatchStarts ==
  /\ ~closing /\ ~shutting /\ ~quarantined
  /\ runs[worker.req].kind = "none"
  /\ ~active
  /\ StartRun(worker.req, worker.body)
  /\ UNCHANGED <<disk, live, queue>>

WorkerDispatch ==
  /\ worker.pc = "dispatch"
  /\ \/ /\ worker' = [worker EXCEPT !.pc = "settle",
                                    !.outcome = Answer(worker.req, worker.body)]
        /\ UNCHANGED <<fileVars, rtVars, goVars, faults>>
     \/ /\ DispatchStarts
        /\ worker' = [worker EXCEPT !.pc = "settle",
                                    !.outcome = IF quarantined' THEN "failed" ELSE "ok"]
  /\ UNCHANGED <<dispatch, serverVars, clientVars, boots>>

(* Wrong receipts. *)
PoppedRaw(q, r, outcome) ==
  [q EXCEPT !.items = Tail(@), !.revision = @ + 1, !.receipts[r] = outcome]

(* Back under rt.mu: the entry leaves the queue with its receipt, unless the  *)
(* session was busy after all, is closing or is quarantined.                   *)
Popped(q, r, outcome) ==
  [q EXCEPT !.items = Tail(@), !.revision = @ + 1,
            !.receipts[r] = IF outcome = "ok" THEN "accepted" ELSE "failed"]

HeadIsDispatched == queue.items # <<>> /\ Head(queue.items) = worker.req

Pop ==
  \/ \E published \in BOOLEAN :
       /\ HeadIsDispatched
       /\ Write(published)
       /\ queue' = Popped(queue, worker.req, worker.outcome)
       /\ disk' = queue'
       /\ quarantined' = ~published
       /\ worker' = [worker EXCEPT !.pc = "loop"]
  \/ \* the dispatch identity changed, or the save failed
     /\ (~HeadIsDispatched /\ UNCHANGED faults) \/ (HeadIsDispatched /\ Write(FALSE))
     /\ quarantined' = TRUE
     /\ worker' = [worker EXCEPT !.pc = "exit"]
     /\ UNCHANGED <<disk, queue>>

(* Fault: a worker whose dispatch found the session busy sleeps without looking *)
(* whether it still is.                                                            *)
WorkerSettleSleeping ==
  /\ worker.pc = "settle"
  /\ dispatch' = None
  /\ IF worker.outcome = "busy" \/ closing \/ shutting \/ quarantined THEN
       /\ worker' = [worker EXCEPT !.pc = IF worker.outcome = "busy" THEN "waiting" ELSE "exit"]
       /\ UNCHANGED <<disk, queue, quarantined, faults>>
     ELSE Pop
  /\ UNCHANGED <<journal, runsFile, live, runs, active, current, goVars,
                 serverVars, clientVars, boots>>

WorkerSettle ==
  /\ worker.pc = "settle"
  /\ dispatch' = None
  /\ IF worker.outcome = "busy" \/ closing \/ shutting \/ quarantined THEN
       /\ worker' = [worker EXCEPT !.pc = IF worker.outcome = "busy" THEN "loop" ELSE "exit"]
       /\ UNCHANGED <<disk, queue, quarantined, faults>>
     ELSE Pop
  /\ UNCHANGED <<journal, runsFile, live, runs, active, current, goVars,
                 serverVars, clientVars, boots>>

(* The deferred end of the worker hands over to a new one if work arrived. *)
WorkerExit ==
  /\ worker.pc = "exit"
  /\ dispatch' = None
  /\ worker' = Started(NoWorker, queue, quarantined)
  /\ UNCHANGED <<fileVars, rtVars, goVars, serverVars, clientVars, boots, faults>>

-----------------------------------------------------------------------------
(* A run goroutine: executeRun's end, then the tail of startCanonicalRun.     *)

(* The terminal event is written; its failure is noticed only under the next  *)
(* lock, in RecordState.                                                       *)
TurnEnds(n) ==
  /\ go[n].phase = "turn"
  /\ \E ok \in BOOLEAN, state \in Outcomes :
       /\ Write(ok)
       /\ journal' = IF ok THEN Append(journal, TerminalEvent(n, go[n].req, state)) ELSE journal
       /\ go' = [go EXCEPT ![n].phase = IF ok THEN "ended" ELSE "unjournaled",
                           ![n].state = state]
       /\ worker' = IF ok THEN Woken(worker) ELSE worker
  /\ UNCHANGED <<disk, runsFile, rtVars, dispatch, nextRun, serverVars, clientVars, boots>>

RecordState(n) ==
  /\ go[n].phase \in {"ended", "unjournaled"}
  /\ go[n].kind = "prompt"
  /\ quarantined' = (quarantined \/ go[n].phase = "unjournaled")
  /\ runs' = [runs EXCEPT ![go[n].req].state = go[n].state]
  /\ go' = [go EXCEPT ![n].phase = "recorded"]
  /\ UNCHANGED <<fileVars, live, queue, active, current, workVars, nextRun, serverVars,
                 clientVars, boots, faults>>

(* persistRuns at the end of a run or compaction. *)
PersistEnd(rs, lost) ==
  /\ runs' = rs
  /\ \E ok \in BOOLEAN :
       /\ Write(ok)
       /\ quarantined' = (quarantined \/ lost \/ ~ok)
       /\ IF ok THEN runsFile' = SavedRuns(rs) ELSE runsFile' \in FailedRunsFile

ReleaseWithoutWake(n) ==
  /\ go[n].phase = "recorded"
  /\ PersistEnd([runs EXCEPT ![go[n].req].terminal = TRUE], FALSE)
  /\ active' = FALSE
  /\ go' = [go EXCEPT ![n].phase = "tail"]
  /\ UNCHANGED <<disk, journal, live, queue, current, workVars, nextRun, serverVars,
                 clientVars, boots>>

(* executeRun's deferred function: the session is idle again and rt.changed    *)
(* is closed.                                                                   *)
Release(n) ==
  /\ go[n].phase = "recorded"
  /\ PersistEnd([runs EXCEPT ![go[n].req].terminal = TRUE], FALSE)
  /\ active' = FALSE
  /\ worker' = Woken(worker)
  /\ go' = [go EXCEPT ![n].phase = "tail"]
  /\ UNCHANGED <<disk, journal, live, queue, current, dispatch, nextRun, serverVars,
                 clientVars, boots>>

RunTail(n) ==
  /\ go[n].phase = "tail"
  /\ worker' = Started(worker, queue, quarantined)
  /\ go' = [go EXCEPT ![n].phase = "done"]
  /\ UNCHANGED <<fileVars, rtVars, dispatch, nextRun, serverVars, clientVars, boots, faults>>

(* POST /runs/{id}/cancel and POST /close; a queued request is not touched.     *)
Cancel ==
  /\ live /\ active
  /\ go' = CancelRun(go)
  /\ UNCHANGED <<fileVars, rtVars, workVars, nextRun, serverVars, clientVars, boots, faults>>

-----------------------------------------------------------------------------
(* Compaction takes the session like a run.  It looks at rt.runs for its id,   *)
(* not at the queue's receipts, and runs.json is written before the journal.   *)
CompactRecord == [NoRecord EXCEPT !.kind = "compact", !.run = nextRun]

Compact(c) ==
  /\ live /\ ~closing /\ ~shutting /\ ~active /\ ~quarantined
  /\ runs[c].kind = "none"
  /\ nextRun \in RunIds
  /\ current' = nextRun
  /\ nextRun' = nextRun + 1
  /\ \/ \* started
        /\ Write(TRUE)
        /\ runs' = [runs EXCEPT ![c] = CompactRecord]
        /\ runsFile' = SavedRuns(runs')
        /\ active' = TRUE
        /\ Execute(c, None, "compact")
        /\ UNCHANGED quarantined
     \/ \* runs.json was not written: the request is forgotten
        /\ Write(FALSE)
        /\ runsFile' \in FailedRunsFile
        /\ active' = FALSE
        /\ UNCHANGED <<runs, go, quarantined>>
     \/ \* the start event was not written: only finishCompaction is left to do
        /\ Write(FALSE)
        /\ runs' = [runs EXCEPT ![c] = CompactRecord]
        /\ runsFile' = SavedRuns(runs')
        /\ active' = TRUE
        /\ go' = [go EXCEPT ![nextRun] = [NoGoroutine EXCEPT
                    !.phase = "ended", !.kind = "compact", !.req = c, !.state = "failed"]]
        /\ UNCHANGED quarantined
  /\ worker' = Woken(worker)
  /\ UNCHANGED <<disk, journal, live, queue, dispatch, serverVars, clientVars, boots>>

(* finishCompaction wakes a waiting worker but starts none. *)
CompactFinish(n) ==
  /\ go[n].kind = "compact" /\ go[n].phase \in {"ended", "unjournaled"}
  /\ PersistEnd([runs EXCEPT ![go[n].req].terminal = TRUE, ![go[n].req].state = go[n].state],
                go[n].phase = "unjournaled")
  /\ active' = FALSE
  /\ worker' = Woken(worker)
  /\ go' = [go EXCEPT ![n].phase = "done"]
  /\ UNCHANGED <<disk, journal, live, queue, current, dispatch, nextRun, serverVars,
                 clientVars, boots>>

-----------------------------------------------------------------------------
(* Loading, eviction, shutdown and crashes. *)

(* The checks loadQueueLocked makes before it accepts a document. *)
Loadable(q) ==
  /\ Len(q.items) + Cardinality(Editing(q)) <= MaxItems
  /\ Cardinality(Receipts(q)) <= MaxReceipts
  /\ IsInjective(q.items)
  /\ ToSet(q.items) \cap Editing(q) = {}
  /\ \A r \in Pending(q) : q.receipts[r] # "none"

(* recoverQueueAcceptancesLocked: an acceptance that reached the journal but   *)
(* not runs.json is attached to its queued request; the first one counts.       *)
Acceptances(r) == {i \in DOMAIN journal : journal[i].type = "accepted" /\ journal[i].req = r}
FirstAcceptance(r) == journal[CHOOSE i \in Acceptances(r) : \A j \in Acceptances(r) : i <= j].run
Attached(r) ==
  IF runsFile.runs[r].kind = "none" /\ disk.receipts[r] # "none" /\ Acceptances(r) # {}
  THEN [NoRecord EXCEPT !.kind = "prompt", !.run = FirstAcceptance(r)]
  ELSE runsFile.runs[r]

(* ...and terminal events settle the records of the runs they name. *)
Terminals(n) == {i \in DOMAIN journal : journal[i].type = "terminal" /\ journal[i].run = n}
Settled(rec) ==
  IF rec.kind # "none" /\ Terminals(rec.run) # {}
  THEN LET i == CHOOSE i \in Terminals(rec.run) : \A j \in Terminals(rec.run) : i >= j
       IN [rec EXCEPT !.terminal = TRUE, !.state = journal[i].state]
  ELSE rec

RecoveredRuns ==
  IF disk.revision = 0 THEN runsFile.runs ELSE [r \in Ids |-> Settled(Attached(r))]

LoadedWithoutEdits ==
  [disk EXCEPT !.paused = disk.revision # 0, !.edits = [r \in Ids |-> NotEditing]]

(* A queue document that exists is loaded paused. *)
LoadedQueue == [disk EXCEPT !.paused = disk.revision # 0]

(* loadRuntime: any request for the session while it is not in memory. *)
Load ==
  /\ ~live /\ ~closing
  /\ ~runsFile.torn /\ Loadable(disk)
  /\ live' = TRUE
  /\ queue' = LoadedQueue
  /\ runs' = RecoveredRuns
  /\ UNCHANGED <<fileVars, active, current, quarantined, workVars, goVars, serverVars,
                 clientVars, boots, faults>>

Unload ==
  /\ live' = FALSE
  /\ queue' = NoDocument
  /\ runs' = NoRecords
  /\ active' = FALSE
  /\ current' = 0
  /\ quarantined' = FALSE
  /\ dispatch' = None
  /\ worker' = NoWorker

(* No lease is held: no worker and no run goroutine. *)
Idle == ~active /\ worker.pc = "off" /\ \A n \in RunIds : ~Unfinished(n)

(* reapRuntimes. *)
Evict ==
  /\ live /\ Idle /\ ~closing /\ ~quarantined
  /\ Unload
  /\ UNCHANGED <<fileVars, goVars, serverVars, clientVars, boots, faults>>

CloseSessionKeepingRun ==
  /\ shutting /\ ~closing
  /\ closing' = TRUE
  /\ worker' = Woken(worker)
  /\ UNCHANGED <<fileVars, rtVars, dispatch, goVars, shutting, clientVars, boots, faults>>

(* Server.Close: first the flag, then every session is closed and its run      *)
(* cancelled; it returns when runWorkers is empty.                              *)
ShutDown ==
  /\ ~shutting
  /\ shutting' = TRUE
  /\ UNCHANGED <<fileVars, rtVars, workVars, goVars, closing, clientVars, boots, faults>>

CloseSession ==
  /\ shutting /\ ~closing
  /\ closing' = TRUE
  /\ worker' = Woken(worker)
  /\ go' = CancelRun(go)
  /\ UNCHANGED <<fileVars, rtVars, dispatch, nextRun, shutting, clientVars, boots, faults>>

(* The process ends, at any moment, and is started again. *)
Restart ==
  /\ boots < MaxBoots
  /\ boots' = boots + 1
  /\ Unload
  /\ shutting' = FALSE /\ closing' = FALSE
  /\ go' = [n \in RunIds |-> IF Unfinished(n) THEN [go[n] EXCEPT !.phase = "done"] ELSE go[n]]
  /\ UNCHANGED <<disk, clientVars, faults>>

Crash == Restart /\ UNCHANGED <<journal, runsFile, nextRun>>

(* It ends between the writes of an acceptance, or while runs.json is written. *)
AcceptanceBegins(r) ==
  /\ live /\ ~closing /\ ~shutting /\ ~quarantined /\ ~active
  /\ runs[r].kind = "none"
  /\ \/ worker.pc = "dispatch" /\ worker.req = r
     \/ r \in PromptIds /\ PromptAllowed(r)

CrashInAcceptance(r) ==
  /\ AcceptanceBegins(r)
  /\ nextRun \in RunIds
  /\ Restart
  /\ journal' = Append(journal, AcceptedEvent(nextRun, r))
  /\ runsFile' \in FailedRunsFile
  /\ nextRun' = nextRun + 1

CrashInRelease(n) ==
  /\ \/ go[n].phase = "recorded"
     \/ go[n].kind = "compact" /\ go[n].phase \in {"ended", "unjournaled"}
  /\ Restart
  /\ runsFile' = [runsFile EXCEPT !.torn = TRUE]
  /\ UNCHANGED <<journal, nextRun>>

-----------------------------------------------------------------------------
(* GET /queue: a client reads the snapshot, or the receipt of one request. *)
ReadSnapshot ==
  /\ live /\ ~closing /\ ~shutting /\ ~quarantined
  /\ seen' = [revision |-> queue.revision, items |-> queue.items]
  /\ UNCHANGED <<fileVars, rtVars, workVars, goVars, serverVars, told, boots, faults>>

ReadReceipt(r) ==
  /\ live /\ ~closing /\ ~shutting /\ ~quarantined
  /\ told' = [told EXCEPT ![r] = View(r)]
  /\ UNCHANGED <<fileVars, rtVars, workVars, goVars, serverVars, seen, boots, faults>>

-----------------------------------------------------------------------------
Init ==
  /\ disk = NoDocument /\ journal = <<>> /\ runsFile = SavedRuns(NoRecords)
  /\ live = FALSE /\ queue = NoDocument /\ runs = NoRecords
  /\ active = FALSE /\ current = 0 /\ quarantined = FALSE
  /\ dispatch = None /\ worker = NoWorker
  /\ go = [n \in RunIds |-> NoGoroutine] /\ nextRun = 1
  /\ shutting = FALSE /\ closing = FALSE
  /\ seen = [revision |-> 0, items |-> <<>>] /\ told = [r \in Ids |-> "none"]
  /\ boots = 0 /\ faults = 0

QueueHandler ==
  \/ \E r \in QueueIds, b \in Bodies, interrupt \in BOOLEAN : Submit(r, b, interrupt)
  \/ PauseQueue
  \/ ResumeQueue
  \/ \E i \in DOMAIN queue.items :
       EditBegin(i) \/ RemoveItem(i) \/ RunNow(i) \/ Move(i, i - 1) \/ Move(i, i + 1)
  \/ \E r \in QueueIds, b \in Bodies : EditEnd(r, b)
  \/ ReadSnapshot
  \/ \E r \in Watched : ReadReceipt(r)

OtherHandler ==
  \/ \E r \in PromptIds, b \in Bodies : Prompt(r, b)
  \/ \E c \in CompactIds : Compact(c)
  \/ Cancel

WorkerStep == WorkerLoop \/ WorkerDispatch \/ WorkerSettle \/ WorkerExit

RunStep(n) ==
  TurnEnds(n) \/ RecordState(n) \/ Release(n) \/ RunTail(n) \/ CompactFinish(n)

Environment ==
  \/ Load \/ Evict \/ ShutDown \/ CloseSession \/ Crash
  \/ \E r \in Ids : CrashInAcceptance(r)
  \/ \E n \in RunIds : CrashInRelease(n)

Next ==
  \/ QueueHandler
  \/ OtherHandler
  \/ WorkerStep
  \/ \E n \in RunIds : RunStep(n)
  \/ Environment

Spec == Init /\ [][Next]_vars

(* The worker and the bookkeeping of a run are goroutines that only wait for   *)
(* rt.mu; a cancelled turn ends because its context is done.                    *)
FairSpec ==
  /\ Spec
  /\ WF_vars(WorkerStep)
  /\ \A n \in RunIds :
       /\ WF_vars(RecordState(n) \/ Release(n) \/ RunTail(n) \/ CompactFinish(n))
       /\ WF_vars(go[n].cancelled /\ TurnEnds(n))

(* Every turn ends by itself: models and tools answer or time out. *)
TurnsEnd == \A n \in RunIds : WF_vars(TurnEnds(n))

-----------------------------------------------------------------------------
(* Safety. *)

(* Every variable holds a value of its kind. *)
TypeOK ==
  /\ disk \in Document /\ queue \in Document
  /\ journal \in Seq(Event)
  /\ runsFile \in [torn: BOOLEAN, runs: [Ids -> RunRecord]]
  /\ runs \in [Ids -> RunRecord]
  /\ live \in BOOLEAN /\ active \in BOOLEAN /\ quarantined \in BOOLEAN
  /\ shutting \in BOOLEAN /\ closing \in BOOLEAN
  /\ current \in 0..MaxRuns /\ nextRun \in 1..MaxRuns + 1
  /\ dispatch \in Ids \cup {None}
  /\ worker \in Worker
  /\ go \in [RunIds -> Goroutine]
  /\ seen \in Snapshot
  /\ told \in [Ids -> ReceiptView]
  /\ boots \in Nat /\ faults \in Nat

(* A request is in the line or being edited exactly when its receipt says     *)
(* queued, and in one place only: no crash, refused save, edit or dispatch     *)
(* drops an accepted submission or queues it twice.                            *)
ReceiptsMatchQueue ==
  /\ IsInjective(disk.items)
  /\ ToSet(disk.items) \cap Editing(disk) = {}
  /\ \A r \in Ids : disk.receipts[r] = "queued" <=> r \in Pending(disk)

(* The queue in memory is the one on disk (but for the pause a load adds): a    *)
(* save that fails leaves both untouched.                                        *)
MemoryMatchesDisk ==
  live => queue = [disk EXCEPT !.paused = queue.paused]

(* While the worker has released rt.mu to start a run, nobody moves, removes or *)
(* edits the entry it copied: the request it starts is the head of the queue     *)
(* with the payload last committed, and "queue dispatch identity changed"        *)
(* cannot happen.                                                                 *)
DispatchPinned ==
  worker.pc \in {"dispatch", "settle"} =>
    /\ dispatch = worker.req
    /\ HeadIsDispatched
    /\ queue.body[worker.req] = worker.body

(* Two runs never execute at once, not even after an interrupt. *)
OneRunAtATime == \A m, n \in RunIds : Running(m) /\ Running(n) => m = n

(* No request is executed twice, whatever is retried, resubmitted, crashed,       *)
(* reloaded or failing to write.                                                   *)
AtMostOnce ==
  \A m, n \in RunIds :
    /\ go[m].kind = "prompt" /\ go[n].kind = "prompt"
    /\ go[m].req = go[n].req
    => m = n

(* A prompt that executes was first made durable: its acceptance is journaled     *)
(* and runs.json names it, unless that file is torn and the session unloadable.    *)
DurableBeforeExecution ==
  \A n \in RunIds : go[n].kind = "prompt" =>
    /\ \E i \in DOMAIN journal : journal[i] = AcceptedEvent(n, go[n].req)
    /\ runsFile.torn \/ runsFile.runs[go[n].req].run = n

(* A request that was accepted executes once, and never before its acceptance   *)
(* is where a restart will find it.                                             *)
AcceptedOnce == AtMostOnce /\ DurableBeforeExecution

(* A snapshot revision names one list of items: a client whose revision is still  *)
(* current acts on the list it saw, also after a reload or crash.                  *)
RevisionNamesItems ==
  live /\ seen.revision = queue.revision => seen.items = queue.items

(* A receipt a client was told is final never changes again, over evictions,       *)
(* crashes and failed writes.  Two reuses of an id are excepted: a removed or          *)
(* refused request of which an earlier crash left an acceptance in the journal (the      *)
(* next load attaches it), and a compaction, which does not look at the queue's ids.      *)
FinalView == {"completed", "failed", "cancelled", "interrupted"}
FinalReceiptsStay ==
  \A r \in Ids :
    /\ live /\ ~quarantined /\ told[r] \in FinalView
    /\ disk.receipts[r] \in {"cancelled", "failed"} => Acceptances(r) = {}
    /\ runs[r].kind # "compact"
    => View(r) = told[r]

(* What the server has said of a queue stays true: clients see the saved         *)
(* document, a revision names one list, a final receipt is never taken back.      *)
AnswersHold == MemoryMatchesDisk /\ RevisionNamesItems /\ FinalReceiptsStay

(* A prompt run is accepted in the goroutine n. *)
Starts(n) == go[n].kind = "none" /\ go'[n].kind = "prompt"

(* Nothing overtakes the queue: while requests are queued or being edited, only   *)
(* the head of the line starts.                                                     *)
NothingOvertakes ==
  [][\A n \in RunIds : Starts(n) /\ Pending(queue) # {} =>
       queue.items # <<>> /\ go'[n].req = Head(queue.items)]_vars

(* Both: the head of the line goes first, with what was last committed for it.    *)
HeadGoesFirst == []DispatchPinned /\ NothingOvertakes

-----------------------------------------------------------------------------
(* The inductive invariant behind the theorems of SessionQueue_proofs. *)

(* A worker holds a lease of its session, and a dispatch has a request. *)
WorkerBound ==
  /\ worker.pc # "off" => live
  /\ worker.pc \in {"dispatch", "settle"} => worker.req \in Ids

(* So does a run goroutine; run ids are used in order. *)
RunsBound ==
  /\ active => live
  /\ \A n \in RunIds :
       /\ Unfinished(n) => live
       /\ n >= nextRun => go[n].kind = "none"
       /\ go[n].kind = "none" <=> go[n].phase = "none"
       /\ go[n].kind # "none" => go[n].req \in Ids

(* The executing run is the current one of a busy session. *)
RunningIsCurrent == \A n \in RunIds : Running(n) => active /\ current = n

(* A started prompt is in the records that decide whether a request is new: in    *)
(* runs.json unless that is torn, and in rt.runs whenever the session is loaded.     *)
NamesRun(rec, n) == rec.kind = "prompt" /\ rec.run = n
RunsRemembered ==
  \A n \in RunIds : go[n].kind = "prompt" =>
    /\ runsFile.torn \/ NamesRun(runsFile.runs[go[n].req], n)
    /\ live => NamesRun(runs[go[n].req], n)

(* The inductive invariant: types, leases, the pinned dispatch and the durable     *)
(* record of every started prompt together.                                           *)
IInv ==
  /\ TypeOK
  /\ WorkerBound /\ DispatchPinned
  /\ RunsBound /\ RunningIsCurrent /\ RunsRemembered
  /\ DurableBeforeExecution /\ AtMostOnce

(* What a client has seen of the queue is not newer than the saved one, and is the  *)
(* saved line as long as the revision is the saved one.                               *)
SeenSound ==
  /\ seen.revision <= disk.revision
  /\ seen.revision = disk.revision => seen.items = disk.items

(* The line's part of the invariant. *)
LineInv == ReceiptsMatchQueue /\ MemoryMatchesDisk /\ SeenSound

(* No two acceptances share a run id, none is a compaction's, and all are used up. *)
AcceptedIn(n, r) == \E i \in Acceptances(r) : journal[i].run = n
AcceptancesSound ==
  \A i \in DOMAIN journal : journal[i].type = "accepted" =>
    /\ journal[i].run < nextRun
    /\ go[journal[i].run].kind # "compact"
    /\ \A j \in DOMAIN journal :
         journal[j].type = "accepted" /\ journal[j].run = journal[i].run
         => journal[j].req = journal[i].req

(* A record names a run id that was used, a prompt's record one of its acceptances. *)
(* Memory knows every saved record, and no compaction that was not saved.             *)
Justified(rec, r) ==
  /\ rec.kind # "none" => rec.run \in RunIds /\ rec.run < nextRun
  /\ rec.kind = "prompt" => AcceptedIn(rec.run, r)
RecordsSound ==
  /\ disk.revision = 0 => \A r \in Ids : disk.receipts[r] = "none"
  /\ \A r \in Ids :
       /\ Justified(runsFile.runs[r], r)
       /\ live => /\ Justified(runs[r], r)
                  /\ runsFile.runs[r].kind # "none" => runs[r].kind = runsFile.runs[r].kind
                  /\ runs[r].kind = "compact" => runsFile.runs[r].kind = "compact"

(* The journal holds the end of a run as its goroutine saw it, and only once it has  *)
(* ended.  A run that executes has its record, and a terminal record is of a run that   *)
(* was released.                                                                           *)
EndsJournaled ==
  \A n \in RunIds :
    /\ go[n].phase \in {"none", "turn", "unjournaled"} => Terminals(n) = {}
    /\ \A i \in Terminals(n) : journal[i].state = go[n].state
EndsRecorded ==
  /\ \A n \in RunIds :
       /\ Running(n) => runs[go[n].req].kind = go[n].kind
       /\ go[n].phase = "recorded" => runs[go[n].req].state = go[n].state
  /\ \A r \in Ids : live /\ runs[r].kind # "none" /\ runs[r].terminal => ~Running(runs[r].run)
EndsSound == EndsJournaled /\ EndsRecorded

(* What a load would make of a request's record, and how a client reads a record of  *)
(* a run that is not executing.                                                         *)
DiskRecord(r) == Settled(Attached(r))
Ending(rec) == IF rec.terminal THEN rec.state ELSE "interrupted"

(* In a healthy session the records of runs that do not execute are those a load      *)
(* would find.                                                                            *)
MemoryAgrees(r) ==
  /\ live /\ ~quarantined /\ disk.receipts[r] # "none"
  /\ runs[r].kind = "prompt" /\ ~Running(runs[r].run)
  => /\ DiskRecord(r).kind = "prompt" /\ DiskRecord(r).run = runs[r].run
     /\ Ending(DiskRecord(r)) = Ending(runs[r])
MemorySound == \A r \in Ids : MemoryAgrees(r)

(* A final answer is what the files say, and what memory says while it is loaded. *)
RefusedFor(r) == disk.receipts[r] \in {"cancelled", "failed"}
KeptAsReceipt(r) == RefusedFor(r) /\ told[r] = disk.receipts[r] /\ Acceptances(r) = {}
KeptAsRecord(r) ==
  LET rec == DiskRecord(r) IN
  /\ disk.receipts[r] # "none" /\ rec.kind = "prompt" /\ ~Running(rec.run)
  /\ Ending(rec) = told[r]
  /\ live => /\ runs[r].kind = "prompt" /\ runs[r].run = rec.run
             /\ Ending(runs[r]) = told[r]
             /\ runs[r].terminal \/ ~active \/ current # rec.run
AnswerKept(r) ==
  told[r] \in FinalView =>
    \/ KeptAsReceipt(r) \/ KeptAsRecord(r)
    \/ RefusedFor(r) /\ Acceptances(r) # {}
    \/ runsFile.runs[r].kind = "compact"
AnswersKept == \A r \in Ids : AnswerKept(r)

(* The answers' part of the invariant. *)
AnswersInv ==
  AcceptancesSound /\ RecordsSound /\ EndsSound /\ MemorySound /\ AnswersKept

-----------------------------------------------------------------------------
(* Liveness. *)

Interrupted(r) == r \notin ToSet(queue.items) \/ queue.paused \/ quarantined \/ shutting \/ ~live

(* When turns end by themselves, every request in an unpaused queue of a healthy  *)
(* session leaves it, through worker hand-overs, busy answers and waits for         *)
(* running turns.                                                                    *)
QueueDrains ==
  TurnsEnd => \A r \in QueueIds :
    (live /\ ~queue.paused /\ r \in ToSet(queue.items)) ~> Interrupted(r)

(* An interrupt takes effect although no turn ends by itself: once the current    *)
(* run is cancelled, the head of the queue is dispatched (or something newer is    *)
(* at the head, the queue is paused, or the session is unavailable), unless a      *)
(* compaction takes the session first and is not cancelled in turn.                 *)
Compacting == active /\ go[current].kind = "compact" /\ ~go[current].cancelled
InterruptTakesEffect ==
  \A r \in QueueIds :
    (live /\ ~queue.paused /\ queue.items # <<>> /\ Head(queue.items) = r
       /\ active /\ go[current].cancelled)
    ~> (Interrupted(r) \/ Head(queue.items) # r \/ Compacting)

(* Server.Close returns: once the session is closed its worker and run            *)
(* goroutines end, though a turn that nobody cancels would run forever.             *)
CloseReturns == closing ~> (Idle \/ ~closing)

-----------------------------------------------------------------------------
(* Refinement of PromptLine.  An identity is queued while it stands in the saved  *)
(* queue and executed once a run goroutine was started for it.                     *)
Executed(r) == \E n \in RunIds : go[n].kind = "prompt" /\ go[n].req = r
StatusOf(r) ==
  IF Executed(r) THEN "executed"
  ELSE IF r \in Pending(disk) THEN "queued"
  ELSE IF disk.receipts[r] \in {"accepted", "failed", "cancelled"} THEN "dropped" ELSE "new"

Line == INSTANCE PromptLine WITH
  line <- disk.items, held <- Editing(disk), status <- [r \in Ids |-> StatusOf(r)]

(* Every step of the session is a step of the line or leaves it alone. *)
ImplementsLine == Line!LineSpec
=============================================================================
