# K-Brain: TLA+ models of the backend

K-Brain is a coding-agent backend in Go: an HTTP server (`internal/backend`) keeps
*sessions*, each with an agent, a transcript, an event journal, a persistent prompt
queue and at most one running turn; around it stand an image-generation service, a
planning and cron scheduler, a memory runtime, model routing, MCP connections, a
browser and computer driver, sandboxing and a terminal UI. The modules here model the
parts whose correctness depends on the order of steps of several goroutines, or on what
survives a crash, and state what must hold of them.

Run a check with `tlc -config <run>.cfg <module>.tla` and a proof with
`tlapm <module>_proofs.tla`. `PROJECT.json` lists the runs, the seeded faults each
property must catch, the source lines of every definition, the hazards and the theorems.

## 1. Inventory

Concurrency in `internal/backend` follows one pattern: `Server.mu` guards the map of
live sessions, `runtimeSession.mu` (`rt.mu`) guards a session, and handlers, run
goroutines, workers and timers alternate critical sections of these locks. `rt.changed`
is a channel that is closed and replaced whenever somebody may have to look again.

| Component | State | Operations | What is hard | What makes it correct |
|---|---|---|---|---|
| **Session prompt queue** (`backend/queue.go`) | `<id>.queue.json`: items, open edits, receipts, revision, paused; `rt.queue`, `rt.queueDispatchID`, `rt.queueWorker` | submit (append, interrupt), pause, resume, edit begin/commit/cancel, move, remove, run now, worker dispatch, load, save | the worker starts a run *outside* `rt.mu`; save is atomic but acceptance is three writes; revision checks over reloads; capacity counted with open edits | at most once, nothing lost or overtaken, dispatched entry pinned, loadable documents, drains |
| **Run acceptance** (`backend/run_start.go`, `server.go`) | `<id>.jsonl`, `<id>.runs.json`, `rt.runs`, `rt.runID`, `rt.cancel`, `rt.runDone`, `rt.runtimeErr` | start, replay of a known id, abort, cancel, end of a run | journal, then runs.json, then execution; quarantine; identities shared between `/runs`, `/queue`, `/compact` | durable before execution, one run at a time |
| **Compaction** (`backend/compact.go`) | the same, and a rewritten transcript | start, commit, rollback, finish | takes the session like a run; conversation replaced on disk and in memory | exclusive with runs; its end wakes the queue |
| **Runtime registry** (`server.go`, `runtime_cache.go`, `history.go`) | `Server.sessions`, leases, `rt.closing`, `rt.deleted` | load, lease, release, evict, delete, Close | files are read before the session is registered; eviction races with load; two lock levels | one live instance per session, no instance over newer files, no lock cycle |
| **Event journal and streams** (`event_journal.go`, `event_cache.go`, `server.go` events) | the journal file, `rt.events` tail with a byte bound, offset marks, SSE cursors | publish, replay after a cursor, trim, history edit and compaction rewrites | events written before they are published; the cached tail shifts while a reader replays from the file | every subscriber sees each event once, in order |
| **Wakes** (`wake.go`) | notice backlog, held, streak, template | notice, dispatch, hold, accept | a notice must start a run when the session is free, and is only looked at when some run ends | no notice is stuck; at most 8 self-started runs in a row |
| **Goals** (`goal.go`, `internal/goalloop`) | goal record with revision and rounds | set, pause, evaluate, continue | evaluation result applied after the goal was edited; next round starts after the run ended | only the evaluated revision is updated; rounds bounded |
| **Waits for a client** (`questions.go`, `elicitations.go`, `client_tools.go`, permissions in `server.go`) | maps of open requests with channels | ask, answer, cancel, time out, reconnect | answer races cancellation and timeout; requests survive reconnects | each request is answered at most once, none stays after its run |
| **Subagents and background tasks** (`agent/background.go`, `agent/subagent_control.go`, `backend/subagents.go`) | task table, follow-up mailbox | start, steer, stop, report | follow-up races the end of a task | every report is delivered once |
| **Agent waits** (`agent/wait.go`) | wait table | arm, fire, cancel | condition, deadline and cancellation race | a wait fires at most once |
| **Agent tool execution and file locks** (`agent/tool_execution.go`, `agent/filelocks.go`) | per-path locks | parallel tool batch | multi-path acquisition by parallel calls | exclusive writers, no deadlock |
| **Cron and loops** (`cron_store.go`, `cron_manager.go`, `cron_canonical.go`, `loops.go`, `loop_execution.go`) | stored tasks and execution records, active executions, loops of a conversation | add, edit, delete, tick, run by hand, accept, finish, cancel, deliver a result, clear records | a task deleted and its id used again under a worker, restart while running, failing saves, a busy conversation | executions of a task do not overlap, leases end, limits hold, results are posted once |
| **Checkpoints** (`backend/checkpoint.go`) | pre-images of edited files per run | capture, commit, restore | restore of several files fails half way | all or nothing |
| **Imaging** (`internal/imaging`) | job log, snapshot, attempts, assets, leases | submit, claim, poll, retry, cancel, recover, collect assets | external jobs outlive the process; charges must not be repeated; asset GC against new references | no double submission, terminal states are final, referenced assets stay |
| **Workflow runtime** (`internal/workflow`) | workflow graph and step state | start, step, pause, resume, persist | resumed after a crash | completed steps are not run again |
| **Model routing** (`internal/routing`) | routes, failover state and cool-downs | choose, fail over, recover | failover of a stream already begun | no output of two models is mixed |
| **MCP** (`internal/mcp`) | server processes, live connections | connect, restart, list, call, elicit, close | restart during a call | calls end; one process per server |
| **Memory runtime and store** (`internal/memoryruntime`, `internal/memory`) | extraction queue, records, files | capture, extract, organise, switch off | memory switched off during extraction | off-period input never extracted |
| **Session store** (`internal/session`) | transcript files | append, rewrite, import, fork, delete | rewrites against readers | atomic replacement |
| **Planning** (`internal/planning`, `backend/planning.go`) | calendar and reminders | mutate, remind, subscribe | reminder at-most-once over restarts | each reminder fires once |
| **Permissions and approval** (`internal/permissions`, `internal/approval`, `internal/elicit`) | rules, grants | evaluate, grant, review | rule precedence | pure functions |
| **Session sync** (`session_sync.go`) | snapshots with leases and timers | build, page, expire | a snapshot expires while it is read | a page belongs to one snapshot |

Left aside as pure I/O, presentation, platform code or adapters without state of their
own worth a model: `internal/tui`, `internal/acp`, `cmd/kn`, `internal/ai`,
`internal/browser`, `internal/computer`, `internal/sandbox`, `internal/tools`,
`internal/lsp`, `internal/config`, `internal/skills`, `internal/plugins`,
`internal/hooks`, `internal/privacy`, `internal/update`, `internal/netproxy`,
`internal/storage`, `integrations/`.

## 2. Plan

Modules in the order of importance, those of this directory first.

1. `SessionQueue` over `PromptLine` (done): queue, worker, acceptance, compaction,
   eviction, shutdown, crash. The refinement `ImplementsLine` is proved step by step.
2. `RuntimeRegistry` (done): `Server.mu`, leases, the reaper, loads that race with
   eviction, deletion and Close, and both lock levels. Left: shares.
3. `SessionTurns` (done): wake runs and goal rounds against every other source of runs.
4. `SessionEvents` (done): journal, bounded tail, marks, and the streams that change
   between file and tail. Left: an append-only log with cursors as its abstract
   specification.
5. `ImageJobs` (done). Left: `AssetGC`, the collection of assets against workers that
   save a picture before anything refers to it.
6. `ClientWaits` (done): questions, forms, client tools, permission prompts.
7. `SummarySync` (done): the session list, its snapshots and long polls, and a client.
8. `BackgroundTasks`, `AgentWaits`, `FileLocks`: agent-side concurrency.
9. `CronTasks` (done): tasks, their workers and records, loops and their results.
10. `Failover`, `WorkflowRuntime`, `Checkpoint`, MCP connections, the memory runtime, and
    pure algorithms of planning and permissions against reference definitions.

## 3. The modules

### SessionQueue

One session of one server process. Its variables are the three files of a session
(`disk` is `<id>.queue.json`, `journal` the run events of `<id>.jsonl`, `runsFile`
`<id>.runs.json`), the fields of `runtimeSession` that matter (`queue`, `runs`, `active`
for `rt.cancel != nil && !rt.runDone`, `current` for `rt.runID`, `quarantined` for
`rt.runtimeErr != nil`, `dispatch` for `rt.queueDispatchID`), the goroutines (`worker`,
`go[n]` for the run with id `n`), the server's flags, and what clients hold: the last
snapshot and the last receipt they read.

Every action is one critical section of `rt.mu`, or the part of a goroutine between two of
them:

- `Submit`, `PauseQueue`, `ResumeQueue`, `EditBegin`, `EditEnd`, `Move`, `RemoveItem`,
  `RunNow` are the handlers. Each ends in `Commit`: the document is saved (or the save
  fails and nothing changes), `queue.updated` is published (or that fails and the session
  is quarantined), an interrupting request cancels the current run, and a worker is
  started if none is there. An action carries the revision the client last saw.
- `Prompt` is `POST /runs` and every run the backend starts itself. `Accept` is the path
  on which all three writes succeed; `AbortAcceptance` has an outcome for each write that
  may fail. In the code these writes are under one lock, so only a crash
  (`CrashInAcceptance`) can show an intermediate state.
- `WorkerLoop`, `WorkerDispatch`, `WorkerSettle`, `WorkerExit` are the worker's four
  critical sections. Between `WorkerLoop` and `WorkerSettle` it does not hold `rt.mu`.
- `TurnEnds`, `RecordState`, `Release`, `RunTail` are the end of `executeRun` and the tail
  of its goroutine: the terminal event is published, its outcome is copied to `rt.runs`,
  the session is released and `runs.json` written, and a worker is started.
- `Compact` and `CompactFinish` are compaction as seen from the session.
- `Load` and `Evict` are `loadRuntime` and the reaper, `Crash`, `CrashInAcceptance` and
  `CrashInRelease` end the process anywhere; the latter two between or inside writes.
- `ReadSnapshot` and `ReadReceipt` are `GET /queue`; reads of a client may be arbitrarily
  stale when it acts.

Abstractions. Payloads are members of `Bodies`; an entry's payload and the hash of its
submission are kept apart, because an edit changes the one and not the other. Entry ids
are identified with client request ids, which `loadQueueLocked` and `handleQueue` keep in
one-to-one correspondence. Only `run.accepted` and terminal events are in `journal`. Run
ids are numbers. The refusals of `startCanonicalRun` for a bad model, option or setting
are the outcome `failed`, always possible. The transcript, wake, goal and cron sources of
prompts, and `rt.deleted`, are not part of this module. A failed rewrite of `runs.json`
may leave it unreadable (`torn`), because `persistRuns` writes in place; a torn file makes
`Load` impossible, as `loadRuns` refuses it.

### PromptLine

What a session promises, without files, runs and crashes: a `line` of requests, some
`held` for editing, and a `status` per identity. `ExecuteHead` and `ExecuteDirect` are
the only ways to execute; an identity that is `dropped` or `executed` stays so.
`SessionQueue` implements it with `line` the saved items, `held` the saved edits and an
identity executed once a goroutine was started for it.

### RuntimeRegistry

One session id, seen from `Server.sessions`: `registered` is the map's entry, `inst` the
`runtimeSession` objects that were ever built for it (their identities are reused), `h`
the requests in flight and the runs they start, `closer` the goroutine of `Server.Close`,
`stored` and `journal` the files, `open` the memory runtimes, which stand for the
resources an object owns and must close.

Most steps are one critical section of `s.mu` or `rt.mu`. Three places keep a lock over
several steps, and only for them do `mu` and `rtmu` record an owner: a model switch keeps
`rt.mu` while it takes `s.mu` (`Switch`, `Rebuild`, `Adopt`), the existence probe keeps
`s.mu` while it takes `rt.mu` (`Probe`, `Probing`), and a cold read keeps `s.mu` while it
walks the files (`Find`, `ColdRead`). Every other step that needs a lock is disabled while
somebody else keeps it.

- `Lookup`, `StoreLoad`, `Enter`, `Build`, `ReadJournal`, `Register`, `CheckDeleted` are
  `loadRuntimeByID` and `loadRuntime`: files are read before the object is registered, and
  `Register` decides under `s.mu` whether it joins another load, is refused, or installs.
- `Publish`, `Finish`, `Release` are work under a lease; `Delete`, `DeletedAlready`,
  `Unregister` a deletion; `Reap` the idle reaper; `CloseBegins`, `CloseCollects`,
  `CloseMarks`, `CloseFinishes` the shutdown.

Abstractions. An event is its sequence number. Store, transcript and settings errors of a
load are left out, except that the session may be gone. Runs are requests that publish.

### ImageJobs

One image job of `internal/imaging`. The variables before `expired` are its durable
record; `worker[i]` is the goroutine that works on item `i` and what it remembers;
`accepted[i]` is not in the program: it counts the submissions the provider accepted.

A transaction of `Store.Update` is atomic and durable, so it is one action, and a worker's
life is the transactions between which it calls the provider or downloads:

- `Pick` is the dispatcher's choice with its two limits: running goroutines, and submitted
  items for new submissions. `Claim`, `ClaimLate`, `ClaimNothing` are the claim, which
  reads everything again, takes the lease and writes a submission down before making it.
- `ProviderAccepts` is the provider's side of a submission. `SubmitFails`, `QueryFails`,
  `CallReturns`, `BeginSave`, `CancelReturns` settle a call; `Publish` and `SaveFails` are
  the pictures of an answer, `FinishSaved` its end. All of them settle through `Settle`,
  which finds the job over when a client cancelled it meanwhile.
- `Release` gives the lease back when nothing else is left to do.
- `Create`, `CancelJob`, `ReconcileJob`, `DeleteJob` are the clients.
- `Shutdown` and `Stopped` are `Scheduler.Close`, `Abandon` what a worker leaves when it
  is cut off, `Crash` the end of the process anywhere; `RecoverLeases` and `RecoverJob`
  are the next start, which a crash may interrupt again.

Abstractions. A lease is a Boolean: the store is locked by one process, and recovery
clears the leases of its predecessor before anything else, so owner and expiry never
decide. Time is `expired`. Pictures are told apart by their hash, as `finish` does;
of a recorded delivery only what recovery asks is kept, `not_sent` or anything else;
pauses between lookups, usage, reasons, events and idempotency keys are left out, and so
are errors of the store itself, after which the scheduler stops. Dispatcher bookkeeping
that lags behind a finished goroutine is one step with it.

Assumption about adapters (`internal/imaging/adapters`): they report `not_sent` only for
what never reached the provider and `rejected` only for what it refused; everything else
is `uncertain`. Pictures come only with a completed answer.

### SessionTurns

What starts turns in one session without the user: notices of background work (`wake.go`)
and the rounds of a goal (`goal.go`). `run[r]` is the goroutine of a run, whose phase says
between which two critical sections it is: accepted, in its turn, ended, evaluated, and
then the steps of `continueGoal` (`TakeRound`, `BuildRound`, `RoundStale`, `RoundRetries`,
`RoundRefused`, `RoundAccepted`, `GiveUp`) with the locals it carries from one to the
next. `wake` is `rt.wake`, `pending` the notices in the agent's mailbox, `flight` those
`startWakeRun` carries outside the lock, `kicks` the goroutines about to run `kickWakes`.

- `Notify`, `TurnTakesNotices`, `Kick`, `WakeAccepted`, `WakeConflicts`, `WakeRefused` are
  the way of a notice; `TurnEnds` and `RunDone` hand what a turn left over to the backlog.
- `SetGoal`, `UpdateGoal`, `PauseGoal`, `ClearGoal`, `ResumeGoal`/`ResumeAccepted` are the
  handlers, `EvaluateGoal` the verdict at the end of a round.
- `Message`, `ScheduledRun`, `Compact`, `QueueDispatch` are the competitors.

`inRow`, `settled` and `overlooked` are history: wake runs in a row, notices that are
dealt with, and whether the session became free with nobody about to look. Goal texts and
nonces are names; nonces are drawn fresh. Run names and nonces are reused when nothing
refers to them any more. What a verdict says is chosen freely.

### SessionEvents

`file` is the journal with lines that may be torn, `tail`, `truncated` and `marks` the
cache of `event_cache.go` and `event_journal.go`, `stream[c]` the place of the loop of
`eventsWithHeartbeat` that serves a client, `cursor` and `got` what the client has. A
client follows the session, or its subagent (`watchers`), whose text is `buffered` and
whose end is journaled before it stops counting `live`.

- `Publish`, `PublishFails`, `Accept`, `AcceptAborts`, `PublishText`, `EndRun`, `RunDone`,
  `CommitCompaction`, `Edit`, and the `Sub...` actions write.
- `Connect`, `Ask`, `Look`, `LookError`, `Send`, `Heartbeat`, `Drop` read. `Look` is the
  critical section in which a stream takes events from the tail or the file (`Replay`)
  and decides to send, to sleep on `rt.changed` or to end. It holds back the end of a run
  that still holds the session.
- `Evict`, `Crash`, `Load` take the runtime away and read it back.

Abstractions. An event is its number, run and kind; sizes matter only as "larger than the
tail may be" (`Large`). A loop that filters events is `Pick`, of the places it keeps. A line that was begun and not ended merges with the next one; no
part of a line is taken to be a complete value. That the truncation after a failed write
succeeds or fails is a choice (`TornWrites`). Files replaced from outside, and an edit
that fails half way (below), are not part of the module.

### SummarySync

The list of sessions as clients keep it. `files` is the disk, `entries`, `changes`,
`revision`, `epoch` and `minSince` the store's `summaryState`; `window`, `journal`,
`scanner` and `lease` are its timers; `holder` is the scan that holds the store's lock,
which records differences one file at a time. `builder`, `draft` and `retained` are the
server's snapshots; `copy[c]` is what a client has, which follows the contract of
`docs/liveagent-backend.md`: read a snapshot, then poll from its cursor, and start over
when it is told to.

Abstractions. A file differs from another in its `Projections`; a change by another
process always shows in size or time (`ForeignWrite`), except the one the code cannot see
until its next scan (`UnseenWrite`). Closing and starting the backend are two steps, the
second of which waits for a snapshot being built. A long poll (60 s) is shorter than the
lease that keeps the scanner going (90 s). Pages of one answer are one step.

### ClientWaits

The calls of one run that wait for a client. An *ask* is a question or form (one kind: the
two files share their protocol) or a client tool; a *prompt* is a permission request of a
computer call (approving one allows all) or of a call whose prompt suggests rules.

- `Enter`, `Ask`, `Deadline`, `Return` are the waiter; `Answer`, `AnswerAgain`,
  `AnswerLate`, `ToolAnswerAgain` the handlers. A resolution is journaled and kept under
  one lock by whoever comes first (`Settle`).
- `Gate`, `Register`, `Receive`, `StopWaiting`, `Grant` are a gated call; `Claim`,
  `StoreRule`, `Reopen`, `Send`, `Snapshot`, `SettleNext`, `Release` a handler that
  answers it: it takes the prompt away under the lock, stores the rules one by one outside
  it, sends the decision to a channel of one, and then settles other prompts the rules
  cover.
- `CancelRun`, `StopSubagent`, `EndRun`, `Crash` end the waiting from outside.

Abstractions. A payload is one of `Answers`, an image or text of a tool is the same value.
All rule calls share one suggestion. Prompts under manual review, which never use rules or
grants, and the deletion of rules are left out.

### CronTasks

`tasks` and `log` are the file of `cronStore` (tasks, and the records of executions in the
order of their start), `active` and `worker` the executions of `cronManager` and their
goroutines, `tick` the scheduler's goroutine with the snapshot of the tasks it works
through, `parent` and `history` the conversation the loops belong to.

- `Start` is `start` and `reserve`: it takes the lease, that is the record of a running
  execution. `Accept`, `Unavailable`, `Finish`, `Leave` are the rest of a worker: it
  records the accepted run, settles the lease and charges the task (`Charged`), and leaves
  `active`. `Kept` is the pruning that goes with every record.
- `TickBegin`, `VisitTask`, `TickEnd` are a tick; of a loop it first delivers the results
  (`VisitLoop`, `Post`, `Acknowledge`), then disables it when it is over, holds it back
  when its log is full of results nobody has seen, or fires (`Check`, `Fire`). Both look
  only at the `Newest` records, as many as the limit, a lease among them.
- `Create`, `CreateLoop`, `SetLimit`, `SetEnabled`, `Delete`, `RunNow`, `Cancel`,
  `ClearRuns`, `CancelRemoved` are clients; `DeleteParent`, `ForgetSession`, `ParentRuns`,
  `Rewrite` the conversation; `Close` and `Restart` the process.

`quota` is not in the program: it counts what clients allowed a task against what was
started on schedule. Abstractions: whether a clock expression matches is chosen freely; a
loop's schedule is the two facts `due` and `over`; what an execution does is its outcome.
Records of occurrences that were skipped are left out: they deliver nothing and push out
only older records of a task without results to deliver.

### The MC modules

Name the model values for the runs and define the symmetries: interchangeable requests,
objects, items, runs, names. Symmetry is used only in runs that check no liveness.

### Seeded faults

Definitions such as `PoppedRaw`, `LessTwice` or `ClaimLeavingOpen` are not used by the
specifications. Each is a plausible wrong version of the definition that follows it;
`PROJECT.json` ("mutants") says which property must fail when it takes the place of the
right one.

## 4. Runs

All bounds are constants. `SessionQueue`: `MaxRevision` stops client operations at a queue
revision, `MaxBoots` counts crashes, `MaxFaults` failing writes; `MaxItems` is 2 instead
of 128 and `MaxReceipts` 3 instead of 4096. `RuntimeRegistry`: `MaxEvents` bounds the
journal, `MaxEvictions` the reaper. `ImageJobs`: `MaxStops` counts ends of the process,
`MaxReconciles` reopenings; `MaxAttempts` is 2 instead of 3, `MaxQueryFailures` 1
instead of 5, the connection limit 2. `SessionTurns`: runs
and nonces are names in use at one time, `MaxRevision`, `MaxQueued`, `MaxKicks` bound
updates, queue entries and goroutines; the streak is 2 instead of 8, the backlog 1 instead
of 32, rounds 1. `SessionEvents`: four events, two runs, a tail of two, a mark at every
second event. `SummarySync`: `MaxRevision` stands for the largest 64-bit number, so its
overflow happens; `MaxEpoch` bounds restarts. `ClientWaits`: `MaxCalls` calls are started,
`MaxFaults` writes fail. `CronTasks`: `MaxRuns` executions, `MaxEdits` edits, `MaxBoots`
restarts, `MaxFaults` failing writes; one finished record is kept of a task instead of 200.
Two limits of `ImageJobs` are not fully exercised: with two items the connection limit of 2
binds only in the seeded fault, and with one failing lookup allowed an item gives up at its
first one, so the branch that repeats a failed lookup is never taken.

Three runs check a part of their module's behaviours, which their MC module names. In
`MCSessionQueue` (`OneIntruder`, a constraint) `QueueLiveness` has, beside the first
queued request, either the second one or a compaction, not both. In `MCImageJobs` a
provider that can cancel can also be asked for a lost submission, or neither, and after a
stop or a reopening the items are worked on one at a time. In `MCCronTasks` a behaviour
uses tasks (with limits, edits and re-creation) or loops (without limits, through one
crash, failing write or ageing), not both: they share only the scheduler, which takes them
one at a time. The theorems of the three modules have no such restriction.

The properties talk about one or two actors at a time, hence two or three identities;
the shortest ways to break them (found with the seeded faults) need two requests, two
calls with two handlers, one crash or one eviction, and one failing write. Deadlock
checking is off where clients stop at a bound, a job, run or stream is simply over, or the
server may be shut down for good; in `Registry` because of the deadlock of
`ProbeAgainstSwitch`.

| Run | Instance | Shows |
|---|---|---|
| `QueueCrash` | one id for `/queue` and `/runs`, a compaction, a crash, a failing write | no request executes twice or before it is durable (`AcceptedOnce`); memory is the saved document, a revision names one list, a final receipt stays (`AnswersHold`); `SessionQueue` implements `PromptLine` |
| `QueueLiveness` | 1 immediate and 2 queued, or 1 queued and a compaction; fair goroutines | the dispatched entry is pinned and nothing overtakes (`HeadGoesFirst`), no request is lost or queued twice; interrupts take effect, Close returns, and (if turns end) an unpaused queue drains |
| `Registry` | 2 requests, 3 objects, 4 resources, 2 evictions | leases keep objects, resources have one owner and Close finds every session, a deleted one stays deleted |
| `ProbeAgainstSwitch` | a model switch and a probe; fair locks | expected violation, see below |
| `ImageJobs` | 2 items in parallel, failing lookups, a crash or shutdown, a reopening; fair workers | no item is paid for twice and no picture added twice (`OncePerItem`), leases cover workers, a job is over exactly when its items are, and every accepted job is over eventually |
| `CronTasks` | a task with a limit, or a loop; 2 executions, 3 edits, a restart and a failing write; fair scheduler and workers | executions of a task do not overlap, leases end, limits hold (`RunsSound`); a result is posted once and not lost while the conversation is busy (`ResultsSound`); loops go on, and a result that is never read is one that runs by hand left behind (`LoopsGoOn`) |
| `SessionWakes` | 2 notices, 2 runs, a streak of 2; fair goroutines | no notice is lost or in two places; it gets through unless clients act for ever, wakes are held, or nobody looks (below) |
| `SessionGoals` | 2 texts, 2 runs, 2 nonces, one round, one retry | an active goal is worked on; it is met only by a round asked for its text, and stops only its own run |
| `SessionEvents` | 1 client, of the session or its subagent, 4 events, 2 runs, torn writes | the journal and its marks agree; nothing is skipped; the end of a run is shown when it is free and sleepers have no news (`StreamsAreTimely`); a watcher sees everything |
| `SummarySync` | 1 session, 2 clients that share a waiter slot, 2 epochs | a view the store accepts misses nothing; no sleeper is left with news |
| `SummaryConverges` | 2 sessions, 1 client, 1 change per answer, 1 tombstone; fair | once nothing is written, the copy becomes what is on disk |
| `ClientWaits` | 2 calls out of a question, a client tool, 2 computer and 2 rule calls (one of a subagent); 2 rules, 2 handlers, a failing write; fair waiters | an accepted answer is the result and one answer decides a prompt (`AnswersCount`); a grant covers all; waits end |

Fairness. `FairSpec` of `SessionQueue` assumes weak fairness of the worker's steps and of
the bookkeeping steps of a run: these goroutines only wait for `rt.mu`, whose critical
sections are finite, or for `rt.changed`, which is modelled. A *cancelled* turn is assumed
to end, because its context is done and every model call, tool and wait selects on it.
`QueueDrains` holds under `TurnsEnd`, which assumes that of every turn: providers and
tools have time-outs. No client action, load, eviction or crash is fair.

`FairSpec` of `RuntimeRegistry` assumes strong fairness of each request: a goroutine that
waits for a `sync.Mutex` gets it when it is free again and again, which Go guarantees
(after a millisecond the lock is handed to the longest waiter). The reaper, Close and new
requests are not fair.

`FairSpec` of `ImageJobs` assumes weak fairness of the dispatcher's choice and of each
goroutine (calls and downloads have time-outs), that time passes, and that a stopped
process ends and is started again. Clients are not fair, and neither is the provider: it
need not accept or finish anything.

`FairSpec` of `SessionTurns` assumes weak fairness of run goroutines (turns end), of the
goroutines that look for notices and start wake runs, and of the queue worker; neither
notices nor clients are fair.

`FairSpec` of `SummarySync` assumes that timers fire, that a goroutine gets a mutex that
is free again and again, and that a client goes on with its own protocol; writes,
restarts, failures and lost answers are not fair, and `Converges` asks nothing while they
go on for ever. A long poll's deadline is not assumed to pass, so that a client is woken
by the publication it waits for and not by luck. With two clients and one waiter slot the
second could be turned away as long as the first sleeps; the run has one client.

`FairSpec` of `ClientWaits` assumes that waiters take the lock and that timers fire, and
that an agent whose run is cancelled ends it once its calls have returned; the clients owe
nothing, and handlers are not fair.

`FairSpec` of `CronTasks` assumes that the ticker fires, that an execution ends (each has
a time-out) and that its goroutine gets its mutex. `LoopsGoOn` asks nothing of a
conversation that is deleted, quarantined or never free for good, nor of a closed process.

Disagreements with the documentation or the code's own comments. One is kept as a run that
must fail:

- `ProbeAgainstSwitch`: `sessionsExist` takes `rt.mu` under `s.mu`, a model switch takes
  `s.mu` under `rt.mu`; one of each can wait for the other forever (`history.go:177`,
  `server.go:937`, `994`, `1047`).

The others were met while modelling. The models contain the behaviour where they say so,
and the properties are stated so that they hold in spite of it:

- The queue is paused by every load of its document, also by the reload after an idle
  eviction, where no process restarted (`queue.go:73`, `docs/backend-queue.md:21`).
  `Load` of `SessionQueue`.
- `/compact` does not look at queue receipts, so it can take the id of a queued prompt;
  the worker then settles that prompt as accepted without executing it (`compact.go:63`,
  comment at `queue.go:628`). `Compact` of `SessionQueue`; hence `AcceptedOnce` speaks of
  executions and not of receipts.
- A load reads the journal before it registers its object; if another request loads,
  publishes, releases and loses the session to the reaper in between, the first registers
  an outdated position and the journal repeats a number (`server.go:1125`, comment at
  `event_journal.go:17`). It takes a load slower than the reaper's idle time.
  `RuntimeRegistry`; the theorem `OrderUntilEviction` says what is left.
- An edit of the history that fails after it replaced the journal and before it wrote the
  list of runs leaves `nextSeq` behind the file, and the next event repeats a number
  (`trajectory_history.go:187`). Not part of `SessionEvents`.
- The streak of wake runs reaches `maxWakeStreak + 1` when a run is accepted under a wake
  run that is starting (`wake.go`). `StreakIsBounded` of `SessionTurns` states that bound.
- A notice can stay in the backlog although the session is free: nobody looks after the
  last queue entry left without a run, or after another wake run was refused. `overlooked`
  of `SessionTurns`.
- A subagent whose state cannot be saved counts live for ever (`server.go:1218`), so a
  stream that watches it never ends. `SubUnsaved` of `SessionEvents`.
- A second result for a client tool is confirmed with 200 while its waiter has not yet
  woken, though its test expects 409 (`client_tools_test.go:119`); the first result
  counts. `ToolAnswerAgain` of `ClientWaits`; hence `AcceptedIsReturned` (of `AnswersCount`)
  says of confirmations only what holds of questions.
- `settleClientToolLocked` keeps the images of a result before the event that may fail, so
  that a call which then times out still shows them to the model. Below the model's grain.
- A rule that cannot be stored puts its prompt back although its call may have ended
  (`server.go:2064`); the prompt then stays until the session is closed and keeps its
  runtime from being evicted (`runtime_cache.go:29`). Of a suggestion with several rules
  those before the failure stay stored, and a prompt that registers after the rules that
  cover it were stored waits all the same. `Reopen`, `StoreRule`, `Register` of
  `ClientWaits`.
- A worker that accepts its run after its task was deleted, and its id used for a new one,
  writes its lease again under the new task (`cron_canonical.go:85`), although the comment
  at `cron_store.go:433` says that late workers must not recreate deleted leases. The lease ends with the
  worker and counts against the new task. `Accept` of `CronTasks`; hence `NoOverlap` is
  stated of workers and `WithinLimit` of the larger count.
- A completion that cannot be saved leaves its lease without a worker, and the task is not
  started again before a restart (`cron_store.go:376`). `Finish` of `CronTasks`; hence the
  exception in `LeasesEnd` and `LoopsGoOn`.
- Running a loop by hand does not look whether its log is full, so that it can push out a
  result which was not delivered; so can the age of 30 days. `NothingEvicted` names both.
- Delivery reads only the newest `cronRunLimit` records of a loop, its lease among them
  (`loop_execution.go:46`, `cron_store.go:471`), and a load ends a lease without dropping
  an older record (`cron_store.go:51`). After a run by hand over a full log whose end could
  not be saved, or in which the process ended, the oldest result stays in the log and is
  not delivered although the conversation is free; a later execution then pushes it out.
  `LeftBehind` of `CronTasks` is the exception `LoopsGoOn` makes for it.
- A request that holds the conversation may add a loop to it after its deletion
  (`loops.go:197`); its results are then never delivered. `CreateLoop` of
  `CronTasks`.
- `/compact` does not look at the queue either, so that between an interrupted run and the
  head of the queue a compaction can take the session (`compact.go:56`), and the
  interrupting request waits for it. The exception `Compacting` of `InterruptTakesEffect`.

## 5. Proofs

The theorems hold for every choice of the constants (any number of requests, objects,
items, notices, crashes and faults, any limit) under the named assumptions of each module:
sets of identities are finite where they are counted, `None` is not one of them, bounds
and limits are natural numbers. In each module `InvariantHolds` is `Spec => []IInv`; the
other theorems follow from it.

`SessionQueue_proofs`: `TypeCorrect`, `ExecutesOnce` (from `ExecutesAtMostOnce` and
`ExecutesOnlyDurable`),
`DispatchStaysPinned`, `RunsAreSerial`, and the action property `LineIsRespected`
(`Spec => NothingOvertakes`), joined in `HeadGoesFirstAlways`. None of these is inductive. At-most-once depends on a started
prompt being found again whenever its identity is looked up: in `rt.runs` while the
session is loaded and in `runs.json` while it is not (`RunsRemembered`), which a load
keeps because `RecoveredRuns` never overwrites a record. Serial runs depend on an
executing run being the current one of an active session (`RunningIsCurrent`), and that
on the lease of a goroutine, which rules out eviction under it (`RunsBound`,
`WorkerBound`). A pinned dispatch depends on `dispatch` being set exactly while the
worker is outside the lock, which `QueueOpen` tests. The module shows: helper lemmas on
sequences and records; one type lemma per group of actions (`NextType`); one lemma per
group for the runs' part (`NextKeepsRunInv`, through `NothingStarts` for steps that start
nothing and `StartKeepsRunInv` for the step that does) and for the worker's part
(`NextKeepsWorkerInv`); then `InitInv` and `NextInv`.

The module's second half is about the line: `ReceiptsAlwaysMatch`, `MemoryIsSaved`,
`RevisionsNameLines`, and the refinement `SessionImplementsLine`. Their invariant `LineInv`
joins three agreements: receipts with the saved line, the line in memory with the saved
one, and what clients saw with its revision. A step saves the line at most once and only
as one of the moves of `LineMoves` (append, put first, take out, put back, swap, remove,
pop); a lemma per move shows that it keeps the saved line together, with lemmas on
`RemoveAt`, `InsertAt` and `Tail` below it, and names the action of `PromptLine` it is.
Steps that leave the saved line alone leave the status of each request alone, but for the
start of a run, where the pinned dispatch (from `IInv`) tells `ExecuteHead` from
`ExecuteDirect`.

Its last part is about answers: `AnswersInvHolds` and `AnswersAlwaysHold`. That a final
receipt stays is hard because a client is told from memory, and what it is told must
survive in files that are written at other times, by other steps, and may fail. `AnswersInv`
says what they owe each other: in the journal no run id is accepted for two requests
(`AcceptancesSound`); a record of `rt.runs` or `runs.json` has an acceptance behind it or is
a compaction (`RecordsSound`); a terminal event in the journal is what its goroutine ended
in, and a run before its end has none (`EndsSound`); what memory says of a request is what a load
would make of the files (`MemorySound`); and a final answer that was told is kept as a
receipt or as a record (`AnswersKept`). The steps fall into six groups with one lemma each:
those that leave all of this alone (`QuietKeeps`), the acceptance of a run (`TakesKeeps`),
its terminal event (`TurnEndsKeeps`), the record of it (`NotesKeeps`), a load (`LoadKeeps`)
and everything that ends a session in memory (`EndsKeeps`). What the journal tells of an
identity is found by position, so the lemmas before them say what `First` and the last
terminal event become when one event is appended. The proof is why `FinalReceiptsStay`
excepts the two reuses of an id it names: a removed or refused request of which a crash
left an acceptance in the journal, which the next load attaches, and a compaction under the
id a queue receipt has, since `compactSession` looks at `rt.runs` only.

`RuntimeRegistry_proofs`: `TypeCorrect`, `LeasesKeepInstances`, `NothingIsLeaked` (from
`RuntimesAreOwned` and `CloseFindsEverySession`), the action properties `DeletedIsFinal` and `ColdReadsAreQuiet`,
and `OrderUntilEviction`. That the reaper leaves leased sessions alone is only as good as
the counter, so `LeasesCounted` says that it equals the number of requests that hold the
registered object, with a lemma on cardinalities per change of it. Ownership of resources
needs `SingleOwners` (no two owners, none for an object that is gone) and the marks of a
deletion `DeletedIsMarked`. `OrderUntilEviction` needs a second invariant
(`PositionsKnown`): until something is evicted, no object's position is behind the file.

`ImageJobs_proofs`: `TypeCorrect`, `NothingIsRepeated`, `JobsNeverStick`, `LeasesCoverWork`, and the action property `SettledJobsStay`. A
submission is only made for a queued item, so `QueuedIsUnsent` (a queued item left no
trace at the provider) is the heart of charging once; it is kept because an item returns
to the queue only from a call of which `SubmissionIsFirst` knows that nothing was
accepted, and because recovery queues nothing. `NeverStuck` rests on what `aggregateJob`
makes of the items (`AggregateOpen`), and needs `WorkIsOpen`: an item under a working
goroutine is open unless a cancellation ended the whole job. One lemma (`SettlingInv`)
covers every transaction that ends a call.

`SessionTurns_proofs`: `TypeCorrect`, `NoticesAccountedFor`, `WakeRunsStop` (the streak),
`ActiveGoalIsWorked`, and the action properties `MetByCurrentRound` and `PauseStopsOwnRun`,
together `GoalsEndRight`. `IInv` adds to the properties that one goroutine at a time is
before the end of its run and is the active one (`OneExecutes`), how the counter of wake
runs relates to the wake runs in a row (`StreakCounts`), that the round of a goal is a
goroutine whose prompt put a goal text (`RoundIsOwn`), and that a round which runs, or is
being started, for the goal's present revision has its present text
(`PromptsAreCurrent`): this is what a late verdict is compared with. For each part there
is one lemma per action, and the step theorem joins them.

`ClientWaits_proofs`: `TypeCorrect`, `EveryAnswerCounts`, `GrantsCoverAll`. `AskSound` says that the journal holds of a waiting call what its waiter
keeps: so whoever settles first settles for all, and a confirmed retry repeats what the
tool returns; a crash may lose the waiter but never makes it return something else.
`PromptSound` and `HandlerSound` go together: a prompt is open, or held by one handler, or
its decision is in the channel, never two of these, which every claim, send, reopening and
grant has to keep; and its suggestion is complete only once its handler is past storing
with "always". Asks and prompts share only the end of the run, so each half is inductive
by itself (`NextAsks`, `NextPrompts`).

`SummarySync_proofs`: `TypeCorrect`, `ViewsMissNothing`, `SleepersGetTold`. Every step moves
the cached summaries and their journal in one of six ways (`NextMoves`): not at all, by
pruning, recording, filling, expiring or closing. `MoveKeepsView` shows for each that a view
which is still accepted is still completed by the changes that are kept, because pruning
and expiry raise `minSince` to what they forget, and a fill or overflow draws a new epoch;
for this no view may be ahead of the store (`ViewSound`) and the journal must end with the
present revision (`ChangesKnown`). New views come from a build (`TakenSound`) and from an
answer (`DeliveredSound`), whose first changes are all there are up to its cursor
(`FirstAreAll`). `RolesSound` ties a scan in progress to the client it is for.

`CronTasks_proofs`: `TypeCorrect`, `RunsAreSound`, `ResultsAreSound`. What keeps the
executions of a task apart is not the log, from which a deletion drops the lease of a
running worker, but `active`: a goroutine that has not left is the active one of its task
(`WorkerSound`). Leases belong to tasks that are there and agree with their worker
(`LogSound`), also when a late worker writes one under a re-created task. The limit is kept
by `QuotaSound`: what the file allows is at most what clients allowed, or one more while
the counted lease that will be charged is there, so that a completion may fail to be
saved, and a restart may charge what a crash interrupted. That a result is not posted again
needs `TickSound`: the scheduler handles only results that were not acknowledged.
That no result is pushed out of the log needs a second invariant (`KeptInv`). Unless
somebody ran the loop by hand, a record that was not acknowledged has fewer than `RunLimit`
newer ones (`Room`), so the pruning spares it; between the check and the start, which are
separate steps, there is room for two. The check only counts the newest records, and
`NotFullIsRoom` shows that this is enough: with `RunLimit - 1` newer ones such a record and
they would be the newest. Every step but a start adds no record of a loop (`Moves`), also
the late `Accept` that writes its lease again: a loop's worker that executes has its lease
until the loop is deleted (`WorkerHasLease`), which holds as loops are never created again.
With tasks, whose ids come back, it fails; results are promised for loops only.

`SessionEvents_proofs`: `TypeCorrect`, `JournalStaysSound`, `NothingIsSkipped`,
`StreamsStayTimely`, `WatchersAlwaysSeeAll`. A client can trust its cursor only if every
read is complete: the events it returns are all there are after the cursor, up to the last
it returns, and it is empty only if there are none (`Complete`). Two invariants make it so.
`TailSound`: the tail has every event of the journal from its first on, or all if nothing
left it; and an event that is in the tail but not in the file stands for a line that cannot
be read, at its place in the order, which a scan must stop at (`LostKnown`; without it a
stream that changes from the tail to the file could pass over a lost event). `JournalSound`:
lines stand in the order of their numbers and marks split them, so that a scan from a mark
starts before what is wanted, wherever the journal was torn.
The proof has four parts. First lists: `Events`, `After` and `Edited` filter with `Pick`, a
recursive function, and the library's induction theorems cannot be used; `PickKeeps` says
what it returns, from the least length at which its equations, or the places of its
elements, would fail (`PickSolvable`, `SolutionPlaces`). Then the journal: `JournalInv` is
kept by an append of any number of lines of which some are torn (`AppendKeepsJournal`), by a
failure, by a journal made afresh by an edit or a load (`FreshKeepsJournal`), by unloading
and by the marks a read adds. Then reading: the tail and a scan are complete (`TailReplay`,
`ScanReplay`), and what a reader is shown of it stops before the end of a run that is still
on (`DeliverableIs`). Last the clients: `ServerStep` says what an action of the server is to
them (new events have higher numbers, those of the subagent appear only while it counts
live, a run that takes the session has a new id, and whoever sleeps is woken unless nothing
changed that it waits for), and `ServerKeepsClient` that any such step keeps what holds of a
client; `IdleKeepsClient` does it for what takes the session from memory or reads it back,
and one lemma per action for the steps of a stream. That a watcher misses nothing is `SubagentSound` with
`WatcherSound`: a stream that did not find its subagent live looks only after its last event.

Only model-checked: liveness and everything with fairness (`QueueDrains`, `CloseReturns`,
`InterruptTakesEffect`, and their like in the other modules), which are outside the prover's
reach.

## 6. Not modelled

The parts of section 1 without a module are listed in `PROJECT.json` with the reason or
their place in the plan. Of the modelled parts: the store log and snapshots of
`internal/imaging` (a transaction is taken to be atomic and durable), asset collection,
lease renewal, the transcript and its rewriting by compaction and history edits, the
validation of answers and schemas, page boundaries and encodings of the session list, and
errors that only end a request early.
