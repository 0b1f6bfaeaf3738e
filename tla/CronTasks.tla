----------------------------- MODULE CronTasks -----------------------------
(***************************************************************************)
(* Scheduled tasks: the file of tasks and execution records, the ticking   *)
(* scheduler, the workers it starts, and the conversation that gets the    *)
(* results of its loops.                                                   *)
(*                                                                         *)
(* Source: internal/backend/cron_store.go, cron_manager.go,                *)
(* cron_canonical.go, loops.go, loop_schedule.go, loop_execution.go.       *)
(*                                                                         *)
(* Each action is one critical section of cronStore.mu, of cronManager.mu  *)
(* (which start and cancel hold around the former), or of the parent       *)
(* conversation.  Memory and file agree between critical sections: the     *)
(* file is replaced in one rename, and a failed save restores memory.      *)
(***************************************************************************)
EXTENDS Integers, FiniteSets

CONSTANTS
  Tasks,        (* ids of tasks that clients choose and may use again        *)
  Loops,        (* ids of conversation loops, random and never used again    *)
  Limits,       (* values clients give remainingExecutions, besides none       *)
  None,         (* no task                                                   *)
  RunLimit,     (* cronRunLimit: finished records kept of a task             *)
  MaxRuns,      (* bound: executions                                         *)
  MaxEdits,     (* bound: edits of the list of tasks                         *)
  MaxBoots,     (* bound: ends of the process                                *)
  MaxFaults     (* bound: failing writes                                     *)

All == Tasks \cup Loops
RunIds == 1..MaxRuns
Unlimited == -1   (* no remainingExecutions *)

ASSUME CronIds == Tasks \cap Loops = {} /\ None \notin All
ASSUME CronBounds ==
  /\ RunLimit \in Nat \ {0} /\ MaxRuns \in Nat
  /\ MaxEdits \in Nat /\ MaxBoots \in Nat /\ MaxFaults \in Nat
  /\ Limits \subseteq Nat

VARIABLES
  (* The file, and the same in memory. *)
  tasks,        (* cronDisk.Tasks; with a loop's schedule against the clock  *)
  log,          (* cronDisk.Runs, by execution id in the order of start      *)
  aged,         (* executions up to this one started over cronRunAge ago     *)
  (* The manager. *)
  active,       (* cronManager.active: the execution of a task, or 0         *)
  worker,       (* the goroutines of executions                              *)
  tick,         (* the scheduler goroutine                                   *)
  closed,       (* cronManager.closed                                        *)
  cancelling,   (* removed loops whose worker is still to be cancelled       *)
  forgetting,   (* the parent was deleted and its loops not yet removed      *)
  (* The conversation of the loops. *)
  parent,       (* free, busy, quarantined, deleted, or gone: deleted before *)
                (* the last restart                                          *)
  history,      (* messages in its transcript that hold a result             *)
  (* Ghosts and bounds. *)
  quota,        (* executions a task may still have, by what clients set     *)
  nextRun, edits, boots, faults

fileVars   == <<tasks, log>>
runVars    == <<active, worker, nextRun, quota>>
serverVars == <<closed, cancelling, forgetting>>
parentVars == <<parent, history>>
boundVars  == <<edits, boots, aged>>
vars == <<fileVars, runVars, tick, serverVars, parentVars, boundVars, faults>>

-----------------------------------------------------------------------------
(* Records. *)

(* A loop is due once NextFireAt has passed, and over once ExpiresAt has. *)
Task ==
  [status: {"never", "there", "deleted"}, enabled: BOOLEAN,
   remaining: Nat \cup {Unlimited}, due: BOOLEAN, over: BOOLEAN]
NoTask ==
  [status |-> "never", enabled |-> FALSE, remaining |-> Unlimited,
   due |-> FALSE, over |-> FALSE]

Final == {"done", "expired"}

Record ==
  [state: {"none", "leased"} \cup Final, task: All \cup {None}, counted: BOOLEAN,
   delivered: BOOLEAN]
NoRecord == [state |-> "none", task |-> None, counted |-> FALSE, delivered |-> FALSE]
Lease(t, counted) ==
  [state |-> "leased", task |-> t, counted |-> counted, delivered |-> FALSE]

(* A worker executes, goes on under an accepted run, and leaves once it has     *)
(* recorded its end, or failed to.                                                *)
Worker ==
  [pc: {"none", "executing", "accepted", "leaving", "done"}, task: All \cup {None},
   counted: BOOLEAN, cancelled: BOOLEAN, saved: BOOLEAN]
NoWorker ==
  [pc |-> "none", task |-> None, counted |-> FALSE, cancelled |-> FALSE, saved |-> TRUE]

(* The scheduler works through a snapshot of the tasks; of a loop it first posts *)
(* the results it has read and acknowledges each, then looks whether to fire.     *)
Tick ==
  [pc: {"idle", "visit", "post", "ack", "check", "fire"}, todo: SUBSET All,
   task: All \cup {None}, results: SUBSET RunIds, seen: [All -> Task]]
NoTick ==
  [pc |-> "idle", todo |-> {}, task |-> None, results |-> {},
   seen |-> [t \in All |-> NoTask]]

There(t) == tasks[t].status = "there"
Leased(r, t) == log[r].state = "leased" /\ log[r].task = t
Undelivered(r, t) == log[r].state \in Final /\ log[r].task = t /\ ~log[r].delivered
Working(r) == worker[r].pc \in {"executing", "accepted"}

(* A save of the file succeeds, or fails within the bound. *)
Write(ok) ==
  /\ ok \/ faults < MaxFaults
  /\ faults' = IF ok THEN faults ELSE faults + 1

-----------------------------------------------------------------------------
(* Starting and ending an execution. *)

(* Fault: start relies on the log, where a deletion drops the lease of a worker. *)
StartableByLog(t, counted) ==
  /\ ~closed
  /\ There(t)
  /\ counted => tasks[t].enabled /\ tasks[t].remaining # 0
  /\ \A r \in RunIds : ~Leased(r, t)
  /\ t \in Loops => ~tasks[t].over /\ (counted => tasks[t].due)
  /\ nextRun \in RunIds

(* start and reserve: one execution of a task at a time, counted ones only of an *)
(* enabled task, of a loop only when it is due and not over.                      *)
Startable(t, counted) ==
  /\ ~closed /\ active[t] = 0
  /\ There(t)
  /\ counted => tasks[t].enabled /\ tasks[t].remaining # 0
  /\ \A r \in RunIds : ~Leased(r, t)
  /\ t \in Loops => ~tasks[t].over /\ (counted => tasks[t].due)
  /\ nextRun \in RunIds

Start(t, counted) ==
  /\ Startable(t, counted)
  /\ Write(TRUE)
  /\ tasks' = [tasks EXCEPT ![t].due = @ /\ ~counted]
  /\ log' = [log EXCEPT ![nextRun] = Lease(t, counted)]
  /\ active' = [active EXCEPT ![t] = nextRun]
  /\ worker' = [worker EXCEPT ![nextRun] =
       [pc |-> "executing", task |-> t, counted |-> counted, cancelled |-> FALSE, saved |-> TRUE]]
  /\ quota' = [quota EXCEPT ![t] = IF counted THEN @ - 1 ELSE @]
  /\ nextRun' = nextRun + 1

(* The note of a skipped occurrence of a task is left out: it delivers nothing and  *)
(* pushes out only older records of that task.                                       *)
Refused(t, counted) ==
  /\ Write(~Startable(t, counted))
  /\ UNCHANGED <<fileVars, runVars>>

(* recordLocked keeps the newest finished records of each task, none of them aged. *)
Kept(records) ==
  [r \in RunIds |->
     IF /\ records[r].state \in Final
        /\ r <= aged \/ Cardinality({q \in r + 1..MaxRuns : /\ records[q].state \in Final
                                               /\ records[q].task = records[r].task}) >= RunLimit
     THEN NoRecord ELSE records[r]]

(* Fault: a task without a limit is charged too. *)
ChargedAnyway(task) ==
  [task EXCEPT !.remaining = @ - 1, !.enabled = @ /\ task.remaining # 1]

(* One of the remaining executions is used; the last one disables the task.  One    *)
(* without any left is disabled already.                                              *)
Charged(task) ==
  IF task.remaining > 0
  THEN [task EXCEPT !.remaining = @ - 1, !.enabled = @ /\ task.remaining > 1] ELSE task

(* executeCronPromptCanonical records the accepted run, even where the record of  *)
(* its lease is gone; if it cannot be saved the worker cancels that run.            *)
Accept(r) ==
  /\ worker[r].pc = "executing"
  /\ worker' = [worker EXCEPT ![r].pc = "accepted"]
  /\ LET t == worker[r].task IN
     IF There(t) /\ log[r].state \notin Final
     THEN \/ /\ Write(TRUE)
             /\ log' = Kept([log EXCEPT ![r] = Lease(t, worker[r].counted)])
          \/ Write(FALSE) /\ UNCHANGED log
     ELSE UNCHANGED <<log, faults>>
  /\ UNCHANGED <<tasks, active, nextRun, quota, tick, serverVars, parentVars, boundVars>>

(* A task whose directory is missing is disabled, then its worker ends. *)
Unavailable(r) ==
  /\ worker[r].pc = "executing" /\ There(worker[r].task)
  /\ worker' = [worker EXCEPT ![r].pc = "accepted"]
  /\ \/ Write(TRUE) /\ tasks' = [tasks EXCEPT ![worker[r].task].enabled = FALSE]
     \/ Write(FALSE) /\ UNCHANGED tasks
  /\ UNCHANGED <<log, active, nextRun, quota, tick, serverVars, parentVars, boundVars>>

(* execute's end and recordCompletion: a lease that is gone or settled stays so. *)
Completed(r, state) ==
  LET t == worker[r].task IN
  /\ tasks' = IF worker[r].counted THEN [tasks EXCEPT ![t] = Charged(@)] ELSE tasks
  /\ log' = Kept([log EXCEPT ![r].state = state])

Finish(r) ==
  /\ Working(r)
  /\ \E saved \in BOOLEAN, state \in Final :
       /\ worker[r].cancelled => state = "expired"
       /\ worker' = [worker EXCEPT ![r].pc = "leaving", ![r].saved = saved,
                                     ![r].cancelled = FALSE]
       /\ IF There(worker[r].task) /\ log[r].state = "leased"
          THEN Write(saved) /\ IF saved THEN Completed(r, state) ELSE UNCHANGED fileVars
          ELSE saved /\ UNCHANGED <<fileVars, faults>>
  /\ UNCHANGED <<active, nextRun, quota, tick, serverVars, parentVars, boundVars>>

Leave(r) ==
  /\ worker[r].pc = "leaving"
  /\ worker' = [worker EXCEPT ![r].pc = "done", ![r].cancelled = FALSE]
  /\ active' = [active EXCEPT ![worker[r].task] = 0]
  /\ UNCHANGED <<fileVars, nextRun, quota, tick, serverVars, parentVars, boundVars, faults>>

-----------------------------------------------------------------------------
(* The scheduler: tick, tickLoop and deliverLoopResults. *)

Visited(t) ==
  [tick EXCEPT !.pc = "visit", !.todo = @ \ {t}, !.task = None, !.results = {},
               !.seen[t] = NoTask]
SchedulerStep == UNCHANGED <<serverVars, boundVars>>

TickBegin ==
  /\ tick.pc = "idle" /\ ~closed
  /\ tick' = [NoTick EXCEPT !.pc = "visit", !.todo = {t \in All : There(t)}, !.seen = tasks]
  /\ UNCHANGED <<fileVars, runVars, parentVars, faults>> /\ SchedulerStep

TickEnd ==
  /\ tick.pc = "visit" /\ tick.todo = {}
  /\ tick' = NoTick
  /\ UNCHANGED <<fileVars, runVars, parentVars, faults>> /\ SchedulerStep

(* A task whose cron expression matches now, or does not. *)
VisitTask(t) ==
  /\ tick.pc = "visit" /\ t \in tick.todo \cap Tasks
  /\ tick' = Visited(t)
  /\ \/ UNCHANGED <<fileVars, runVars, faults>>
     \/ /\ tick.seen[t].enabled /\ tick.seen[t].remaining # 0
        /\ Start(t, TRUE) \/ Refused(t, TRUE)
  /\ UNCHANGED parentVars /\ SchedulerStep

(* runs: the newest records of a loop, up to the limit, a lease among them. *)
Newer(r, l) == {q \in r + 1..MaxRuns : log[q].task = l}
Newest(l) == {r \in RunIds : log[r].task = l /\ Cardinality(Newer(r, l)) < RunLimit}

(* Fault: a loop that is disabled delivers nothing. *)
VisitEnabledLoop(l) ==
  /\ tick.pc = "visit" /\ l \in tick.todo \cap Loops
  /\ LET results == {r \in Newest(l) : tick.seen[l].enabled /\ Undelivered(r, l)} IN
     tick' = [tick EXCEPT !.pc = IF results = {} THEN "check" ELSE "post",
                          !.task = l, !.results = results]
  /\ UNCHANGED <<fileVars, runVars, parentVars, faults>> /\ SchedulerStep

(* Delivery begins by reading the newest records, and of them takes the finished   *)
(* results that are not delivered.                                                   *)
VisitLoop(l) ==
  /\ tick.pc = "visit" /\ l \in tick.todo \cap Loops
  /\ LET results == {r \in Newest(l) : Undelivered(r, l)} IN
     tick' = [tick EXCEPT !.pc = IF results = {} THEN "check" ELSE "post",
                          !.task = l, !.results = results]
  /\ UNCHANGED <<fileVars, runVars, parentVars, faults>> /\ SchedulerStep

Oldest(results) == {r \in results : \A q \in results : r <= q}
GiveUp == tick' = [tick EXCEPT !.pc = "check", !.results = {}]

(* The oldest result is appended to an idle parent unless a message has its id. *)
(* An unavailable parent or a failed save leaves the rest to a later tick; a     *)
(* failed event quarantines the parent.                                           *)
Post ==
  /\ tick.pc = "post"
  /\ \E r \in Oldest(tick.results) :
     \/ /\ parent = "free"
        /\ Write(TRUE)
        /\ history' = [history EXCEPT ![r] = IF @ = 0 THEN 1 ELSE @]
        /\ tick' = [tick EXCEPT !.pc = "ack"]
        /\ UNCHANGED parent
     \/ /\ parent = "free"
        /\ Write(FALSE)
        /\ history' = [history EXCEPT ![r] = IF @ = 0 THEN 1 ELSE @]
        /\ parent' = "quarantined"
        /\ GiveUp
     \/ /\ parent = "free" => history[r] = 0
        /\ Write(parent # "free")
        /\ GiveUp
        /\ UNCHANGED parentVars
  /\ UNCHANGED <<fileVars, runVars>> /\ SchedulerStep

Acknowledge ==
  /\ tick.pc = "ack"
  /\ \E r \in Oldest(tick.results) :
     \/ /\ Write(TRUE)
        /\ log' = [log EXCEPT ![r].delivered = @ \/ log[r].state # "none"]
        /\ tick' = [tick EXCEPT !.pc = IF tick.results = {r} THEN "check" ELSE "post",
                                !.results = @ \ {r}]
     \/ Write(FALSE) /\ UNCHANGED log /\ GiveUp
  /\ UNCHANGED <<tasks, runVars, parentVars>> /\ SchedulerStep

(* Fault: a loop is held back one result too late. *)
FullTooLate(l) ==
  LET newest == {r \in RunIds : log[r].task = l /\ Cardinality(Newer(r, l)) <= RunLimit}
  IN  Cardinality(newest) = RunLimit + 1 /\ \E r \in newest : ~log[r].delivered

(* A loop that is over is disabled; one that is due fires unless its log is full *)
(* and holds a result that is not delivered.                                      *)
Full(l) == Cardinality(Newest(l)) = RunLimit /\ \E r \in Newest(l) : ~log[r].delivered

Check ==
  /\ tick.pc = "check"
  /\ LET l == tick.task
         seen == tick.seen[l]
     IN
     \/ /\ seen.enabled /\ ~seen.over /\ seen.due /\ ~(There(l) /\ Full(l))
        /\ tick' = [tick EXCEPT !.pc = "fire"]
        /\ UNCHANGED <<tasks, faults>>
     \/ /\ ~seen.enabled \/ (~seen.over /\ (~seen.due \/ (There(l) /\ Full(l))))
        /\ tick' = Visited(l)
        /\ UNCHANGED <<tasks, faults>>
     \/ /\ seen.enabled /\ seen.over
        /\ tick' = Visited(l)
        /\ IF There(l) /\ tasks[l].enabled
           THEN \/ Write(TRUE) /\ tasks' = [tasks EXCEPT ![l].enabled = FALSE]
                \/ Write(FALSE) /\ UNCHANGED tasks
           ELSE UNCHANGED <<tasks, faults>>
  /\ UNCHANGED <<log, runVars, parentVars>> /\ SchedulerStep

Fire ==
  /\ tick.pc = "fire"
  /\ tick' = Visited(tick.task)
  /\ Start(tick.task, TRUE) \/ Refused(tick.task, TRUE)
  /\ UNCHANGED parentVars /\ SchedulerStep

-----------------------------------------------------------------------------
(* Clients.  apply refuses an edit that names an old revision, so an edit acts   *)
(* on the tasks its client has seen.                                               *)

Without(t) == [r \in RunIds |-> IF log[r].task = t THEN NoRecord ELSE log[r]]

(* An edit whose save fails answers an error and changes nothing.  Edits without    *)
(* effect are no steps.                                                               *)
Edit(t, task) ==
  /\ edits < MaxEdits /\ edits' = edits + 1
  /\ Write(TRUE)
  /\ tasks' = [tasks EXCEPT ![t] = task]
  /\ UNCHANGED <<active, worker, nextRun, tick, closed, forgetting, parentVars, boots, aged>>

Create(t, enabled, limit) ==
  /\ ~There(t)
  /\ Edit(t, [NoTask EXCEPT !.status = "there", !.enabled = enabled /\ limit # 0,
                            !.remaining = limit])
  /\ quota' = [quota EXCEPT ![t] = limit]
  /\ UNCHANGED <<log, cancelling>>

(* A loop is due at once; it belongs to the parent.  A request that has found the   *)
(* conversation adds its loop even after the deletion, until the process ends.        *)
CreateLoop(l) ==
  /\ tasks[l].status = "never" /\ parent # "gone"
  /\ Edit(l, [NoTask EXCEPT !.status = "there", !.enabled = TRUE, !.due = TRUE])
  /\ UNCHANGED <<log, quota, cancelling>>

SetLimit(t, limit) ==
  /\ There(t) /\ {limit, tasks[t].remaining} # {Unlimited}
  /\ Edit(t, [tasks[t] EXCEPT !.remaining = limit, !.enabled = @ /\ limit # 0])
  /\ quota' = [quota EXCEPT ![t] = limit]
  /\ UNCHANGED <<log, cancelling>>

(* Without executions left a task stays off. *)
SetEnabled(t, enabled) ==
  /\ There(t) /\ tasks[t].enabled # (enabled /\ tasks[t].remaining # 0)
  /\ Edit(t, [tasks[t] EXCEPT !.enabled = enabled /\ tasks[t].remaining # 0])
  /\ UNCHANGED <<log, quota, cancelling>>

(* Deleting drops the records; cancelling a loop also cancels its worker, later. *)
Delete(t, cancel) ==
  /\ There(t)
  /\ Edit(t, [NoTask EXCEPT !.status = "deleted"])
  /\ log' = Without(t)
  /\ cancelling' = IF cancel THEN cancelling \cup {t} ELSE cancelling
  /\ UNCHANGED quota

CancelWorker(t) == [worker EXCEPT ![active[t]].cancelled = Working(active[t])]

CancelRemoved(l) ==
  /\ l \in cancelling
  /\ cancelling' = cancelling \ {l}
  /\ worker' = IF active[l] # 0 THEN CancelWorker(l) ELSE worker
  /\ UNCHANGED <<fileVars, active, nextRun, quota, tick, closed, forgetting, parentVars,
                 boundVars, faults>>

RunNow(t) ==
  /\ Start(t, FALSE)
  /\ UNCHANGED <<tick, serverVars, parentVars, boundVars>>

Cancel(t) ==
  /\ active[t] # 0 /\ Leased(active[t], t)
  /\ worker' = CancelWorker(t)
  /\ UNCHANGED <<fileVars, active, nextRun, quota, tick, serverVars, parentVars, boundVars,
                 faults>>

ClearRuns(t) ==
  /\ There(t) /\ \E r \in RunIds : log[r].task = t /\ log[r].state \in Final
  /\ edits < MaxEdits /\ edits' = edits + 1
  /\ Write(TRUE)
  /\ log' = [r \in RunIds |->
       IF log[r].task = t /\ log[r].state \in Final THEN NoRecord ELSE log[r]]
  /\ UNCHANGED <<tasks, runVars, tick, serverVars, parentVars, boots, aged>>

-----------------------------------------------------------------------------
(* The parent conversation. *)

DeleteParent ==
  /\ parent = "free"
  /\ parent' = "deleted" /\ history' = [r \in RunIds |-> 0] /\ forgetting' = TRUE
  /\ UNCHANGED <<fileVars, runVars, tick, closed, cancelling, boundVars, faults>>

(* forgetSession removes the loops; their workers are cancelled though it fails. *)
ForgetSession ==
  /\ forgetting /\ forgetting' = FALSE
  /\ cancelling' = cancelling \cup {l \in Loops : There(l)}
  /\ \/ /\ Write(TRUE)
        /\ tasks' = [t \in All |-> IF t \in Loops /\ There(t)
                                   THEN [NoTask EXCEPT !.status = "deleted"] ELSE tasks[t]]
        /\ log' = [r \in RunIds |-> IF log[r].task \in Loops THEN NoRecord ELSE log[r]]
     \/ Write(FALSE) /\ UNCHANGED fileVars
  /\ UNCHANGED <<runVars, tick, closed, parentVars, boundVars>>

ParentRuns ==
  /\ parent \in {"free", "busy"}
  /\ parent' \in {"free", "busy"} \ {parent}
  /\ UNCHANGED <<fileVars, runVars, tick, serverVars, history, boundVars, faults>>

(* A compaction or an edit of the history drops a message. *)
Rewrite(r) ==
  /\ parent \in {"free", "busy"} /\ history[r] # 0
  /\ history' = [history EXCEPT ![r] = 0]
  /\ UNCHANGED <<fileVars, runVars, tick, serverVars, parent, boundVars, faults>>

-----------------------------------------------------------------------------
(* Time and the process. *)

TimePasses(l) ==
  /\ There(l)
  /\ \/ tasks' = [tasks EXCEPT ![l].due = TRUE]
     \/ tasks' = [tasks EXCEPT ![l].over = TRUE]
  /\ UNCHANGED <<log, runVars, tick, serverVars, parentVars, boundVars, faults>>

RecordsAge ==
  /\ aged + 1 < nextRun
  /\ aged' = aged + 1
  /\ UNCHANGED <<fileVars, runVars, tick, serverVars, parentVars, edits, boots, faults>>

Close ==
  /\ ~closed /\ closed' = TRUE
  /\ worker' = [r \in RunIds |-> [worker[r] EXCEPT
       !.cancelled = @ \/ (Working(r) /\ \E t \in All : active[t] = r)]]
  /\ UNCHANGED <<fileVars, active, nextRun, quota, tick, cancelling, forgetting, parentVars,
                 boundVars, faults>>

(* newCronStore: an execution that was interrupted is over, and counts. *)
Restart ==
  /\ boots < MaxBoots /\ boots' = boots + 1
  /\ tasks' = [t \in All |->
       IF There(t) /\ \E r \in RunIds : Leased(r, t) /\ log[r].counted
       THEN Charged(tasks[t]) ELSE tasks[t]]
  /\ log' = [r \in RunIds |->
       IF log[r].state = "leased" THEN [log[r] EXCEPT !.state = "expired"] ELSE log[r]]
  /\ active' = [t \in All |-> 0]
  /\ worker' = [r \in RunIds |->
       IF worker[r].pc # "none" THEN [worker[r] EXCEPT !.pc = "done", !.cancelled = FALSE, !.saved = TRUE]
       ELSE worker[r]]
  /\ tick' = NoTick
  /\ closed' = FALSE /\ cancelling' = {} /\ forgetting' = FALSE
  /\ parent' = IF parent \in {"deleted", "gone"} THEN "gone" ELSE "free"
  /\ UNCHANGED <<nextRun, quota, history, edits, aged, faults>>

-----------------------------------------------------------------------------
Init ==
  /\ tasks = [t \in All |-> NoTask] /\ log = [r \in RunIds |-> NoRecord]
  /\ active = [t \in All |-> 0] /\ worker = [r \in RunIds |-> NoWorker] /\ nextRun = 1
  /\ tick = NoTick
  /\ closed = FALSE /\ cancelling = {} /\ forgetting = FALSE
  /\ parent = "free" /\ history = [r \in RunIds |-> 0]
  /\ quota = [t \in All |-> Unlimited] /\ aged = 0
  /\ edits = 0 /\ boots = 0 /\ faults = 0

WorkerStep(r) == Accept(r) \/ Unavailable(r) \/ Finish(r) \/ Leave(r)

TickStep ==
  \/ TickBegin \/ TickEnd
  \/ \E t \in Tasks : VisitTask(t)
  \/ \E l \in Loops : VisitLoop(l)
  \/ Post \/ Acknowledge \/ Check \/ Fire

ClientStep ==
  \/ \E t \in Tasks, enabled \in BOOLEAN, limit \in Limits \cup {Unlimited} : Create(t, enabled, limit)
  \/ \E l \in Loops : CreateLoop(l) \/ CancelRemoved(l) \/ Delete(l, TRUE)
  \/ \E t \in All :
       \/ \E limit \in Limits \cup {Unlimited} : SetLimit(t, limit)
       \/ \E enabled \in BOOLEAN : SetEnabled(t, enabled)
       \/ Delete(t, FALSE) \/ RunNow(t) \/ Cancel(t) \/ ClearRuns(t)

ParentStep ==
  \/ DeleteParent \/ ForgetSession \/ ParentRuns
  \/ \E r \in RunIds : Rewrite(r)

Next ==
  \/ \E r \in RunIds : WorkerStep(r)
  \/ TickStep
  \/ ClientStep
  \/ ParentStep
  \/ RecordsAge \/ \E l \in Loops : TimePasses(l)
  \/ Close
  \/ Restart

Spec == Init /\ [][Next]_vars

(* The ticker fires, an execution ends by its timeout, and goroutines get their *)
(* mutex.                                                                         *)
FairSpec ==
  /\ Spec
  /\ WF_vars(TickStep)
  /\ \A r \in RunIds : WF_vars(Finish(r)) /\ WF_vars(Leave(r))

-----------------------------------------------------------------------------
(* Properties. *)

(* Every variable holds a value of its kind. *)
TypeOK ==
  /\ tasks \in [All -> Task] /\ log \in [RunIds -> Record]
  /\ active \in [All -> 0..MaxRuns] /\ worker \in [RunIds -> Worker]
  /\ nextRun \in 1..MaxRuns + 1 /\ aged \in 0..MaxRuns /\ quota \in [All -> Int]
  /\ tick \in Tick
  /\ closed \in BOOLEAN /\ cancelling \subseteq Loops /\ forgetting \in BOOLEAN
  /\ parent \in {"free", "busy", "quarantined", "deleted", "gone"}
  /\ history \in [RunIds -> Nat]
  /\ edits \in Nat /\ boots \in Nat /\ faults \in Nat

(* Workers of one task never overlap, though the task was deleted and its id    *)
(* given to another meanwhile.                                                    *)
NoOverlap ==
  \A q, r \in RunIds : Working(q) /\ Working(r) /\ worker[q].task = worker[r].task => q = r

(* A lease has a worker that will end it, unless the end could not be saved: no  *)
(* crash, deletion, re-creation or late worker blocks a task.                      *)
LeasesEnd == \A r \in RunIds : log[r].state = "leased" => Working(r) \/ ~worker[r].saved

(* A task is started on schedule no more often than its clients allowed, over     *)
(* crashes, failed saves, edits and re-creation while it executes.                 *)
WithinLimit == \A t \in All : tasks[t].remaining # Unlimited => quota[t] >= 0

RunsSound == NoOverlap /\ LeasesEnd /\ WithinLimit

(* The conversation never holds a result twice, and one that was acknowledged is  *)
(* not posted again, whatever fails between the two.                                *)
PostedOnce == \A r \in RunIds : history[r] <= 1
NotPostedAgain == [][\A r \in RunIds : log[r].delivered => history'[r] <= history[r]]_vars

(* A result that was not delivered leaves the log only with its loop, when a        *)
(* client clears the log, by age, or pushed out after somebody ran the loop by hand. *)
Cleared(l) == \A r \in RunIds : log'[r].task = l => log'[r].state \notin Final
NothingEvicted ==
  [][\A l \in Loops, r \in RunIds :
       Undelivered(r, l) /\ tasks'[l].status = "there" /\ log'[r].task # l
       => Cleared(l) \/ r <= aged \/ \E q \in RunIds : worker[q].task = l /\ ~worker[q].counted]_vars

ResultsSound == []PostedOnce /\ NotPostedAgain /\ NothingEvicted

(* When the parent is free in the end, its results are delivered, and no loop that  *)
(* is enabled and due is left without an execution, unless an end was not saved.      *)
(* Excepted is a result behind the newest records, which the scheduler does not read: *)
(* only runs by hand, together with an end that a failed save or a crash kept from      *)
(* being recorded, leave one there.                                                       *)
CanFire(l) == There(l) /\ tasks[l].enabled /\ tasks[l].remaining # 0 /\ tasks[l].due /\ ~tasks[l].over
Jammed(l) == \E r \in RunIds : Leased(r, l) /\ ~worker[r].saved
ByHand(l) == \E q \in RunIds : worker[q].task = l /\ ~worker[q].counted
LeftBehind(r, l) == r \notin Newest(l) /\ ByHand(l) /\ (Jammed(l) \/ boots > 0)
LoopsGoOn ==
  <>[](parent = "free" /\ ~closed) =>
    /\ []<>(\A l \in Loops, r \in RunIds : Undelivered(r, l) => LeftBehind(r, l))
    /\ []<>(\A l \in Loops : CanFire(l) => Jammed(l) \/ nextRun \notin RunIds)

-----------------------------------------------------------------------------
(* The inductive invariants behind the theorems of CronTasks_proofs. *)

(* The scheduler handles results of a loop that were not acknowledged. *)
TickSound ==
  /\ tick.pc \in {"post", "ack", "check", "fire"} => tick.task \in Loops
  /\ \A r \in tick.results : ~log[r].delivered

(* A goroutine that has not left is the active one of its task. *)
WorkerSound ==
  \A r \in RunIds :
    /\ worker[r].pc \in {"executing", "accepted", "leaving"} =>
         worker[r].task \in All /\ active[worker[r].task] = r
    /\ r >= nextRun => worker[r].pc = "none" /\ log[r].state = "none"

(* Records belong to tasks that are there, and a lease to its worker. *)
LogSound ==
  \A r \in RunIds :
    /\ log[r].state # "none" => log[r].task \in All /\ There(log[r].task)
    /\ log[r].state = "leased" =>
         /\ log[r].task = worker[r].task /\ log[r].counted = worker[r].counted
         /\ Working(r) \/ ~worker[r].saved

(* What the file still allows a task, the counted lease that will be charged aside, *)
(* is what its clients allowed.                                                        *)
Charging(t) == \E r \in RunIds : Leased(r, t) /\ log[r].counted
QuotaSound ==
  \A t \in All : tasks[t].remaining # Unlimited =>
    /\ quota[t] >= 0
    /\ \/ tasks[t].remaining <= quota[t]
       \/ Charging(t) /\ tasks[t].remaining <= quota[t] + 1

IInv == TypeOK /\ TickSound /\ WorkerSound /\ LogSound /\ QuotaSound /\ PostedOnce

(* What keeps the results of a loop in the log, while nobody runs it by hand: what   *)
(* was not acknowledged is among the newest records, so the limit drops none of it;    *)
(* and while the scheduler is about to fire there is room for one more.                 *)
Room(l, n) ==
  \A r \in RunIds :
    log[r].task = l /\ ~log[r].delivered => Cardinality(Newer(r, l)) + n <= RunLimit
ResultsKept ==
  /\ \A l \in Loops : ByHand(l) \/ Room(l, 1)
  /\ tick.pc = "fire" => ByHand(tick.task) \/ Room(tick.task, 2)

(* A worker of a loop that executes has its lease, not acknowledged, until the loop    *)
(* is deleted; a final record has no worker that could write a lease over it, and       *)
(* neither have the results that the scheduler handles.                                   *)
WorkerHasLease(r) ==
  LET t == worker[r].task IN
  worker[r].pc = "executing" /\ t \in Loops => Leased(r, t) \/ tasks[t].status = "deleted"
RecordSound(r) ==
  /\ worker[r].pc = "none" => worker[r].task = None
  /\ log[r].state = "none" => log[r].task = None
  /\ log[r].state \in Final => worker[r].pc # "executing"
  /\ log[r].state = "leased" => ~log[r].delivered
RecordsSound ==
  /\ \A r \in RunIds : WorkerHasLease(r) /\ RecordSound(r)
  /\ \A r \in tick.results :
       r < nextRun /\ worker[r].pc # "executing" /\ log[r].state # "leased"

KeptInv == IInv /\ ResultsKept /\ RecordsSound
=============================================================================
