-------------------------- MODULE CronTasks_proofs --------------------------
(***************************************************************************)
(* Theorems of CronTasks, for any tasks, loops and limits.  IInv is shown   *)
(* inductive: the workers first, the scheduler and the other steps after.   *)
(* KeptInv adds why no result is pushed out of the log; it is shown after.  *)
(***************************************************************************)
EXTENDS CronTasks, TLAPS, FiniteSetTheorems

-----------------------------------------------------------------------------
(* Records and tasks. *)

(* recordLocked drops only finished records. *)
LEMMA KeptRecords ==
  ASSUME NEW records \in [RunIds -> Record]
  PROVE  /\ Kept(records) \in [RunIds -> Record]
         /\ \A r \in RunIds : Kept(records)[r] \in {records[r], NoRecord}
         /\ \A r \in RunIds : records[r].state \notin Final => Kept(records)[r] = records[r]
<1>1. NoRecord \in Record
  BY DEF NoRecord, Record, Final
<1> DEFINE Old(r) == Cardinality({q \in r + 1..MaxRuns :
                       records[q].state \in Final /\ records[q].task = records[r].task}) >= RunLimit
<1>2. Kept(records) = [r \in RunIds |->
         IF records[r].state \in Final /\ (r <= aged \/ Old(r)) THEN NoRecord ELSE records[r]]
  BY DEF Kept
<1> HIDE DEF Old
<1> QED BY <1>1, <1>2

LEMMA LeaseRecord ==
  ASSUME NEW t \in All, NEW counted \in BOOLEAN
  PROVE  /\ Lease(t, counted) \in Record
         /\ Lease(t, counted).state = "leased" /\ Lease(t, counted).task = t
         /\ Lease(t, counted).counted = counted /\ ~Lease(t, counted).delivered
BY DEF Lease, Record

(* One execution is charged, if any is left. *)
LEMMA ChargedTask ==
  ASSUME NEW task \in Task
  PROVE  /\ Charged(task) \in Task /\ Charged(task).status = task.status
         /\ task.remaining > 0 => Charged(task).remaining = task.remaining - 1
         /\ ~(task.remaining > 0) => Charged(task) = task
<1>1. CASE task.remaining > 0
  <2>1. task.remaining \in Nat /\ task.remaining - 1 \in Nat
    BY <1>1 DEF Task, Unlimited
  <2>2. (task.enabled /\ task.remaining > 1) \in BOOLEAN
    OBVIOUS
  <2>3. PICK b \in BOOLEAN : Charged(task) = [task EXCEPT !.remaining = @ - 1, !.enabled = b]
    BY <1>1, <2>2 DEF Charged
  <2> QED BY <1>1, <2>1, <2>3 DEF Task
<1>2. CASE ~(task.remaining > 0)
  BY <1>2 DEF Charged
<1> QED BY <1>1, <1>2

LEMMA Kinds ==
  /\ NoTask \in Task /\ NoTask.status = "never" /\ NoTask.remaining = Unlimited
  /\ NoRecord \in Record /\ NoRecord.state = "none" /\ ~NoRecord.delivered
  /\ NoWorker \in Worker /\ NoWorker.pc = "none" /\ NoTick \in Tick
BY DEF NoTask, Task, NoRecord, Record, Final, NoWorker, Worker, NoTick, Tick

-----------------------------------------------------------------------------
(* What steps leave alone. *)

LEMMA TickKept ==
  ASSUME TickSound, UNCHANGED tick,
         \A r \in tick.results : log'[r].delivered => log[r].delivered
  PROVE  TickSound'
BY DEF TickSound

LEMMA WorkersKept ==
  ASSUME WorkerSound, UNCHANGED <<active, nextRun>>,
         \A r \in RunIds :
           /\ worker'[r].task = worker[r].task
           /\ \/ worker'[r].pc = worker[r].pc
              \/ /\ worker[r].pc \in {"executing", "accepted"}
                 /\ worker'[r].pc \in {"accepted", "leaving"}
           /\ \/ log'[r].state = log[r].state
              \/ log'[r].state = "none" \/ worker[r].pc # "none"
  PROVE  WorkerSound'
BY DEF WorkerSound

LEMMA LogKept ==
  ASSUME LogSound, UNCHANGED log,
         \A t \in All : There(t) => There(t)',
         \A r \in RunIds :
           log[r].state = "leased" =>
             /\ worker'[r].task = worker[r].task /\ worker'[r].counted = worker[r].counted
             /\ worker'[r].saved = worker[r].saved /\ (Working(r) => Working(r)')
  PROVE  LogSound'
BY DEF LogSound

LEMMA QuotaKept ==
  ASSUME QuotaSound, UNCHANGED quota,
         \A t \in All : tasks'[t].remaining \in {tasks[t].remaining, Unlimited},
         \A r \in RunIds : log[r].state = "leased" => log'[r] = log[r]
  PROVE  QuotaSound'
BY DEF QuotaSound, Charging, Leased

-----------------------------------------------------------------------------
(* The steps of an execution. *)

LEMMA StartStep ==
  ASSUME IInv, NEW t \in All, NEW counted \in BOOLEAN, Start(t, counted),
         UNCHANGED <<serverVars, parentVars, boundVars>>
  PROVE  /\ tasks' \in [All -> Task] /\ log' \in [RunIds -> Record]
         /\ active' \in [All -> 0..MaxRuns] /\ worker' \in [RunIds -> Worker]
         /\ nextRun' \in 1..MaxRuns + 1 /\ quota' \in [All -> Int] /\ faults' \in Nat
         /\ \A r \in RunIds : log'[r].delivered => log[r].delivered
         /\ WorkerSound' /\ LogSound' /\ QuotaSound'
<1> DEFINE n == nextRun
<1>1. /\ n \in RunIds /\ n \in 1..MaxRuns /\ nextRun' = n + 1 /\ There(t) /\ active[t] = 0
      /\ counted => tasks[t].remaining # 0
      /\ \A r \in RunIds : ~Leased(r, t)
  BY DEF Start, Startable, RunIds
<1>2. PICK b \in BOOLEAN : tasks' = [tasks EXCEPT ![t].due = b]
  <2>1. (tasks[t].due /\ ~counted) \in BOOLEAN
    OBVIOUS
  <2> QED BY <2>1 DEF Start
<1>3. /\ log' = [log EXCEPT ![n] = Lease(t, counted)]
      /\ active' = [active EXCEPT ![t] = n]
      /\ worker' = [worker EXCEPT ![n] = [pc |-> "executing", task |-> t, counted |-> counted,
                                          cancelled |-> FALSE, saved |-> TRUE]]
      /\ quota' = [quota EXCEPT ![t] = IF counted THEN @ - 1 ELSE @]
      /\ faults' = faults
  BY DEF Start, Write
<1> HIDE DEF n
<1>4. /\ TypeOK /\ WorkerSound /\ LogSound /\ QuotaSound
      /\ tasks \in [All -> Task] /\ log \in [RunIds -> Record] /\ active \in [All -> 0..MaxRuns]
      /\ worker \in [RunIds -> Worker] /\ quota \in [All -> Int]
  BY DEF IInv, TypeOK
<1>5. MaxRuns \in Nat
  BY CronBounds
<1>6. tasks' \in [All -> Task] /\ \A u \in All : /\ tasks'[u].status = tasks[u].status
                                               /\ tasks'[u].remaining = tasks[u].remaining
  BY <1>2, <1>4 DEF Task
<1>7. log' \in [RunIds -> Record] /\ active' \in [All -> 0..MaxRuns]
  BY <1>1, <1>3, <1>4, LeaseRecord
<1>8. worker' \in [RunIds -> Worker]
  <2>1. [pc |-> "executing", task |-> t, counted |-> counted, cancelled |-> FALSE, saved |-> TRUE]
          \in Worker
    BY DEF Worker
  <2> QED BY <1>1, <1>3, <1>4, <2>1
<1>9. quota' \in [All -> Int] /\ faults' \in Nat
  BY <1>3, <1>4 DEF TypeOK
<1>10. nextRun' \in 1..MaxRuns + 1
  BY <1>1, <1>5
<1>11. \A r \in RunIds : log'[r].delivered => log[r].delivered
  BY <1>1, <1>3, <1>4, LeaseRecord
<1>12. WorkerSound'
  BY <1>1, <1>3, <1>4, <1>5 DEF WorkerSound, RunIds, n
<1>13. LogSound'
  <2> SUFFICES ASSUME NEW r \in RunIds
               PROVE  /\ log'[r].state # "none" =>
                           log'[r].task \in All /\ tasks'[log'[r].task].status = "there"
                      /\ log'[r].state = "leased" =>
                           /\ log'[r].task = worker'[r].task /\ log'[r].counted = worker'[r].counted
                           /\ Working(r)' \/ ~worker'[r].saved
    BY DEF LogSound, There
  <2>1. CASE r = n
    BY <1>1, <1>3, <1>4, <1>6, <2>1, LeaseRecord DEF There, Working
  <2>2. CASE r # n
    <3>1. log'[r] = log[r] /\ worker'[r] = worker[r]
      BY <1>1, <1>3, <1>4, <2>2
    <3>2. log[r].state # "none" => log[r].task \in All /\ There(log[r].task)
      BY <1>4 DEF LogSound
    <3>3. log[r].state # "none" => tasks'[log[r].task].status = "there"
      BY <1>6, <3>2 DEF There
    <3>4. log[r].state = "leased" =>
            /\ log[r].task = worker[r].task /\ log[r].counted = worker[r].counted
            /\ Working(r) \/ ~worker[r].saved
      BY <1>4 DEF LogSound
    <3> QED BY <3>1, <3>2, <3>3, <3>4 DEF Working
  <2> QED BY <2>1, <2>2
<1>14. QuotaSound'
  <2> SUFFICES ASSUME NEW u \in All, tasks[u].remaining # Unlimited
               PROVE  /\ quota'[u] >= 0
                      /\ \/ tasks[u].remaining <= quota'[u]
                         \/ Charging(u)' /\ tasks[u].remaining <= quota'[u] + 1
    BY <1>6 DEF QuotaSound
  <2>1. tasks[u].remaining \in Nat /\ quota[u] \in Int
    BY <1>4 DEF Task
  <2>2. /\ quota[u] >= 0
        /\ \/ tasks[u].remaining <= quota[u]
           \/ Charging(u) /\ tasks[u].remaining <= quota[u] + 1
    BY <1>4 DEF QuotaSound
  <2>3. log[n].state = "none"
    BY <1>1, <1>4, <1>5 DEF WorkerSound, RunIds, n
  <2>4. \A r \in RunIds : log[r].state = "leased" => log'[r] = log[r]
    BY <1>1, <1>3, <1>4, <2>3
  <2>5. Charging(u) => Charging(u)'
    BY <2>4 DEF Charging, Leased
  <2>6. CASE ~(u = t /\ counted)
    BY <1>3, <1>4, <2>1, <2>2, <2>5, <2>6
  <2>7. CASE u = t /\ counted
    <3>1. ~Charging(u)
      BY <1>1, <2>7 DEF Charging
    <3>2. quota'[u] = quota[u] - 1
      BY <1>3, <1>4, <2>7
    <3>3. Charging(u)'
      BY <1>1, <1>3, <1>4, <2>7, LeaseRecord DEF Charging, Leased
    <3> QED BY <1>1, <2>1, <2>2, <2>7, <3>1, <3>2, <3>3
  <2> QED BY <2>6, <2>7
<1> QED BY <1>6, <1>7, <1>8, <1>9, <1>10, <1>11, <1>12, <1>13, <1>14

LEMMA AcceptStep ==
  ASSUME IInv, NEW r \in RunIds, Accept(r)
  PROVE  IInv'
<1> DEFINE t == worker[r].task
           lease == Lease(t, worker[r].counted)
           records == [log EXCEPT ![r] = lease]
<1>1. /\ worker[r].pc = "executing" /\ worker' = [worker EXCEPT ![r].pc = "accepted"]
      /\ UNCHANGED <<tasks, active, nextRun, quota, tick, serverVars, parentVars, boundVars>>
  BY DEF Accept
<1>2. /\ TypeOK /\ TickSound /\ WorkerSound /\ LogSound /\ QuotaSound /\ PostedOnce
      /\ tasks \in [All -> Task] /\ log \in [RunIds -> Record]
      /\ worker \in [RunIds -> Worker] /\ quota \in [All -> Int] /\ tick \in Tick
  BY DEF IInv, TypeOK
<1>3. t \in All /\ worker[r].counted \in BOOLEAN
  BY <1>1, <1>2 DEF WorkerSound, Worker
<1>4. /\ lease \in Record /\ lease.state = "leased" /\ lease.task = t
      /\ lease.counted = worker[r].counted /\ ~lease.delivered
  BY <1>3, LeaseRecord
<1> HIDE DEF lease
<1>5. records \in [RunIds -> Record]
  BY <1>2, <1>4
<1>6. faults' \in Nat /\ (log' = log \/ (There(t) /\ log' = Kept(records)))
  <2>1. faults \in Nat
    BY <1>2 DEF TypeOK
  <2>2. CASE There(t) /\ log[r].state \notin Final
    <3>1. \/ Write(TRUE) /\ log' = Kept(records)
          \/ Write(FALSE) /\ UNCHANGED log
      BY <2>2 DEF Accept, lease
    <3> QED BY <2>1, <2>2, <3>1 DEF Write
  <2>3. CASE ~(There(t) /\ log[r].state \notin Final)
    BY <2>1, <2>3 DEF Accept
  <2> QED BY <2>2, <2>3
<1>7. log' \in [RunIds -> Record]
  BY <1>2, <1>5, <1>6, KeptRecords
<1>8. \A q \in RunIds :
        log'[q] \in {log[q], NoRecord} \/ (q = r /\ There(t) /\ log'[q] = lease)
  <2>1. CASE log' = log
    BY <2>1
  <2>2. CASE There(t) /\ log' = Kept(records)
    <3>1. \A q \in RunIds : log'[q] \in {records[q], NoRecord}
      BY <1>5, <2>2, KeptRecords
    <3> QED BY <1>2, <2>2, <3>1
  <2> QED BY <1>6, <2>1, <2>2
<1>9. \A q \in RunIds : log[q].state = "leased" /\ q # r => log'[q] = log[q]
  BY <1>2, <1>5, <1>6, KeptRecords DEF Final
<1>10. log'[r] = log[r] \/ log'[r] = lease
  <2>1. CASE log' = Kept(records)
    <3>1. records[r] = lease
      BY <1>2
    <3> QED BY <1>4, <1>5, <2>1, <3>1, KeptRecords DEF Final
  <2> QED BY <1>6, <2>1
<1> HIDE DEF records, t
<1>11. worker' \in [RunIds -> Worker]
  BY <1>1, <1>2 DEF Worker
<1>12. TypeOK'
  BY <1>1, <1>2, <1>6, <1>7, <1>11 DEF TypeOK, serverVars, parentVars, boundVars
<1>13. TickSound'
  <2>1. \A q \in RunIds : log'[q].delivered => log[q].delivered
    BY <1>4, <1>8, Kinds
  <2>2. tick.results \subseteq RunIds
    BY <1>2 DEF Tick
  <2> QED BY <1>1, <1>2, <2>1, <2>2, TickKept
<1>14. WorkerSound'
  <2>1. \A q \in RunIds :
          /\ worker'[q].task = worker[q].task
          /\ \/ worker'[q].pc = worker[q].pc
             \/ /\ worker[q].pc \in {"executing", "accepted"}
                /\ worker'[q].pc \in {"accepted", "leaving"}
    BY <1>1, <1>2 DEF Worker
  <2>2. \A q \in RunIds : \/ log'[q].state = log[q].state
                          \/ log'[q].state = "none"
                          \/ worker[q].pc # "none"
    BY <1>1, <1>8, Kinds
  <2> QED BY <1>1, <1>2, <2>1, <2>2, WorkersKept
<1>15. LogSound'
  <2> SUFFICES ASSUME NEW q \in RunIds
               PROVE  /\ log'[q].state # "none" => log'[q].task \in All /\ There(log'[q].task)
                      /\ log'[q].state = "leased" =>
                           /\ log'[q].task = worker'[q].task /\ log'[q].counted = worker'[q].counted
                           /\ Working(q)' \/ ~worker'[q].saved
    BY <1>1 DEF LogSound, There
  <2>1. /\ worker'[q].task = worker[q].task /\ worker'[q].counted = worker[q].counted
        /\ worker'[q].saved = worker[q].saved /\ (Working(q) => Working(q)')
    BY <1>1, <1>2 DEF Worker, Working
  <2>2. CASE log'[q] = NoRecord
    BY <2>2, Kinds
  <2>3. CASE log'[q] = log[q]
    BY <1>2, <2>1, <2>3 DEF LogSound
  <2>4. CASE q = r /\ There(t) /\ log'[q] = lease
    BY <1>1, <1>2, <1>3, <1>4, <2>1, <2>4 DEF Working, t
  <2> QED BY <1>8, <2>2, <2>3, <2>4
<1>16. QuotaSound'
  <2>1. \A u \in All : Charging(u) => Charging(u)'
    <3> SUFFICES ASSUME NEW u \in All, NEW q \in RunIds, log[q].state = "leased", log[q].task = u,
                        log[q].counted
                 PROVE  log'[q].state = "leased" /\ log'[q].task = u /\ log'[q].counted
      BY DEF Charging, Leased
    <3>1. CASE log'[q] = log[q]
      BY <3>1
    <3>2. CASE q = r /\ log'[q] = lease
      BY <1>2, <1>4, <3>2 DEF LogSound, t
    <3> QED BY <1>9, <1>10, <3>1, <3>2
  <2> QED BY <1>1, <1>2, <2>1 DEF QuotaSound
<1>17. PostedOnce'
  BY <1>1, <1>2 DEF PostedOnce, parentVars
<1> QED BY <1>12, <1>13, <1>14, <1>15, <1>16, <1>17 DEF IInv

LEMMA UnavailableStep ==
  ASSUME IInv, NEW r \in RunIds, Unavailable(r)
  PROVE  IInv'
<1>1. /\ worker[r].pc = "executing" /\ worker' = [worker EXCEPT ![r].pc = "accepted"]
      /\ tasks' = tasks \/ tasks' = [tasks EXCEPT ![worker[r].task].enabled = FALSE]
      /\ UNCHANGED <<log, active, nextRun, quota, tick, serverVars, parentVars, boundVars>>
  BY DEF Unavailable
<1>2. /\ TypeOK /\ TickSound /\ WorkerSound /\ LogSound /\ QuotaSound /\ PostedOnce
      /\ tasks \in [All -> Task] /\ worker \in [RunIds -> Worker]
  BY DEF IInv, TypeOK
<1>3. worker' \in [RunIds -> Worker] /\ tasks' \in [All -> Task]
  <2>1. worker' \in [RunIds -> Worker]
    BY <1>1, <1>2 DEF Worker
  <2>2. tasks' \in [All -> Task]
    BY <1>1, <1>2 DEF Task
  <2> QED BY <2>1, <2>2
<1>4. \A u \in All : tasks'[u].status = tasks[u].status /\ tasks'[u].remaining = tasks[u].remaining
  BY <1>1, <1>2 DEF Task
<1>5. \A q \in RunIds :
        /\ worker'[q].task = worker[q].task /\ worker'[q].counted = worker[q].counted
        /\ worker'[q].saved = worker[q].saved /\ (Working(q) => Working(q)')
        /\ \/ worker'[q].pc = worker[q].pc
           \/ /\ worker[q].pc \in {"executing", "accepted"}
              /\ worker'[q].pc \in {"accepted", "leaving"}
  BY <1>1, <1>2 DEF Worker, Working
<1>6. faults' \in Nat
  BY <1>2 DEF Unavailable, Write, TypeOK
<1>7. TypeOK'
  BY <1>1, <1>2, <1>3, <1>6 DEF TypeOK, serverVars, parentVars, boundVars
<1>8. TickSound' /\ WorkerSound'
  BY <1>1, <1>2, <1>5, TickKept, WorkersKept
<1>9. LogSound'
  <2>1. \A u \in All : There(u) => There(u)'
    BY <1>4 DEF There
  <2> QED BY <1>1, <1>2, <1>5, <2>1, LogKept
<1>10. QuotaSound'
  BY <1>1, <1>2, <1>4, QuotaKept
<1>11. PostedOnce'
  BY <1>1, <1>2 DEF PostedOnce, parentVars
<1> QED BY <1>7, <1>8, <1>9, <1>10, <1>11 DEF IInv

LEMMA FinishStep ==
  ASSUME IInv, NEW r \in RunIds, Finish(r)
  PROVE  IInv'
<1> DEFINE t == worker[r].task
<1>1. PICK saved \in BOOLEAN, state \in Final :
        /\ worker' = [worker EXCEPT ![r].pc = "leaving", ![r].saved = saved,
                                    ![r].cancelled = FALSE]
        /\ IF There(t) /\ log[r].state = "leased"
           THEN Write(saved) /\ IF saved THEN Completed(r, state) ELSE UNCHANGED fileVars
           ELSE saved /\ UNCHANGED <<fileVars, faults>>
  BY DEF Finish
<1>2. /\ Working(r)
      /\ UNCHANGED <<active, nextRun, quota, tick, serverVars, parentVars, boundVars>>
  BY DEF Finish
<1>3. /\ TypeOK /\ TickSound /\ WorkerSound /\ LogSound /\ QuotaSound /\ PostedOnce
      /\ tasks \in [All -> Task] /\ log \in [RunIds -> Record] /\ faults \in Nat
      /\ worker \in [RunIds -> Worker] /\ quota \in [All -> Int] /\ tick \in Tick
  BY DEF IInv, TypeOK
<1>4. t \in All /\ worker[r].counted \in BOOLEAN
  BY <1>2, <1>3 DEF WorkerSound, Worker, Working
<1>5. (log[r].state = "leased") => (log[r].task = t /\ There(t) /\ log[r].counted = worker[r].counted)
  BY <1>3 DEF LogSound
<1>6. faults' \in Nat
  BY <1>1, <1>3 DEF Write
<1>7. worker' \in [RunIds -> Worker]
  BY <1>1, <1>3 DEF Worker
<1>8. \A q \in RunIds :
        /\ worker'[q].task = worker[q].task /\ worker'[q].counted = worker[q].counted
        /\ q # r => worker'[q] = worker[q]
        /\ \/ worker'[q].pc = worker[q].pc
           \/ /\ worker[q].pc \in {"executing", "accepted"}
              /\ worker'[q].pc \in {"accepted", "leaving"}
  BY <1>1, <1>2, <1>3 DEF Worker, Working
<1>9. worker'[r].saved = saved
  BY <1>1, <1>3 DEF Worker
<1>10. PostedOnce'
  BY <1>2, <1>3 DEF PostedOnce, parentVars
<1>11. CASE /\ UNCHANGED fileVars
            /\ log[r].state = "leased" => ~saved
  <2>1. TypeOK'
    BY <1>2, <1>3, <1>6, <1>7, <1>11 DEF TypeOK, fileVars, serverVars, parentVars, boundVars
  <2>2. TickSound' /\ WorkerSound'
    BY <1>2, <1>3, <1>8, <1>11, TickKept, WorkersKept DEF fileVars
  <2>3. QuotaSound'
    BY <1>2, <1>3, <1>11, QuotaKept DEF fileVars
  <2>4. LogSound'
    <3> SUFFICES ASSUME NEW q \in RunIds
                 PROVE  /\ log[q].state # "none" => log[q].task \in All /\ There(log[q].task)
                        /\ log[q].state = "leased" =>
                             /\ log[q].task = worker'[q].task /\ log[q].counted = worker'[q].counted
                             /\ Working(q)' \/ ~worker'[q].saved
      BY <1>11 DEF LogSound, There, fileVars
    <3>1. CASE q = r
      BY <1>3, <1>8, <1>9, <1>11, <3>1 DEF LogSound
    <3>2. CASE q # r
      BY <1>3, <1>8, <3>2 DEF LogSound, Working
    <3> QED BY <3>1, <3>2
  <2> QED BY <1>10, <2>1, <2>2, <2>3, <2>4 DEF IInv
<1>12. CASE There(t) /\ log[r].state = "leased" /\ Completed(r, state)
  <2> DEFINE records == [log EXCEPT ![r].state = state]
  <2>1. /\ tasks' = IF worker[r].counted THEN [tasks EXCEPT ![t] = Charged(@)] ELSE tasks
        /\ log' = Kept(records)
    BY <1>12 DEF Completed
  <2>2. /\ records \in [RunIds -> Record] /\ records[r].state = state
        /\ records[r].task = t /\ (records[r].delivered => log[r].delivered)
        /\ \A q \in RunIds \ {r} : records[q] = log[q]
    BY <1>3, <1>5, <1>12 DEF Record
  <2> HIDE DEF records
  <2>3. log' \in [RunIds -> Record]
    BY <2>1, <2>2, KeptRecords
  <2>4. /\ \A q \in RunIds : log'[q] \in {records[q], NoRecord}
        /\ \A q \in RunIds \ {r} : log[q].state = "leased" => log'[q] = log[q]
    BY <2>1, <2>2, KeptRecords DEF Final
  <2>5. log'[r].state # "leased"
    BY <2>2, <2>4, Kinds DEF Final
  <2>6. Charged(tasks[t]) \in Task /\ Charged(tasks[t]).status = tasks[t].status
    BY <1>3, <1>4, ChargedTask
  <2>7. /\ tasks' \in [All -> Task] /\ \A u \in All : tasks'[u].status = tasks[u].status
        /\ \A u \in All : u # t \/ ~worker[r].counted => tasks'[u] = tasks[u]
        /\ worker[r].counted => tasks'[t] = Charged(tasks[t])
    BY <1>3, <1>4, <2>1, <2>6
  <2>8. TypeOK'
    BY <1>2, <1>3, <1>6, <1>7, <2>3, <2>7 DEF TypeOK, serverVars, parentVars, boundVars
  <2>9. TickSound'
    <3>1. \A q \in RunIds : log'[q].delivered => log[q].delivered
      BY <2>2, <2>4, Kinds
    <3>2. tick.results \subseteq RunIds
      BY <1>3 DEF Tick
    <3> QED BY <1>2, <1>3, <3>1, <3>2, TickKept
  <2>10. WorkerSound'
    <3>1. \A q \in RunIds : \/ log'[q].state = log[q].state
                            \/ log'[q].state = "none"
                            \/ worker[q].pc # "none"
      BY <1>2, <2>2, <2>4, Kinds DEF Working
    <3> QED BY <1>2, <1>3, <1>8, <3>1, WorkersKept
  <2>11. LogSound'
    <3> SUFFICES ASSUME NEW q \in RunIds
                 PROVE  /\ log'[q].state # "none" =>
                             log'[q].task \in All /\ tasks'[log'[q].task].status = "there"
                        /\ log'[q].state = "leased" =>
                             /\ log'[q].task = worker'[q].task /\ log'[q].counted = worker'[q].counted
                             /\ Working(q)' \/ ~worker'[q].saved
      BY DEF LogSound, There
    <3>1. CASE q = r
      BY <1>4, <1>12, <2>2, <2>4, <2>5, <2>7, <3>1, Kinds DEF There
    <3>2. CASE q # r
      <4>1. log'[q] \in {log[q], NoRecord} /\ worker'[q] = worker[q]
        BY <1>8, <2>2, <2>4, <3>2
      <4>2. log[q].state # "none" => log[q].task \in All /\ tasks'[log[q].task].status = "there"
        BY <1>3, <2>7 DEF LogSound, There
      <4> QED BY <1>3, <4>1, <4>2, Kinds DEF LogSound, Working
    <3> QED BY <3>1, <3>2
  <2>12. QuotaSound'
    <3> SUFFICES ASSUME NEW u \in All, tasks'[u].remaining # Unlimited
                 PROVE  /\ quota[u] >= 0
                        /\ \/ tasks'[u].remaining <= quota[u]
                           \/ Charging(u)' /\ tasks'[u].remaining <= quota[u] + 1
      BY <1>2 DEF QuotaSound
    <3>1. tasks[u].remaining \in Nat \cup {-1} /\ quota[u] \in Int
      BY <1>3 DEF Task, Unlimited
    <3>2. CASE u = t /\ worker[r].counted
      <4>1. /\ tasks[u].remaining > 0 => tasks'[u].remaining = tasks[u].remaining - 1
            /\ ~(tasks[u].remaining > 0) => tasks'[u] = tasks[u]
        BY <1>3, <2>7, <3>2, ChargedTask
      <4>2. tasks[u].remaining # Unlimited
        BY <3>2, <4>1 DEF Unlimited
      <4>3. quota[u] >= 0 /\ tasks[u].remaining <= quota[u] + 1
        BY <1>3, <3>1, <4>2 DEF QuotaSound
      <4> QED BY <3>1, <4>1, <4>3
    <3>3. CASE ~(u = t /\ worker[r].counted)
      <4>1. tasks'[u] = tasks[u]
        BY <2>7, <3>3
      <4>2. Charging(u) => Charging(u)'
        <5> SUFFICES ASSUME NEW q \in RunIds, log[q].state = "leased", log[q].task = u,
                            log[q].counted
                     PROVE  log'[q] = log[q]
          BY DEF Charging, Leased
        <5>1. q # r
          BY <1>5, <3>3
        <5> QED BY <2>4, <5>1
      <4>3. /\ quota[u] >= 0
            /\ \/ tasks[u].remaining <= quota[u]
               \/ Charging(u) /\ tasks[u].remaining <= quota[u] + 1
        BY <1>3, <4>1 DEF QuotaSound
      <4> QED BY <4>1, <4>2, <4>3
    <3> QED BY <3>2, <3>3
  <2> QED BY <1>10, <2>8, <2>9, <2>10, <2>11, <2>12 DEF IInv
<1> QED BY <1>1, <1>5, <1>11, <1>12 DEF fileVars

LEMMA LeaveStep ==
  ASSUME IInv, NEW r \in RunIds, Leave(r)
  PROVE  IInv'
<1>1. /\ worker[r].pc = "leaving"
      /\ worker' = [worker EXCEPT ![r].pc = "done", ![r].cancelled = FALSE]
      /\ active' = [active EXCEPT ![worker[r].task] = 0]
      /\ UNCHANGED <<fileVars, nextRun, quota, tick, serverVars, parentVars, boundVars, faults>>
  BY DEF Leave
<1>2. /\ TypeOK /\ TickSound /\ WorkerSound /\ LogSound /\ QuotaSound /\ PostedOnce
      /\ worker \in [RunIds -> Worker] /\ active \in [All -> 0..MaxRuns] /\ MaxRuns \in Nat
  BY CronBounds DEF IInv, TypeOK
<1>3. worker[r].task \in All /\ active[worker[r].task] = r
  BY <1>1, <1>2 DEF WorkerSound
<1>4. worker' \in [RunIds -> Worker] /\ active' \in [All -> 0..MaxRuns]
  <2>1. worker' \in [RunIds -> Worker]
    BY <1>1, <1>2 DEF Worker
  <2>2. 0 \in 0..MaxRuns
    BY <1>2
  <2> QED BY <1>1, <1>2, <2>1, <2>2
<1>5. TypeOK'
  BY <1>1, <1>2, <1>4 DEF TypeOK, fileVars, serverVars, parentVars, boundVars
<1>6. WorkerSound'
  BY <1>1, <1>2, <1>3 DEF WorkerSound, Worker, fileVars
<1>7. LogSound'
  <2>1. \A q \in RunIds :
          /\ worker'[q].task = worker[q].task /\ worker'[q].counted = worker[q].counted
          /\ worker'[q].saved = worker[q].saved /\ (Working(q) => Working(q)')
    BY <1>1, <1>2 DEF Worker, Working
  <2> QED BY <1>1, <1>2, <2>1, LogKept DEF fileVars, There
<1>8. TickSound' /\ QuotaSound' /\ PostedOnce'
  BY <1>1, <1>2, TickKept, QuotaKept DEF fileVars, PostedOnce, parentVars
<1> QED BY <1>5, <1>6, <1>7, <1>8 DEF IInv

-----------------------------------------------------------------------------
(* Steps that leave most of the state alone. *)

(* The variables of the server, the parent and the bounds are of their kinds. *)
OthersOK ==
  /\ closed \in BOOLEAN /\ cancelling \subseteq Loops /\ forgetting \in BOOLEAN
  /\ parent \in {"free", "busy", "quarantined", "deleted", "gone"}
  /\ history \in [RunIds -> 0..1]
  /\ edits \in Nat /\ boots \in Nat /\ faults \in Nat /\ aged \in 0..MaxRuns

LEMMA Others == IInv => OthersOK
<1> SUFFICES ASSUME IInv PROVE OthersOK
  OBVIOUS
<1>1. history \in [RunIds -> Nat] /\ \A r \in RunIds : history[r] <= 1
  BY DEF IInv, TypeOK, PostedOnce
<1>2. history \in [RunIds -> 0..1]
  BY <1>1
<1> QED BY <1>2 DEF IInv, TypeOK, OthersOK

(* Neither the file nor the executions change. *)
LEMMA FileKept ==
  ASSUME IInv, UNCHANGED <<fileVars, runVars>>, OthersOK', tick' \in Tick, TickSound'
  PROVE  IInv'
<1>1. TypeOK'
  <2>1. history' \in [RunIds -> Nat]
    BY DEF OthersOK
  <2> QED BY <2>1 DEF IInv, TypeOK, OthersOK, fileVars, runVars
<1>2. WorkerSound' /\ LogSound' /\ QuotaSound'
  BY DEF IInv, fileVars, runVars, WorkerSound, LogSound, QuotaSound, There, Working, Charging,
         Leased
<1>3. PostedOnce'
  BY DEF OthersOK, PostedOnce
<1> QED BY <1>1, <1>2, <1>3 DEF IInv

(* Tasks are switched, and loops become due or over. *)
LEMMA TasksTouched ==
  ASSUME IInv, UNCHANGED <<log, runVars>>, OthersOK', tick' \in Tick, TickSound',
         tasks' \in [All -> Task],
         \A t \in All : tasks'[t].status = tasks[t].status /\ tasks'[t].remaining = tasks[t].remaining
  PROVE  IInv'
<1>1. TypeOK'
  <2>1. history' \in [RunIds -> Nat]
    BY DEF OthersOK
  <2> QED BY <2>1 DEF IInv, TypeOK, OthersOK, runVars
<1>2. WorkerSound'
  BY DEF IInv, runVars, WorkerSound
<1>3. LogSound'
  BY DEF IInv, runVars, LogSound, There, Working
<1>4. QuotaSound'
  BY DEF IInv, runVars, QuotaSound, Charging, Leased
<1>5. PostedOnce'
  BY DEF OthersOK, PostedOnce
<1> QED BY <1>1, <1>2, <1>3, <1>4, <1>5 DEF IInv

(* Records are dropped, marked delivered or left alone. *)
LEMMA RecordsTouched ==
  ASSUME IInv, UNCHANGED <<tasks, runVars>>, OthersOK', tick' \in Tick, TickSound',
         log' \in [RunIds -> Record],
         \A r \in RunIds :
           \/ log'[r] = NoRecord /\ log[r].state # "leased"
           \/ /\ log'[r].state = log[r].state /\ log'[r].task = log[r].task
              /\ log'[r].counted = log[r].counted
  PROVE  IInv'
<1>1. TypeOK'
  <2>1. history' \in [RunIds -> Nat]
    BY DEF OthersOK
  <2> QED BY <2>1 DEF IInv, TypeOK, OthersOK, runVars
<1>2. WorkerSound'
  BY Kinds DEF IInv, runVars, WorkerSound
<1>3. LogSound'
  BY Kinds DEF IInv, runVars, LogSound, There, Working
<1>4. QuotaSound'
  BY DEF IInv, runVars, QuotaSound, Charging, Leased
<1>5. PostedOnce'
  BY DEF OthersOK, PostedOnce
<1> QED BY <1>1, <1>2, <1>3, <1>4, <1>5 DEF IInv

(* Workers are asked to stop. *)
LEMMA WorkersAsked ==
  ASSUME IInv, UNCHANGED <<fileVars, active, nextRun, quota, tick>>, OthersOK',
         worker' \in [RunIds -> Worker],
         \A r \in RunIds :
           /\ worker'[r].pc = worker[r].pc /\ worker'[r].task = worker[r].task
           /\ worker'[r].counted = worker[r].counted /\ worker'[r].saved = worker[r].saved
  PROVE  IInv'
<1>1. TypeOK'
  <2>1. history' \in [RunIds -> Nat]
    BY DEF OthersOK
  <2> QED BY <2>1 DEF IInv, TypeOK, OthersOK, fileVars
<1>2. WorkerSound'
  BY DEF IInv, fileVars, WorkerSound
<1>3. LogSound'
  BY DEF IInv, fileVars, LogSound, There, Working
<1>4. QuotaSound' /\ TickSound'
  BY DEF IInv, fileVars, QuotaSound, Charging, Leased, TickSound
<1>5. PostedOnce'
  BY DEF OthersOK, PostedOnce
<1> QED BY <1>1, <1>2, <1>3, <1>4, <1>5 DEF IInv

(* A task is created, changed or deleted. *)
LEMMA TaskEdited ==
  ASSUME IInv, NEW t \in All, NEW task \in Task, Edit(t, task), cancelling' \subseteq Loops,
         \/ /\ task.status = "there" /\ UNCHANGED log
            /\ \/ task.remaining \in {tasks[t].remaining, Unlimited} /\ UNCHANGED quota
               \/ /\ task.remaining \in Int /\ quota' = [quota EXCEPT ![t] = task.remaining]
         \/ /\ task.remaining = Unlimited /\ log' = Without(t) /\ UNCHANGED quota
  PROVE  IInv'
<1>1. /\ tasks' = [tasks EXCEPT ![t] = task] /\ edits' = edits + 1 /\ faults' = faults
      /\ UNCHANGED <<active, worker, nextRun, tick, closed, forgetting, parentVars, boots, aged>>
  BY DEF Edit, Write
<1>2. /\ TypeOK /\ TickSound /\ WorkerSound /\ LogSound /\ QuotaSound /\ PostedOnce
      /\ tasks \in [All -> Task] /\ log \in [RunIds -> Record] /\ quota \in [All -> Int]
      /\ tick \in Tick /\ edits \in Nat
  BY DEF IInv, TypeOK
<1>3. /\ tasks' \in [All -> Task] /\ edits' \in Nat /\ tasks'[t] = task
      /\ \A u \in All \ {t} : tasks'[u] = tasks[u]
  BY <1>1, <1>2
<1>4. /\ log' \in [RunIds -> Record]
      /\ \A r \in RunIds : log'[r] = log[r] \/ (log'[r] = NoRecord /\ log[r].task = t)
      /\ task.status # "there" => \A r \in RunIds : log[r].task = t => log'[r] = NoRecord
  BY <1>2, Kinds DEF Without
<1>5. /\ quota' \in [All -> Int] /\ \A u \in All \ {t} : quota'[u] = quota[u]
      /\ \/ task.remaining = Unlimited
         \/ UNCHANGED log /\ task.remaining = tasks[t].remaining /\ quota'[t] = quota[t]
         \/ quota'[t] = task.remaining
  BY <1>2
<1>6. TypeOK'
  BY <1>1, <1>2, <1>3, <1>4, <1>5 DEF TypeOK, parentVars
<1>7. TickSound'
  <2>1. tick.results \subseteq RunIds
    BY <1>2 DEF Tick
  <2> QED BY <1>1, <1>2, <1>4, <2>1, Kinds, TickKept
<1>8. WorkerSound'
  BY <1>1, <1>2, <1>4, Kinds, WorkersKept
<1>9. LogSound'
  <2> SUFFICES ASSUME NEW r \in RunIds
               PROVE  /\ log'[r].state # "none" =>
                           log'[r].task \in All /\ tasks'[log'[r].task].status = "there"
                      /\ log'[r].state = "leased" =>
                           /\ log'[r].task = worker[r].task /\ log'[r].counted = worker[r].counted
                           /\ Working(r) \/ ~worker[r].saved
    BY <1>1 DEF LogSound, There, Working
  <2>1. CASE log'[r] = NoRecord
    BY <2>1, Kinds
  <2>2. CASE log'[r] # NoRecord
    <3>1. log'[r] = log[r] /\ (log[r].task = t => task.status = "there")
      BY <1>4, <2>2
    <3> QED BY <1>2, <1>3, <3>1 DEF LogSound, There
  <2> QED BY <2>1, <2>2
<1>10. QuotaSound'
  <2> SUFFICES ASSUME NEW u \in All, tasks'[u].remaining # Unlimited
               PROVE  /\ quota'[u] >= 0
                      /\ \/ tasks'[u].remaining <= quota'[u]
                         \/ Charging(u)' /\ tasks'[u].remaining <= quota'[u] + 1
    BY DEF QuotaSound
  <2>1. tasks'[u].remaining \in Nat
    BY <1>3 DEF Task
  <2>2. CASE quota'[u] = tasks'[u].remaining
    BY <2>1, <2>2
  <2>3. CASE /\ tasks'[u].remaining = tasks[u].remaining /\ quota'[u] = quota[u]
             /\ u = t => UNCHANGED log
    <3>1. Charging(u) => Charging(u)'
      BY <1>4, <2>3 DEF Charging, Leased
    <3> QED BY <1>2, <2>3, <3>1 DEF QuotaSound
  <2> QED BY <1>3, <1>5, <2>2, <2>3
<1>11. PostedOnce'
  BY <1>1, <1>2 DEF PostedOnce, parentVars
<1> QED BY <1>6, <1>7, <1>8, <1>9, <1>10, <1>11 DEF IInv

-----------------------------------------------------------------------------
(* The scheduler. *)

LEMMA VisitedTick ==
  ASSUME IInv, NEW t \in All
  PROVE  Visited(t) \in Tick /\ Visited(t).pc = "visit" /\ Visited(t).results = {}
<1>1. tick \in Tick
  BY DEF IInv, TypeOK
<1> QED BY <1>1, Kinds DEF Visited, Tick

LEMMA GivenUp ==
  ASSUME IInv, GiveUp
  PROVE  tick' \in Tick /\ tick'.task = tick.task /\ tick'.results = {}
<1>1. tick \in Tick
  BY DEF IInv, TypeOK
<1> QED BY <1>1 DEF GiveUp, Tick

(* A visit that starts an execution, or is refused one. *)
LEMMA StartVisit ==
  ASSUME IInv, NEW t \in All, tick' = Visited(t), UNCHANGED <<serverVars, parentVars, boundVars>>,
         Start(t, TRUE) \/ Refused(t, TRUE)
  PROVE  IInv'
<1>1. tick' \in Tick /\ TickSound' /\ OthersOK
  BY VisitedTick, Others DEF TickSound
<1>2. CASE Start(t, TRUE)
  <2>1. TypeOK'
    BY <1>1, <1>2, StartStep DEF IInv, TypeOK, serverVars, parentVars, boundVars
  <2>2. PostedOnce'
    BY DEF IInv, PostedOnce, parentVars
  <2> QED BY <1>1, <1>2, <2>1, <2>2, StartStep DEF IInv
<1>3. CASE Refused(t, TRUE)
  <2>1. PICK ok \in BOOLEAN : Write(ok)
    <3>1. (~Startable(t, TRUE)) \in BOOLEAN
      OBVIOUS
    <3> QED BY <1>3, <3>1 DEF Refused, Write
  <2>2. faults' \in Nat
    BY <1>1, <2>1 DEF Write, OthersOK
  <2>3. OthersOK'
    BY <1>1, <2>2 DEF OthersOK, serverVars, parentVars, boundVars
  <2> QED BY <1>1, <1>3, <2>3, FileKept DEF Refused
<1> QED BY <1>2, <1>3

LEMMA PostStep ==
  ASSUME IInv, Post
  PROVE  IInv'
<1>1. PICK r \in Oldest(tick.results) :
        \/ /\ parent = "free" /\ Write(TRUE)
           /\ history' = [history EXCEPT ![r] = IF @ = 0 THEN 1 ELSE @]
           /\ tick' = [tick EXCEPT !.pc = "ack"]
           /\ UNCHANGED parent
        \/ /\ parent = "free" /\ Write(FALSE)
           /\ history' = [history EXCEPT ![r] = IF @ = 0 THEN 1 ELSE @]
           /\ parent' = "quarantined" /\ GiveUp
        \/ /\ Write(parent # "free") /\ GiveUp /\ UNCHANGED parentVars
  BY DEF Post
<1>2. tick.pc = "post" /\ UNCHANGED <<fileVars, runVars, serverVars, boundVars>>
  BY DEF Post, SchedulerStep
<1>3. OthersOK /\ TickSound /\ tick \in Tick
  BY Others DEF IInv, TypeOK
<1>4. faults' \in Nat
  BY <1>1, <1>3 DEF Write, OthersOK
<1>5. history' \in [RunIds -> 0..1] /\ parent' \in {"free", "busy", "quarantined", "deleted", "gone"}
  <2>1. history \in [RunIds -> 0..1] /\ parent \in {"free", "busy", "quarantined", "deleted", "gone"}
    BY <1>3 DEF OthersOK
  <2>2. CASE history' = [history EXCEPT ![r] = IF @ = 0 THEN 1 ELSE @]
    <3>1. \A q \in RunIds : history[q] \in 0..1 /\ 1 \in 0..1
      BY <2>1
    <3>2. history' \in [RunIds -> 0..1]
      BY <2>1, <2>2, <3>1
    <3> QED BY <1>1, <2>1, <3>2 DEF parentVars
  <2>3. CASE UNCHANGED parentVars
    BY <2>1, <2>3 DEF parentVars
  <2> QED BY <1>1, <2>2, <2>3
<1>6. OthersOK'
  BY <1>2, <1>3, <1>4, <1>5 DEF OthersOK, serverVars, boundVars
<1>7. tick' \in Tick /\ tick'.task = tick.task /\ tick'.results \subseteq tick.results
  <2>1. CASE tick' = [tick EXCEPT !.pc = "ack"]
    BY <1>3, <2>1 DEF Tick
  <2>2. CASE GiveUp
    BY <2>2, GivenUp
  <2> QED BY <1>1, <2>1, <2>2
<1>8. TickSound'
  BY <1>2, <1>3, <1>7 DEF TickSound, fileVars
<1> QED BY <1>2, <1>6, <1>7, <1>8, FileKept

LEMMA AcknowledgeStep ==
  ASSUME IInv, Acknowledge
  PROVE  IInv'
<1>1. PICK r \in Oldest(tick.results) :
        \/ /\ Write(TRUE)
           /\ log' = [log EXCEPT ![r].delivered = @ \/ log[r].state # "none"]
           /\ tick' = [tick EXCEPT !.pc = IF tick.results = {r} THEN "check" ELSE "post",
                                   !.results = @ \ {r}]
        \/ Write(FALSE) /\ UNCHANGED log /\ GiveUp
  BY DEF Acknowledge
<1>2. tick.pc = "ack" /\ UNCHANGED <<tasks, runVars, parentVars, serverVars, boundVars>>
  BY DEF Acknowledge, SchedulerStep
<1>3. /\ OthersOK /\ TickSound /\ tick \in Tick /\ log \in [RunIds -> Record]
      /\ tick.results \subseteq RunIds /\ r \in tick.results
  BY Others DEF IInv, TypeOK, Tick, Oldest
<1>4. faults' \in Nat
  BY <1>1, <1>3 DEF Write, OthersOK
<1>5. OthersOK'
  BY <1>2, <1>3, <1>4 DEF OthersOK, parentVars, serverVars, boundVars
<1>6. CASE /\ log' = [log EXCEPT ![r].delivered = @ \/ log[r].state # "none"]
           /\ tick' = [tick EXCEPT !.pc = IF tick.results = {r} THEN "check" ELSE "post",
                                   !.results = @ \ {r}]
  <2>1. (log[r].delivered \/ log[r].state # "none") \in BOOLEAN
    OBVIOUS
  <2>2. PICK b \in BOOLEAN : log' = [log EXCEPT ![r].delivered = b]
    BY <1>6, <2>1
  <2>3. /\ log' \in [RunIds -> Record]
        /\ \A q \in RunIds : /\ log'[q].state = log[q].state /\ log'[q].task = log[q].task
                             /\ log'[q].counted = log[q].counted
                             /\ q # r => log'[q] = log[q]
    BY <1>3, <2>2 DEF Record
  <2>4. /\ tick' \in Tick /\ tick'.task = tick.task
        /\ tick'.results = tick.results \ {r}
    <3>1. tick.results \ {r} \in SUBSET RunIds
      BY <1>3
    <3>2. (IF tick.results = {r} THEN "check" ELSE "post") \in {"check", "post"}
      OBVIOUS
    <3> QED BY <1>3, <1>6, <3>1, <3>2 DEF Tick
  <2>5. TickSound'
    BY <1>2, <1>3, <2>3, <2>4 DEF TickSound
  <2> QED BY <1>2, <1>5, <2>3, <2>4, <2>5, RecordsTouched
<1>7. CASE UNCHANGED log /\ GiveUp
  <2>1. TickSound'
    BY <1>2, <1>3, <1>7, GivenUp DEF TickSound
  <2> QED BY <1>2, <1>5, <1>7, <2>1, GivenUp, FileKept DEF fileVars
<1> QED BY <1>1, <1>6, <1>7

LEMMA CheckStep ==
  ASSUME IInv, Check
  PROVE  IInv'
<1>1. /\ tick.pc = "check" /\ UNCHANGED <<log, runVars, parentVars, serverVars, boundVars>>
      /\ tick' = [tick EXCEPT !.pc = "fire"] \/ tick' = Visited(tick.task)
      /\ tasks' = tasks \/ tasks' = [tasks EXCEPT ![tick.task].enabled = FALSE]
  BY DEF Check, SchedulerStep
<1>2. /\ OthersOK /\ TickSound /\ tick \in Tick /\ tasks \in [All -> Task] /\ tick.task \in All
  BY <1>1, Others DEF IInv, TypeOK, TickSound, All
<1>3. faults' \in Nat
  BY <1>2 DEF Check, Write, OthersOK
<1>4. OthersOK'
  BY <1>1, <1>2, <1>3 DEF OthersOK, parentVars, serverVars, boundVars
<1>5. tick' \in Tick /\ TickSound'
  <2>1. CASE tick' = [tick EXCEPT !.pc = "fire"]
    BY <1>1, <1>2, <2>1 DEF Tick, TickSound
  <2>2. CASE tick' = Visited(tick.task)
    BY <1>2, <2>2, VisitedTick DEF TickSound
  <2> QED BY <1>1, <2>1, <2>2
<1>6. /\ tasks' \in [All -> Task]
      /\ \A t \in All : tasks'[t].status = tasks[t].status /\ tasks'[t].remaining = tasks[t].remaining
  <2>1. CASE tasks' = tasks
    BY <1>2, <2>1
  <2>2. CASE tasks' = [tasks EXCEPT ![tick.task].enabled = FALSE]
    BY <1>2, <2>2 DEF Task
  <2> QED BY <1>1, <2>1, <2>2
<1> QED BY <1>1, <1>4, <1>5, <1>6, TasksTouched

LEMMA SchedulerKeeps ==
  ASSUME IInv, TickStep
  PROVE  IInv'
<1>1. OthersOK /\ TickSound /\ tick \in Tick /\ tasks \in [All -> Task]
  BY Others DEF IInv, TypeOK
<1>2. CASE TickBegin
  <2>1. tick' \in Tick /\ TickSound'
    BY <1>1, <1>2 DEF TickBegin, Tick, NoTick, TickSound
  <2>2. OthersOK'
    BY <1>1, <1>2 DEF TickBegin, SchedulerStep, OthersOK, serverVars, parentVars, boundVars
  <2> QED BY <1>2, <2>1, <2>2, FileKept DEF TickBegin
<1>3. CASE TickEnd
  <2>1. tick' \in Tick /\ TickSound'
    BY <1>3, Kinds DEF TickEnd, NoTick, TickSound
  <2>2. OthersOK'
    BY <1>1, <1>3 DEF TickEnd, SchedulerStep, OthersOK, serverVars, parentVars, boundVars
  <2> QED BY <1>3, <2>1, <2>2, FileKept DEF TickEnd
<1>4. ASSUME NEW t \in Tasks, VisitTask(t)
      PROVE  IInv'
  <2>1. /\ t \in All /\ tick' = Visited(t) /\ UNCHANGED <<serverVars, parentVars, boundVars>>
    BY <1>4 DEF VisitTask, SchedulerStep, All
  <2>2. CASE Start(t, TRUE) \/ Refused(t, TRUE)
    BY <2>1, <2>2, StartVisit
  <2>3. CASE UNCHANGED <<fileVars, runVars, faults>>
    <3>1. tick' \in Tick /\ TickSound'
      BY <2>1, VisitedTick DEF TickSound
    <3>2. OthersOK'
      BY <1>1, <2>1, <2>3 DEF OthersOK, serverVars, parentVars, boundVars
    <3> QED BY <2>3, <3>1, <3>2, FileKept
  <2> QED BY <1>4, <2>2, <2>3 DEF VisitTask
<1>5. ASSUME NEW l \in Loops, VisitLoop(l)
      PROVE  IInv'
  <2>1. PICK results \in SUBSET RunIds :
          /\ \A r \in results : ~log[r].delivered
          /\ tick' = [tick EXCEPT !.pc = IF results = {} THEN "check" ELSE "post",
                                  !.task = l, !.results = results]
    BY <1>5 DEF VisitLoop, Newest, Undelivered
  <2>2. UNCHANGED <<fileVars, runVars, parentVars, faults, serverVars, boundVars>>
    BY <1>5 DEF VisitLoop, SchedulerStep
  <2>3. tick' \in Tick /\ tick'.task = l /\ tick'.results = results
    <3>1. (IF results = {} THEN "check" ELSE "post") \in {"check", "post"}
      OBVIOUS
    <3> QED BY <1>1, <2>1, <3>1 DEF Tick, All
  <2>4. TickSound'
    BY <2>1, <2>2, <2>3 DEF TickSound, fileVars
  <2>5. OthersOK'
    BY <1>1, <2>2 DEF OthersOK, serverVars, parentVars, boundVars
  <2> QED BY <2>2, <2>3, <2>4, <2>5, FileKept
<1>6. CASE Fire
  BY <1>1, <1>6, StartVisit DEF Fire, SchedulerStep, TickSound, All
<1> QED BY <1>2, <1>3, <1>4, <1>5, <1>6, PostStep, AcknowledgeStep, CheckStep DEF TickStep

-----------------------------------------------------------------------------
(* Clients. *)

LEMMA EditsKeep ==
  ASSUME IInv, NEW t \in All,
         \/ \E enabled \in BOOLEAN, limit \in Limits \cup {Unlimited} : Create(t, enabled, limit)
         \/ CreateLoop(t)
         \/ \E limit \in Limits \cup {Unlimited} : SetLimit(t, limit)
         \/ \E enabled \in BOOLEAN : SetEnabled(t, enabled)
         \/ Delete(t, FALSE) \/ (t \in Loops /\ Delete(t, TRUE))
  PROVE  IInv'
<1>1. /\ cancelling \subseteq Loops /\ tasks \in [All -> Task]
      /\ Limits \cup {Unlimited} \subseteq Nat \cup {Unlimited}
      /\ Nat \cup {Unlimited} \subseteq Int
  BY CronBounds DEF IInv, TypeOK, Unlimited
<1>2. ASSUME NEW enabled \in BOOLEAN, NEW limit \in Nat \cup {Unlimited}, Create(t, enabled, limit)
      PROVE  IInv'
  <2> DEFINE task == [NoTask EXCEPT !.status = "there", !.enabled = enabled /\ limit # 0,
                                    !.remaining = limit]
  <2>1. PICK b \in BOOLEAN : b <=> enabled /\ limit # 0
    OBVIOUS
  <2>2. task \in Task /\ task.status = "there" /\ task.remaining = limit
    BY DEF NoTask, Task
  <2>3. /\ Edit(t, task) /\ UNCHANGED <<log, cancelling>> /\ quota' = [quota EXCEPT ![t] = limit]
    BY <1>2 DEF Create
  <2> HIDE DEF task
  <2> QED BY <1>1, <2>2, <2>3, TaskEdited
<1>3. CASE CreateLoop(t)
  <2> DEFINE task == [NoTask EXCEPT !.status = "there", !.enabled = TRUE, !.due = TRUE]
  <2>1. task \in Task /\ task.status = "there" /\ task.remaining = Unlimited
    BY DEF NoTask, Task
  <2>2. Edit(t, task) /\ UNCHANGED <<log, quota, cancelling>>
    BY <1>3 DEF CreateLoop
  <2> HIDE DEF task
  <2> QED BY <1>1, <2>1, <2>2, TaskEdited
<1>4. ASSUME NEW limit \in Nat \cup {Unlimited}, SetLimit(t, limit)
      PROVE  IInv'
  <2> DEFINE task == [tasks[t] EXCEPT !.remaining = limit, !.enabled = @ /\ limit # 0]
  <2>1. task \in Task /\ task.status = "there" /\ task.remaining = limit
    BY <1>1, <1>4 DEF Task, SetLimit, There
  <2>2. Edit(t, task) /\ UNCHANGED <<log, cancelling>> /\ quota' = [quota EXCEPT ![t] = limit]
    BY <1>4 DEF SetLimit
  <2> HIDE DEF task
  <2> QED BY <1>1, <2>1, <2>2, TaskEdited
<1>5. ASSUME NEW enabled \in BOOLEAN, SetEnabled(t, enabled)
      PROVE  IInv'
  <2> DEFINE task == [tasks[t] EXCEPT !.enabled = enabled /\ tasks[t].remaining # 0]
  <2>1. task \in Task /\ task.status = "there" /\ task.remaining = tasks[t].remaining
    BY <1>1, <1>5 DEF Task, SetEnabled, There
  <2>2. Edit(t, task) /\ UNCHANGED <<log, quota, cancelling>>
    BY <1>5 DEF SetEnabled
  <2> HIDE DEF task
  <2> QED BY <1>1, <2>1, <2>2, TaskEdited
<1>6. ASSUME NEW cancel \in BOOLEAN, Delete(t, cancel), cancel => t \in Loops
      PROVE  IInv'
  <2> DEFINE task == [NoTask EXCEPT !.status = "deleted"]
  <2>1. task \in Task /\ task.remaining = Unlimited
    BY DEF NoTask, Task
  <2>2. Edit(t, task) /\ log' = Without(t) /\ UNCHANGED quota /\ cancelling' \subseteq Loops
    BY <1>1, <1>6 DEF Delete
  <2> HIDE DEF task
  <2> QED BY <2>1, <2>2, TaskEdited
<1> QED BY <1>1, <1>2, <1>3, <1>4, <1>5, <1>6

LEMMA RunNowStep ==
  ASSUME IInv, NEW t \in All, RunNow(t)
  PROVE  IInv'
<1>1. Start(t, FALSE) /\ UNCHANGED <<tick, serverVars, parentVars, boundVars>>
  BY DEF RunNow
<1>2. TypeOK'
  BY <1>1, StartStep DEF IInv, TypeOK, serverVars, parentVars, boundVars
<1>3. TickSound'
  <2>1. tick.results \subseteq RunIds
    BY DEF IInv, TypeOK, Tick
  <2> QED BY <1>1, <2>1, StartStep, TickKept DEF IInv
<1>4. PostedOnce'
  BY <1>1 DEF IInv, PostedOnce, parentVars
<1> QED BY <1>1, <1>2, <1>3, <1>4, StartStep DEF IInv

LEMMA CancelledWorker ==
  ASSUME IInv, NEW t \in All, worker' = CancelWorker(t)
  PROVE  /\ worker' \in [RunIds -> Worker]
         /\ \A r \in RunIds :
              /\ worker'[r].pc = worker[r].pc /\ worker'[r].task = worker[r].task
              /\ worker'[r].counted = worker[r].counted /\ worker'[r].saved = worker[r].saved
<1>1. worker \in [RunIds -> Worker]
  BY DEF IInv, TypeOK
<1>2. PICK b \in BOOLEAN : worker' = [worker EXCEPT ![active[t]].cancelled = b]
  <2>1. Working(active[t]) \in BOOLEAN
    BY DEF Working
  <2> QED BY <2>1 DEF CancelWorker
<1>3. \A r \in RunIds : worker'[r] = worker[r] \/ worker'[r] = [worker[r] EXCEPT !.cancelled = b]
  BY <1>1, <1>2
<1>4. \A r \in RunIds : [worker[r] EXCEPT !.cancelled = b] \in Worker
  BY <1>1 DEF Worker
<1>5. worker' \in [RunIds -> Worker]
  BY <1>1, <1>2, <1>3, <1>4
<1> QED BY <1>1, <1>3, <1>5 DEF Worker

LEMMA ClientKeeps ==
  ASSUME IInv, ClientStep
  PROVE  IInv'
<1>1. OthersOK /\ log \in [RunIds -> Record] /\ tick \in Tick /\ TickSound /\ worker \in [RunIds -> Worker]
  BY Others DEF IInv, TypeOK
<1>2. ASSUME NEW l \in Loops, CancelRemoved(l)
      PROVE  IInv'
  <2>1. OthersOK'
    BY <1>1, <1>2 DEF CancelRemoved, OthersOK, parentVars, boundVars
  <2>2. l \in All
    BY DEF All
  <2>3. CASE worker' = CancelWorker(l)
    BY <1>2, <2>1, <2>2, <2>3, CancelledWorker, WorkersAsked DEF CancelRemoved
  <2>4. CASE worker' = worker
    BY <1>1, <1>2, <2>1, <2>4, WorkersAsked DEF CancelRemoved
  <2> QED BY <1>2, <2>3, <2>4 DEF CancelRemoved
<1>3. ASSUME NEW t \in All, Cancel(t)
      PROVE  IInv'
  <2>1. OthersOK'
    BY <1>1, <1>3 DEF Cancel, OthersOK, serverVars, parentVars, boundVars
  <2> QED BY <1>3, <2>1, CancelledWorker, WorkersAsked DEF Cancel
<1>4. ASSUME NEW t \in All, ClearRuns(t)
      PROVE  IInv'
  <2>1. OthersOK'
    BY <1>1, <1>4 DEF ClearRuns, Write, OthersOK, serverVars, parentVars
  <2>2. /\ log' \in [RunIds -> Record]
        /\ \A r \in RunIds : log'[r] = log[r] \/ (log'[r] = NoRecord /\ log[r].state # "leased")
    BY <1>1, <1>4, Kinds DEF ClearRuns, Final
  <2>3. TickSound'
    <3>1. tick.results \subseteq RunIds
      BY <1>1 DEF Tick
    <3> QED BY <1>1, <1>4, <2>2, <3>1, Kinds, TickKept DEF ClearRuns
  <2> QED BY <1>1, <1>4, <2>1, <2>2, <2>3, RecordsTouched DEF ClearRuns
<1>5. ASSUME NEW t \in Tasks, NEW enabled \in BOOLEAN, NEW limit \in Limits \cup {Unlimited},
             Create(t, enabled, limit)
      PROVE  IInv'
  BY <1>5, EditsKeep DEF All
<1>6. ASSUME NEW l \in Loops, CreateLoop(l) \/ Delete(l, TRUE)
      PROVE  IInv'
  BY <1>6, EditsKeep DEF All
<1>7. ASSUME NEW t \in All,
             \/ \E limit \in Limits \cup {Unlimited} : SetLimit(t, limit)
             \/ \E enabled \in BOOLEAN : SetEnabled(t, enabled)
             \/ Delete(t, FALSE)
      PROVE  IInv'
  BY <1>7, EditsKeep
<1> QED BY <1>2, <1>3, <1>4, <1>5, <1>6, <1>7, RunNowStep DEF ClientStep

-----------------------------------------------------------------------------
(* The parent, time and the process. *)

LEMMA ParentKeeps ==
  ASSUME IInv, ParentStep
  PROVE  IInv'
<1>1. /\ OthersOK /\ tick \in Tick /\ tick.results \subseteq RunIds /\ log \in [RunIds -> Record]
      /\ TypeOK /\ TickSound /\ WorkerSound /\ LogSound /\ QuotaSound
      /\ tasks \in [All -> Task] /\ Loops \subseteq All
  BY Others DEF IInv, TypeOK, Tick, All
<1>2. CASE DeleteParent
  <2>1. OthersOK'
    BY <1>1, <1>2 DEF DeleteParent, OthersOK, boundVars
  <2> QED BY <1>1, <1>2, <2>1, FileKept, TickKept DEF DeleteParent, fileVars
<1>3. CASE ForgetSession
  <2>1. /\ OthersOK' /\ UNCHANGED <<runVars, tick>>
    <3>1. faults' \in Nat /\ cancelling' \subseteq Loops
      BY <1>1, <1>3 DEF ForgetSession, Write, OthersOK
    <3>2. forgetting' = FALSE /\ UNCHANGED <<runVars, tick, closed, parentVars, boundVars>>
      BY <1>3 DEF ForgetSession
    <3> QED BY <1>1, <3>1, <3>2 DEF OthersOK, parentVars, boundVars
  <2>2. CASE UNCHANGED fileVars
    BY <1>1, <2>1, <2>2, FileKept, TickKept DEF fileVars
  <2>3. CASE /\ tasks' = [t \in All |-> IF t \in Loops /\ There(t)
                                      THEN [NoTask EXCEPT !.status = "deleted"] ELSE tasks[t]]
             /\ log' = [r \in RunIds |-> IF log[r].task \in Loops THEN NoRecord ELSE log[r]]
    <3>1. [NoTask EXCEPT !.status = "deleted"] \in Task
          /\ [NoTask EXCEPT !.status = "deleted"].remaining = Unlimited
      BY DEF NoTask, Task
    <3>2. /\ tasks' \in [All -> Task]
          /\ \A t \in All : /\ t \notin Loops => tasks'[t] = tasks[t]
                            /\ tasks'[t] = tasks[t] \/ tasks'[t].remaining = Unlimited
      BY <1>1, <2>3, <3>1
    <3>3. /\ log' \in [RunIds -> Record]
          /\ \A r \in RunIds : /\ log[r].task \in Loops => log'[r] = NoRecord
                               /\ log[r].task \notin Loops => log'[r] = log[r]
      BY <1>1, <2>3, Kinds
    <3>4. TypeOK'
      <4>1. history' \in [RunIds -> Nat]
        BY <2>1 DEF OthersOK
      <4> QED BY <1>1, <2>1, <3>2, <3>3, <4>1 DEF TypeOK, OthersOK, runVars
    <3>5. TickSound'
      BY <1>1, <2>1, <3>3, Kinds, TickKept
    <3>6. WorkerSound'
      BY <1>1, <2>1, <3>3, Kinds, WorkersKept DEF runVars
    <3>7. LogSound'
      BY <1>1, <2>1, <3>2, <3>3, Kinds DEF LogSound, There, Working, runVars
    <3>8. QuotaSound'
      <4> SUFFICES ASSUME NEW t \in All, tasks'[t].remaining # Unlimited
                   PROVE  /\ quota[t] >= 0
                          /\ \/ tasks'[t].remaining <= quota[t]
                             \/ Charging(t)' /\ tasks'[t].remaining <= quota[t] + 1
        BY <2>1 DEF QuotaSound, runVars
      <4>1. tasks'[t] = tasks[t]
        BY <3>2
      <4>2. CASE t \notin Loops
        <5>1. Charging(t) => Charging(t)'
          BY <3>3, <4>2 DEF Charging, Leased
        <5> QED BY <1>1, <4>1, <5>1 DEF QuotaSound
      <4>3. CASE t \in Loops
        <5>1. ~There(t)
          BY <1>1, <2>3, <3>1, <4>3
        <5>2. ~Charging(t)
          BY <1>1, <5>1 DEF Charging, Leased, LogSound
        <5> QED BY <1>1, <4>1, <5>2 DEF QuotaSound
      <4> QED BY <4>2, <4>3
    <3>9. PostedOnce'
      BY <2>1 DEF OthersOK, PostedOnce
    <3> QED BY <3>4, <3>5, <3>6, <3>7, <3>8, <3>9 DEF IInv
  <2> QED BY <1>3, <2>2, <2>3 DEF ForgetSession
<1>4. CASE ParentRuns
  <2>1. OthersOK'
    BY <1>1, <1>4 DEF ParentRuns, OthersOK, serverVars, boundVars
  <2> QED BY <1>1, <1>4, <2>1, FileKept, TickKept DEF ParentRuns, fileVars
<1>5. ASSUME NEW r \in RunIds, Rewrite(r)
      PROVE  IInv'
  <2>1. history' \in [RunIds -> 0..1]
    BY <1>1, <1>5 DEF Rewrite, OthersOK
  <2>2. OthersOK'
    BY <1>1, <1>5, <2>1 DEF Rewrite, OthersOK, serverVars, boundVars
  <2> QED BY <1>1, <1>5, <2>2, FileKept, TickKept DEF Rewrite, fileVars
<1> QED BY <1>2, <1>3, <1>4, <1>5 DEF ParentStep

LEMMA TimeKeeps ==
  ASSUME IInv, RecordsAge \/ \E l \in Loops : TimePasses(l)
  PROVE  IInv'
<1>1. /\ OthersOK /\ tick \in Tick /\ TickSound /\ tasks \in [All -> Task]
      /\ nextRun \in 1..MaxRuns + 1 /\ MaxRuns \in Nat
  BY Others, CronBounds DEF IInv, TypeOK
<1>2. CASE RecordsAge
  <2>1. aged' \in 0..MaxRuns
    BY <1>1, <1>2 DEF RecordsAge, OthersOK
  <2>2. OthersOK'
    BY <1>1, <1>2, <2>1 DEF RecordsAge, OthersOK, serverVars, parentVars
  <2> QED BY <1>1, <1>2, <2>2, FileKept, TickKept DEF RecordsAge, fileVars
<1>3. ASSUME NEW l \in Loops, TimePasses(l)
      PROVE  IInv'
  <2>1. OthersOK'
    BY <1>1, <1>3 DEF TimePasses, OthersOK, serverVars, parentVars, boundVars
  <2>2. /\ tasks' \in [All -> Task]
        /\ \A t \in All : /\ tasks'[t].status = tasks[t].status
                          /\ tasks'[t].remaining = tasks[t].remaining
    <3>1. CASE tasks' = [tasks EXCEPT ![l].due = TRUE]
      BY <1>1, <3>1 DEF Task
    <3>2. CASE tasks' = [tasks EXCEPT ![l].over = TRUE]
      BY <1>1, <3>2 DEF Task
    <3> QED BY <1>3, <3>1, <3>2 DEF TimePasses
  <2> QED BY <1>1, <1>3, <2>1, <2>2, TasksTouched, TickKept DEF TimePasses
<1> QED BY <1>2, <1>3

LEMMA CloseStep ==
  ASSUME IInv, Close
  PROVE  IInv'
<1>1. OthersOK /\ worker \in [RunIds -> Worker]
  BY Others DEF IInv, TypeOK
<1>2. OthersOK'
  BY <1>1 DEF Close, OthersOK, parentVars, boundVars
<1>3. /\ worker' \in [RunIds -> Worker]
      /\ \A r \in RunIds :
           /\ worker'[r].pc = worker[r].pc /\ worker'[r].task = worker[r].task
           /\ worker'[r].counted = worker[r].counted /\ worker'[r].saved = worker[r].saved
  <2> DEFINE asked(r) == worker[r].cancelled \/ (Working(r) /\ \E t \in All : active[t] = r)
  <2>1. \A r \in RunIds : asked(r) \in BOOLEAN
    BY <1>1 DEF Working, Worker
  <2>2. worker' = [r \in RunIds |-> [worker[r] EXCEPT !.cancelled = asked(r)]]
    BY DEF Close
  <2> HIDE DEF asked
  <2> QED BY <1>1, <2>1, <2>2 DEF Worker
<1> QED BY <1>2, <1>3, WorkersAsked DEF Close

LEMMA RestartStep ==
  ASSUME IInv, Restart
  PROVE  IInv'
<1> DEFINE cut(w) == IF w.pc # "none"
                     THEN [w EXCEPT !.pc = "done", !.cancelled = FALSE, !.saved = TRUE] ELSE w
<1>1. /\ tasks' = [t \in All |-> IF There(t) /\ Charging(t) THEN Charged(tasks[t]) ELSE tasks[t]]
      /\ log' = [r \in RunIds |-> IF log[r].state = "leased"
                                  THEN [log[r] EXCEPT !.state = "expired"] ELSE log[r]]
      /\ active' = [t \in All |-> 0] /\ worker' = [r \in RunIds |-> cut(worker[r])]
      /\ tick' = NoTick /\ closed' = FALSE /\ cancelling' = {} /\ forgetting' = FALSE
      /\ parent' = IF parent \in {"deleted", "gone"} THEN "gone" ELSE "free"
      /\ boots' = boots + 1
      /\ UNCHANGED <<nextRun, quota, history, edits, aged, faults>>
  BY DEF Restart, Charging
<1>2. /\ OthersOK /\ WorkerSound /\ LogSound /\ QuotaSound /\ tasks \in [All -> Task]
      /\ log \in [RunIds -> Record] /\ worker \in [RunIds -> Worker] /\ quota \in [All -> Int]
      /\ nextRun \in 1..MaxRuns + 1 /\ MaxRuns \in Nat
  BY Others, CronBounds DEF IInv, TypeOK
<1>3. /\ tasks' \in [All -> Task] /\ \A t \in All : tasks'[t].status = tasks[t].status
  BY <1>1, <1>2, ChargedTask
<1>4. /\ log' \in [RunIds -> Record]
      /\ \A r \in RunIds : /\ log'[r].state # "leased" /\ log'[r].task = log[r].task
                           /\ log'[r].state = "none" <=> log[r].state = "none"
  BY <1>1, <1>2 DEF Record, Final
<1>5. \A r \in RunIds :
        cut(worker[r]) \in Worker
        /\ (worker[r].pc = "none" <=> cut(worker[r]).pc = "none")
        /\ cut(worker[r]).pc \in {"none", "done"}
  BY <1>2 DEF Worker
<1> HIDE DEF cut
<1>6. /\ worker' \in [RunIds -> Worker]
      /\ \A r \in RunIds : worker'[r].pc \in {"none", "done"}
      /\ \A r \in RunIds : worker[r].pc = "none" => worker'[r].pc = "none"
  BY <1>1, <1>5
<1>7. TypeOK'
  <2>1. parent' \in {"free", "busy", "quarantined", "deleted", "gone"} /\ history' \in [RunIds -> Nat]
    BY <1>1, <1>2 DEF OthersOK
  <2>2. active' \in [All -> 0..MaxRuns]
    BY <1>1, <1>2
  <2>3. boots' \in Nat /\ edits' \in Nat /\ faults' \in Nat /\ aged' \in 0..MaxRuns
    BY <1>1, <1>2 DEF OthersOK
  <2>4. /\ tick' \in Tick /\ closed' \in BOOLEAN /\ forgetting' \in BOOLEAN
        /\ cancelling' \subseteq Loops
    BY <1>1, Kinds
  <2>5. nextRun' \in 1..MaxRuns + 1 /\ quota' \in [All -> Int]
    BY <1>1, <1>2
  <2> QED BY <1>3, <1>4, <1>6, <2>1, <2>2, <2>3, <2>4, <2>5 DEF TypeOK
<1>8. TickSound'
  BY <1>1 DEF TickSound, NoTick
<1>9. WorkerSound'
  BY <1>1, <1>2, <1>4, <1>6 DEF WorkerSound
<1>10. LogSound'
  BY <1>2, <1>3, <1>4 DEF LogSound, There
<1>11. QuotaSound'
  <2> SUFFICES ASSUME NEW t \in All, tasks'[t].remaining # Unlimited
               PROVE  quota[t] >= 0 /\ tasks'[t].remaining <= quota[t]
    BY <1>1 DEF QuotaSound
  <2>1. tasks[t].remaining \in Nat \cup {-1} /\ quota[t] \in Int
    BY <1>2 DEF Task, Unlimited
  <2>2. Charging(t) => There(t)
    BY <1>2 DEF Charging, Leased, LogSound
  <2>3. CASE Charging(t)
    <3>1. tasks'[t] = Charged(tasks[t])
      BY <1>1, <2>2, <2>3
    <3>2. /\ tasks[t].remaining > 0 => tasks'[t].remaining = tasks[t].remaining - 1
          /\ ~(tasks[t].remaining > 0) => tasks'[t] = tasks[t]
      BY <1>2, <3>1, ChargedTask
    <3>3. tasks[t].remaining # Unlimited
      BY <3>2 DEF Unlimited
    <3>4. quota[t] >= 0 /\ tasks[t].remaining <= quota[t] + 1
      BY <1>2, <2>1, <3>3 DEF QuotaSound
    <3> QED BY <2>1, <3>2, <3>4
  <2>4. CASE ~Charging(t)
    <3>1. tasks'[t] = tasks[t]
      BY <1>1, <2>4
    <3> QED BY <1>2, <2>4, <3>1 DEF QuotaSound
  <2> QED BY <2>3, <2>4
<1>12. PostedOnce'
  BY <1>1, <1>2 DEF PostedOnce, OthersOK
<1> QED BY <1>7, <1>8, <1>9, <1>10, <1>11, <1>12 DEF IInv

-----------------------------------------------------------------------------
(* The theorems. *)

LEMMA InitInv == Init => IInv
<1> SUFFICES ASSUME Init PROVE IInv
  OBVIOUS
<1>1. MaxRuns \in Nat
  BY CronBounds
<1>2. TypeOK
  <2>1. /\ tasks \in [All -> Task] /\ log \in [RunIds -> Record] /\ worker \in [RunIds -> Worker]
        /\ tick \in Tick
    BY Kinds DEF Init
  <2>2. /\ active \in [All -> 0..MaxRuns] /\ history \in [RunIds -> Nat]
        /\ nextRun \in 1..MaxRuns + 1 /\ aged \in 0..MaxRuns
    BY <1>1 DEF Init
  <2>3. quota \in [All -> Int]
    BY DEF Init, Unlimited
  <2> QED BY <2>1, <2>2, <2>3 DEF Init, TypeOK
<1>3. TickSound
  BY DEF Init, NoTick, TickSound
<1>4. WorkerSound /\ LogSound
  BY Kinds DEF Init, WorkerSound, LogSound
<1>5. QuotaSound /\ PostedOnce
  BY Kinds DEF Init, QuotaSound, PostedOnce
<1> QED BY <1>2, <1>3, <1>4, <1>5 DEF IInv

LEMMA NextInv == IInv /\ [Next]_vars => IInv'
<1> SUFFICES ASSUME IInv, [Next]_vars PROVE IInv'
  OBVIOUS
<1>1. ASSUME NEW r \in RunIds, WorkerStep(r)
      PROVE  IInv'
  BY <1>1, AcceptStep, UnavailableStep, FinishStep, LeaveStep DEF WorkerStep
<1>2. CASE UNCHANGED vars
  <2>1. OthersOK /\ tick \in Tick /\ TickSound
    BY Others DEF IInv, TypeOK
  <2>2. UNCHANGED <<fileVars, runVars, tick>> /\ TickSound' /\ OthersOK'
    BY <1>2, <2>1
       DEF vars, TickSound, OthersOK, fileVars, runVars, serverVars, parentVars, boundVars
  <2> QED BY <2>1, <2>2, FileKept
<1> QED BY <1>1, <1>2, SchedulerKeeps, ClientKeeps, ParentKeeps, TimeKeeps, CloseStep, RestartStep
    DEF Next

(* The inductive invariant holds: every lease belongs to a task that is there and   *)
(* to the worker that will end it, and what the file allows a task is covered by    *)
(* what its clients allowed.                                                          *)
THEOREM InvariantHolds == Spec => []IInv
<1>1. Init => IInv
  BY InitInv
<1>2. IInv /\ [Next]_vars => IInv'
  BY NextInv
<1> QED BY <1>1, <1>2, PTL DEF Spec

(* Every variable of the scheduler keeps its kind. *)
THEOREM TypeCorrect == Spec => []TypeOK
<1>1. IInv => TypeOK
  BY DEF IInv
<1> QED BY <1>1, InvariantHolds, PTL

(* Executions of a task do not overlap, a lease has a worker or an end that was not *)
(* saved, and a limited task is started no more often than allowed.                   *)
THEOREM RunsAreSound == Spec => []RunsSound
<1>1. IInv => RunsSound
  <2> SUFFICES ASSUME IInv PROVE RunsSound
    OBVIOUS
  <2>1. NoOverlap
    BY DEF IInv, WorkerSound, NoOverlap, Working
  <2>2. LeasesEnd
    BY DEF IInv, LogSound, LeasesEnd
  <2>3. WithinLimit
    BY DEF IInv, QuotaSound, WithinLimit
  <2> QED BY <2>1, <2>2, <2>3 DEF RunsSound
<1> QED BY <1>1, InvariantHolds, PTL

(* The scheduler posts only results it has not acknowledged: no message is raised   *)
(* for a delivered one by any other step.                                              *)
LEMMA NothingPostedAgain ==
  ASSUME IInv, [Next]_vars
  PROVE  \A r \in RunIds : log[r].delivered => history'[r] <= history[r]
<1> SUFFICES ASSUME NEW r \in RunIds, log[r].delivered
             PROVE  history'[r] <= history[r]
  OBVIOUS
<1>1. history \in [RunIds -> 0..1]
  BY Others DEF OthersOK
<1>2. CASE Post
  <2>1. PICK q \in tick.results :
          \/ history' = [history EXCEPT ![q] = IF @ = 0 THEN 1 ELSE @]
          \/ UNCHANGED history
    BY <1>2 DEF Post, Oldest, parentVars
  <2>2. q # r
    BY DEF IInv, TickSound
  <2> QED BY <1>1, <2>1, <2>2
<1>3. CASE history' = [q \in RunIds |-> 0]
  BY <1>1, <1>3
<1>4. ASSUME NEW q \in RunIds, history' = [history EXCEPT ![q] = 0]
      PROVE  history'[r] <= history[r]
  BY <1>1, <1>4
<1>5. CASE UNCHANGED history
  BY <1>1, <1>5
<1>6. Post \/ history' = [q \in RunIds |-> 0] \/ UNCHANGED history
      \/ \E q \in RunIds : history' = [history EXCEPT ![q] = 0]
  <2>1. CASE \E q \in RunIds : WorkerStep(q)
    BY <2>1 DEF WorkerStep, Accept, Unavailable, Finish, Leave, parentVars
  <2>2. CASE TickStep
    BY <2>2 DEF TickStep, TickBegin, TickEnd, VisitTask, VisitLoop, Acknowledge, Check, Fire,
                parentVars
  <2>3. CASE ClientStep
    BY <2>3 DEF ClientStep, Create, CreateLoop, CancelRemoved, Delete, SetLimit, SetEnabled,
                RunNow, Cancel, ClearRuns, Edit, parentVars
  <2>4. CASE ParentStep
    BY <2>4 DEF ParentStep, DeleteParent, ForgetSession, ParentRuns, Rewrite, parentVars
  <2>5. CASE RecordsAge \/ (\E l \in Loops : TimePasses(l)) \/ Close \/ Restart
    BY <2>5 DEF RecordsAge, TimePasses, Close, Restart, parentVars
  <2>6. CASE UNCHANGED vars
    BY <2>6 DEF vars, parentVars
  <2> QED BY <2>1, <2>2, <2>3, <2>4, <2>5, <2>6 DEF Next
<1> QED BY <1>2, <1>3, <1>4, <1>5, <1>6

(* The conversation holds a result at most once, and an acknowledged one is never   *)
(* posted again, over crashes, failed saves and rewritten histories.                  *)
THEOREM ResultsPostedOnce == Spec => []PostedOnce /\ NotPostedAgain
<1>1. IInv => PostedOnce
  BY DEF IInv
<1>2. IInv /\ [Next]_vars => [\A r \in RunIds : log[r].delivered => history'[r] <= history[r]]_vars
  BY NothingPostedAgain
<1> QED BY <1>1, <1>2, InvariantHolds, PTL DEF Spec, NotPostedAgain
-----------------------------------------------------------------------------
(* Results stay in the log: counting the records behind one. *)

(* The newer records of a task are finitely many. *)
LEMMA NewerFinite ==
  ASSUME NEW r \in RunIds, NEW l
  PROVE  /\ IsFiniteSet(Newer(r, l)) /\ Cardinality(Newer(r, l)) \in Nat
         /\ Newer(r, l) \subseteq RunIds /\ r \notin Newer(r, l)
<1>1. r \in Nat /\ r + 1 \in Int /\ MaxRuns \in Int
  BY CronBounds DEF RunIds
<1>2. IsFiniteSet(r + 1..MaxRuns)
  BY <1>1, FS_Interval
<1>3. Newer(r, l) \subseteq r + 1..MaxRuns
  BY DEF Newer
<1>4. IsFiniteSet(Newer(r, l)) /\ Cardinality(Newer(r, l)) \in Nat
  BY <1>2, <1>3, FS_Subset, FS_CardinalityType
<1> QED BY <1>1, <1>3, <1>4 DEF RunIds

(* A loop whose log is not full has room for one more record behind what was not     *)
(* acknowledged: with as many newer records as the limit allows, that record and they *)
(* would be the newest.                                                                 *)
LEMMA NotFullIsRoom ==
  ASSUME NEW l, Room(l, 1), ~Full(l)
  PROVE  Room(l, 2)
<1> SUFFICES ASSUME NEW r \in RunIds, log[r].task = l, ~log[r].delivered
             PROVE  Cardinality(Newer(r, l)) + 2 <= RunLimit
  BY DEF Room
<1> DEFINE newest == {p \in RunIds : log[p].task = l /\ Cardinality(Newer(p, l)) < RunLimit}
<1>1. /\ IsFiniteSet(Newer(r, l)) /\ Cardinality(Newer(r, l)) \in Nat
      /\ Newer(r, l) \subseteq RunIds /\ r \notin Newer(r, l)
      /\ RunLimit \in Nat /\ MaxRuns \in Nat /\ r \in Nat
  BY NewerFinite, CronBounds DEF RunIds
<1>2. Cardinality(Newer(r, l)) + 1 <= RunLimit
  BY DEF Room
<1>3. ~(Cardinality(newest) = RunLimit /\ \E p \in newest : ~log[p].delivered)
  BY DEF Full, Newest
<1>4. SUFFICES ASSUME Cardinality(Newer(r, l)) + 1 = RunLimit
               PROVE  FALSE
  BY <1>1, <1>2
<1>5. ASSUME NEW p \in Newer(r, l) PROVE p \in newest
  <2>1. p \in RunIds /\ log[p].task = l /\ r < p
    BY <1>1, <1>5 DEF Newer
  <2>2. Newer(p, l) \subseteq Newer(r, l)
    BY <2>1, <1>1 DEF Newer, RunIds
  <2>3. Cardinality(Newer(p, l)) <= Cardinality(Newer(r, l)) /\ Cardinality(Newer(p, l)) \in Nat
    BY <2>1, <2>2, <1>1, FS_Subset, NewerFinite
  <2> QED BY <2>1, <2>3, <1>1, <1>4
<1>6. r \in newest
  BY <1>1, <1>4
<1>7. ASSUME NEW p \in newest PROVE p \in Newer(r, l) \cup {r}
  <2>1. p \in RunIds /\ log[p].task = l /\ Cardinality(Newer(p, l)) < RunLimit /\ p \in Nat
    BY <1>7 DEF RunIds
  <2>2. CASE p < r
    <3>1. Newer(r, l) \cup {r} \subseteq Newer(p, l)
      BY <2>1, <2>2, <1>1 DEF Newer, RunIds
    <3>2. Cardinality(Newer(r, l) \cup {r}) = Cardinality(Newer(r, l)) + 1
      BY <1>1, FS_AddElement
    <3>3. Cardinality(Newer(r, l) \cup {r}) <= Cardinality(Newer(p, l))
          /\ Cardinality(Newer(p, l)) \in Nat
      BY <2>1, <3>1, FS_Subset, NewerFinite
    <3> QED BY <3>2, <3>3, <2>1, <1>1, <1>4
  <2>3. CASE r < p
    BY <2>1, <2>3, <1>1 DEF Newer, RunIds
  <2> QED BY <2>1, <2>2, <2>3, <1>1
<1>8. newest = Newer(r, l) \cup {r}
  BY <1>5, <1>6, <1>7
<1>9. Cardinality(newest) = RunLimit
  BY <1>1, <1>4, <1>8, FS_AddElement
<1> QED BY <1>3, <1>6, <1>9

(* Room is kept while no record is added, nor a delivered one made undelivered. *)
LEMMA RoomKept ==
  ASSUME NEW l, NEW n \in Nat, Room(l, n),
         \A q \in RunIds : log'[q].task = l =>
           log[q].task = l /\ (log[q].delivered => log'[q].delivered)
  PROVE  Room(l, n)'
<1> SUFFICES ASSUME NEW r \in RunIds, log'[r].task = l, ~log'[r].delivered
             PROVE  Cardinality(Newer(r, l)') + n <= RunLimit
  BY DEF Room
<1>1. /\ IsFiniteSet(Newer(r, l)) /\ Cardinality(Newer(r, l)) \in Nat
      /\ RunLimit \in Nat /\ MaxRuns \in Nat /\ r \in 1..MaxRuns
  BY NewerFinite, CronBounds DEF RunIds
<1>2. log[r].task = l /\ ~log[r].delivered
  OBVIOUS
<1>3. Cardinality(Newer(r, l)) + n <= RunLimit
  BY <1>2 DEF Room
<1>4. Newer(r, l)' \subseteq Newer(r, l)
  BY <1>1 DEF Newer, RunIds
<1>5. Cardinality(Newer(r, l)') <= Cardinality(Newer(r, l)) /\ Cardinality(Newer(r, l)') \in Nat
  BY <1>1, <1>4, FS_Subset, FS_CardinalityType
<1> QED BY <1>1, <1>3, <1>5

-----------------------------------------------------------------------------
(* What steps do to records and workers, and why that keeps results. *)

(* What every step but a start does to records and workers: no record of a loop is   *)
(* added or made undelivered, a worker that executes keeps its lease unless its loop   *)
(* is deleted, and the scheduler is not about to fire unless it was.                    *)
RecordMoves(q) ==
  /\ log'[q].task \in Loops =>
       log'[q].task = log[q].task /\ (log[q].delivered => log'[q].delivered)
  /\ log'[q].state = "none" => log'[q].task = None
  /\ log'[q].state \in Final => log[q].state \in Final \/ worker'[q].pc # "executing"
  /\ log'[q].state = "leased" =>
       ~log'[q].delivered /\ (log[q].state = "leased" \/ worker[q].pc = "executing")
WorkerMoves(q) ==
  /\ worker'[q].task = worker[q].task /\ worker'[q].counted = worker[q].counted
  /\ worker'[q].pc = "none" => worker[q].pc = "none"
  /\ worker'[q].pc = "executing" =>
       /\ worker[q].pc = "executing"
       /\ \A l \in Loops : Leased(q, l) => Leased(q, l)' \/ tasks'[l].status = "deleted"
TickMoves ==
  /\ tick'.pc = "fire" => tick.pc = "fire" /\ tick'.task = tick.task
  /\ \A r \in tick'.results :
       r \in tick.results \/ (r \in RunIds /\ log[r].state \in Final /\ log' = log /\ worker' = worker)
Moves ==
  /\ nextRun' = nextRun /\ TickMoves
  /\ \A q \in RunIds : RecordMoves(q) /\ WorkerMoves(q)
  /\ \A l \in Loops : tasks[l].status = "deleted" => tasks'[l].status = "deleted"

(* Such a step keeps what keeps the results. *)
LEMMA MovesKeep ==
  ASSUME KeptInv, Moves
  PROVE  ResultsKept' /\ RecordsSound'
<1>1. /\ IInv /\ ResultsKept /\ RecordsSound /\ tick \in Tick
      /\ nextRun' = nextRun /\ nextRun \in 1..MaxRuns + 1 /\ MaxRuns \in Nat
  BY CronBounds DEF KeptInv, Moves, IInv, TypeOK
<1>2. \A q \in RunIds : RecordMoves(q) /\ WorkerMoves(q)
  BY DEF Moves
<1>3. ASSUME NEW l \in Loops, ByHand(l) PROVE ByHand(l)'
  BY <1>2, <1>3 DEF ByHand, WorkerMoves
<1>4. ASSUME NEW l \in Loops, NEW n \in Nat, Room(l, n) PROVE Room(l, n)'
  <2>1. \A q \in RunIds : log'[q].task = l =>
          log[q].task = l /\ (log[q].delivered => log'[q].delivered)
    BY <1>2 DEF RecordMoves
  <2> QED BY <2>1, <1>4, RoomKept
<1>5. ResultsKept'
  <2>1. \A l \in Loops : ByHand(l)' \/ Room(l, 1)'
    BY <1>1, <1>3, <1>4 DEF ResultsKept
  <2>2. ASSUME tick'.pc = "fire" PROVE ByHand(tick.task)' \/ Room(tick.task, 2)'
    <3>1. tick.pc = "fire" /\ tick'.task = tick.task
      BY <2>2 DEF Moves, TickMoves
    <3>2. PICK l \in Loops : l = tick.task
      BY <1>1, <3>1 DEF IInv, TickSound
    <3>3. ByHand(l) \/ Room(l, 2)
      BY <1>1, <3>1, <3>2 DEF ResultsKept
    <3>4. CASE ByHand(l)
      BY <3>1, <3>2, <3>4, <1>3
    <3>5. CASE Room(l, 2)
      <4>1. 2 \in Nat
        OBVIOUS
      <4>2. Room(l, 2)'
        BY <3>5, <4>1, <1>4
      <4> QED BY <3>1, <3>2, <4>2
    <3> QED BY <3>3, <3>4, <3>5
  <2> QED BY <2>1, <2>2 DEF ResultsKept
<1>6. ASSUME NEW r \in RunIds PROVE (WorkerHasLease(r) /\ RecordSound(r))'
  <2>1. WorkerHasLease(r) /\ RecordSound(r) /\ RecordMoves(r) /\ WorkerMoves(r)
    BY <1>1, <1>2, <1>6 DEF RecordsSound
  <2>2. WorkerHasLease(r)'
    BY <2>1 DEF WorkerHasLease, WorkerMoves, Moves
  <2>3. RecordSound(r)'
    BY <2>1 DEF RecordSound, RecordMoves, WorkerMoves
  <2> QED BY <2>2, <2>3
<1>7. ASSUME NEW r \in tick'.results
      PROVE  r < nextRun' /\ worker'[r].pc # "executing" /\ log'[r].state # "leased"
  <2>1. CASE r \in tick.results
    <3>1. r \in RunIds /\ r < nextRun /\ worker[r].pc # "executing" /\ log[r].state # "leased"
      BY <1>1, <2>1 DEF RecordsSound, Tick
    <3> QED BY <1>1, <1>2, <3>1 DEF RecordMoves, WorkerMoves
  <2>2. CASE r \in RunIds /\ log[r].state \in Final /\ log' = log /\ worker' = worker
    <3>1. log[r].state # "none" /\ log[r].state # "leased" /\ worker[r].pc # "executing"
      BY <1>1, <2>2 DEF RecordsSound, RecordSound, Final
    <3>2. r < nextRun
      BY <1>1, <2>2, <3>1 DEF IInv, WorkerSound, RunIds
    <3> QED BY <1>1, <2>2, <3>1, <3>2
  <2> QED BY <1>7, <2>1, <2>2 DEF Moves, TickMoves
<1> QED BY <1>5, <1>6, <1>7 DEF RecordsSound

(* A step that leaves log and workers alone. *)
LEMMA QuietMoves ==
  ASSUME KeptInv, log' = log, worker' = worker, nextRun' = nextRun, TickMoves,
         \A l \in Loops : tasks[l].status = "deleted" => tasks'[l].status = "deleted"
  PROVE  Moves
<1>1. ASSUME NEW q \in RunIds PROVE RecordMoves(q) /\ WorkerMoves(q)
  <2>1. RecordSound(q)
    BY DEF KeptInv, RecordsSound
  <2> QED BY <2>1 DEF RecordMoves, WorkerMoves, RecordSound, Leased
<1> QED BY <1>1 DEF Moves

(* A step that leaves the log alone and only moves workers on. *)
LEMMA WorkerStepMoves ==
  ASSUME KeptInv, log' = log, nextRun' = nextRun, tick' = tick,
         \A l \in Loops : tasks[l].status = "deleted" => tasks'[l].status = "deleted",
         \A q \in RunIds :
           /\ worker'[q].task = worker[q].task /\ worker'[q].counted = worker[q].counted
           /\ worker'[q].pc = "none" => worker[q].pc = "none"
           /\ worker'[q].pc = "executing" => worker[q].pc = "executing"
  PROVE  Moves
<1>1. ASSUME NEW q \in RunIds PROVE RecordMoves(q) /\ WorkerMoves(q)
  <2>1. RecordSound(q)
    BY DEF KeptInv, RecordsSound
  <2> QED BY <2>1 DEF RecordMoves, WorkerMoves, RecordSound, Leased
<1>2. TickMoves
  BY DEF TickMoves
<1> QED BY <1>1, <1>2 DEF Moves

(* An execution starts: of a task, of a loop by hand, or of a loop by the scheduler    *)
(* that found room for it.                                                              *)
LEMMA StartKeepsResults ==
  ASSUME KeptInv, NEW t \in All, NEW counted \in BOOLEAN, Start(t, counted),
         counted /\ t \in Loops => tick.pc = "fire" /\ tick.task = t,
         tick'.pc = "fire" => tick' = tick /\ ~counted, tick'.results \subseteq tick.results
  PROVE  /\ ResultsKept' /\ RecordsSound'
         /\ \A r \in RunIds : log[r].state # "none" => log'[r] = log[r]
<1> DEFINE n == nextRun
           new == [pc |-> "executing", task |-> t, counted |-> counted, cancelled |-> FALSE,
                   saved |-> TRUE]
<1>1. /\ IInv /\ ResultsKept /\ RecordsSound /\ MaxRuns \in Nat /\ RunLimit \in Nat \ {0}
      /\ log \in [RunIds -> Record] /\ worker \in [RunIds -> Worker] /\ tasks \in [All -> Task]
      /\ tick \in Tick /\ None \notin All /\ Loops \subseteq All
  BY CronBounds, CronIds DEF KeptInv, IInv, TypeOK, All
<1>2. /\ n \in RunIds /\ nextRun' = n + 1
      /\ log' = [log EXCEPT ![n] = Lease(t, counted)] /\ worker' = [worker EXCEPT ![n] = new]
  BY DEF Start, Startable
<1>3. \A l \in Loops : tasks'[l].status = tasks[l].status
  BY <1>1 DEF Start, Task
<1>4. \A q \in RunIds : q >= n => /\ log[q].state = "none" /\ log[q].task = None
                                  /\ worker[q].pc = "none" /\ worker[q].task = None
  BY <1>1 DEF IInv, WorkerSound, RecordsSound, RecordSound
<1> HIDE DEF n
<1>5. /\ n \in Nat /\ log'[n].task = t /\ log'[n].state = "leased" /\ ~log'[n].delivered
      /\ worker'[n] = new
      /\ \A q \in RunIds \ {n} : log'[q] = log[q] /\ worker'[q] = worker[q]
  BY <1>1, <1>2, LeaseRecord DEF RunIds
<1>6. ASSUME NEW l \in Loops, ByHand(l) PROVE ByHand(l)'
  <2>1. PICK q \in RunIds : worker[q].task = l /\ ~worker[q].counted
    BY <1>6 DEF ByHand
  <2>2. q # n
    BY <1>1, <1>4, <2>1, <1>5
  <2> QED BY <1>5, <2>1, <2>2 DEF ByHand
<1>7. ASSUME NEW l \in Loops, l # t, NEW k \in Nat, Room(l, k) PROVE Room(l, k)'
  <2>1. \A q \in RunIds : log'[q].task = l =>
          log[q].task = l /\ (log[q].delivered => log'[q].delivered)
    BY <1>5, <1>7
  <2> QED BY <2>1, <1>7, RoomKept
<1>8. ASSUME t \in Loops, ~counted PROVE ByHand(t)'
  BY <1>2, <1>5, <1>8 DEF ByHand
<1>9. ASSUME t \in Loops, Room(t, 2) PROVE Room(t, 1)'
  <2> SUFFICES ASSUME NEW r \in RunIds, log'[r].task = t, ~log'[r].delivered
               PROVE  Cardinality(Newer(r, t)') + 1 <= RunLimit
    BY DEF Room
  <2>1. /\ IsFiniteSet(Newer(r, t)) /\ Cardinality(Newer(r, t)) \in Nat /\ r \in 1..MaxRuns
    BY NewerFinite DEF RunIds
  <2>2. \A q \in RunIds : n < q => log'[q].task # t
    BY <1>1, <1>4, <1>5 DEF RunIds
  <2>3. CASE r = n
    <3>1. Newer(r, t)' = {}
      BY <1>1, <2>2, <2>3, <1>5 DEF Newer, RunIds
    <3> QED BY <3>1, <1>1, FS_EmptySet
  <2>4. CASE r # n
    <3>1. log[r].task = t /\ ~log[r].delivered
      BY <1>5, <2>4
    <3>2. Cardinality(Newer(r, t)) + 2 <= RunLimit
      BY <1>9, <3>1 DEF Room
    <3>3. Newer(r, t)' \subseteq Newer(r, t) \cup {n}
      BY <1>1, <1>5, <2>1 DEF Newer, RunIds
    <3>4. /\ IsFiniteSet(Newer(r, t) \cup {n})
          /\ Cardinality(Newer(r, t) \cup {n}) <= Cardinality(Newer(r, t)) + 1
          /\ Cardinality(Newer(r, t) \cup {n}) \in Nat
      <4>1. CASE n \in Newer(r, t)
        <5>1. Newer(r, t) \cup {n} = Newer(r, t)
          BY <4>1
        <5> QED BY <2>1, <5>1
      <4>2. CASE n \notin Newer(r, t)
        <5>1. IsFiniteSet(Newer(r, t) \cup {n})
          BY <2>1, <4>2, FS_AddElement
        <5>2. Cardinality(Newer(r, t) \cup {n}) = Cardinality(Newer(r, t)) + 1
          BY <2>1, <4>2, FS_AddElement
        <5> QED BY <2>1, <5>1, <5>2
      <4> QED BY <4>1, <4>2
    <3>5. Cardinality(Newer(r, t)') <= Cardinality(Newer(r, t) \cup {n})
          /\ Cardinality(Newer(r, t)') \in Nat
      BY <3>3, <3>4, FS_Subset, FS_CardinalityType
    <3> QED BY <1>1, <2>1, <3>2, <3>4, <3>5
  <2> QED BY <2>3, <2>4
<1>10. ASSUME NEW l \in Loops PROVE ByHand(l)' \/ Room(l, 1)'
  <2>1. ByHand(l) \/ Room(l, 1)
    BY <1>1 DEF ResultsKept
  <2>2. CASE l # t
    BY <2>1, <2>2, <1>6, <1>7
  <2>3. CASE l = t /\ ~counted
    BY <2>3, <1>8
  <2>4. CASE l = t /\ counted
    <3>1. ByHand(l) \/ Room(l, 2)
      BY <2>4, <1>1 DEF ResultsKept
    <3> QED BY <3>1, <2>4, <1>6, <1>9
  <2> QED BY <2>2, <2>3, <2>4
<1>11. ASSUME tick'.pc = "fire" PROVE ByHand(tick.task)' \/ Room(tick.task, 2)'
  <2>1. tick' = tick /\ ~counted
    BY <1>11
  <2>2. PICK l \in Loops : l = tick.task
    BY <1>1, <1>11, <2>1 DEF IInv, TickSound
  <2>3. ByHand(l) \/ Room(l, 2)
    BY <1>1, <1>11, <2>1, <2>2 DEF ResultsKept
  <2>4. CASE l = t
    BY <2>1, <2>2, <2>4, <1>8
  <2>5. CASE l # t /\ ByHand(l)
    BY <2>1, <2>2, <2>5, <1>6
  <2>6. CASE l # t /\ Room(l, 2)
    <3>1. 2 \in Nat
      OBVIOUS
    <3>2. Room(l, 2)'
      BY <2>6, <3>1, <1>7
    <3> QED BY <2>1, <2>2, <3>2
  <2> QED BY <2>3, <2>4, <2>5, <2>6
<1>12. ResultsKept'
  BY <1>10, <1>11 DEF ResultsKept
<1>13. ASSUME NEW r \in RunIds PROVE (WorkerHasLease(r) /\ RecordSound(r))'
  <2>1. CASE r = n
    <3>1. WorkerHasLease(r)'
      BY <2>1, <1>5 DEF WorkerHasLease, Leased
    <3>2. RecordSound(r)'
      BY <2>1, <1>5 DEF RecordSound, Final
    <3> QED BY <3>1, <3>2
  <2>2. CASE r # n
    <3>1. WorkerHasLease(r) /\ RecordSound(r)
      BY <1>1 DEF RecordsSound
    <3>2. log'[r] = log[r] /\ worker'[r] = worker[r]
      BY <2>2, <1>5
    <3>3. WorkerHasLease(r)'
      BY <3>1, <3>2, <1>3 DEF WorkerHasLease, Leased
    <3>4. RecordSound(r)'
      BY <3>1, <3>2 DEF RecordSound
    <3> QED BY <3>3, <3>4
  <2> QED BY <2>1, <2>2
<1>14. ASSUME NEW r \in tick'.results
       PROVE  r < nextRun' /\ worker'[r].pc # "executing" /\ log'[r].state # "leased"
  <2>1. r \in RunIds /\ r < n /\ worker[r].pc # "executing" /\ log[r].state # "leased"
    BY <1>1 DEF RecordsSound, Tick, n
  <2>2. r # n /\ r < n + 1
    BY <2>1, <1>5 DEF RunIds
  <2> QED BY <2>1, <2>2, <1>2, <1>5
<1>15. \A r \in RunIds : log[r].state # "none" => log'[r] = log[r]
  <2>1. log[n].state = "none"
    BY <1>2, <1>4, <1>5
  <2> QED BY <2>1, <1>5
<1> QED BY <1>12, <1>13, <1>14, <1>15 DEF RecordsSound

-----------------------------------------------------------------------------
(* The steps of an execution. *)

(* A result that was not delivered stays, in this step. *)
Evicts(l, r) == Undelivered(r, l) /\ tasks'[l].status = "there" /\ log'[r].task # l
NoneEvicted ==
  \A l \in Loops, r \in RunIds : Evicts(l, r) => Cleared(l) \/ r <= aged \/ ByHand(l)
StepKeeps == ResultsKept' /\ RecordsSound' /\ NoneEvicted

(* A step that leaves the log alone, and moves workers on if at all. *)
LEMMA WorkerStepKeeps ==
  ASSUME KeptInv, log' = log, nextRun' = nextRun, TickMoves,
         \A r \in tick'.results : r \in tick.results \/ worker' = worker,
         \A l \in Loops : tasks[l].status = "deleted" => tasks'[l].status = "deleted",
         \A q \in RunIds :
           /\ worker'[q].task = worker[q].task /\ worker'[q].counted = worker[q].counted
           /\ worker'[q].pc = "none" => worker[q].pc = "none"
           /\ worker'[q].pc = "executing" => worker[q].pc = "executing"
  PROVE  StepKeeps
<1>1. ASSUME NEW q \in RunIds PROVE RecordMoves(q) /\ WorkerMoves(q)
  <2>1. RecordSound(q)
    BY DEF KeptInv, RecordsSound
  <2> QED BY <2>1 DEF RecordMoves, WorkerMoves, RecordSound, Leased
<1>2. Moves
  BY <1>1 DEF Moves
<1>3. NoneEvicted
  BY DEF NoneEvicted, Evicts, Undelivered
<1> QED BY <1>2, <1>3, MovesKeep DEF StepKeeps

(* A step that leaves log and workers alone. *)
LEMMA QuietKeeps ==
  ASSUME KeptInv, log' = log, worker' = worker, nextRun' = nextRun, TickMoves,
         \A l \in Loops : tasks[l].status = "deleted" => tasks'[l].status = "deleted"
  PROVE  StepKeeps
BY WorkerStepKeeps

(* The scheduler's part in a step of others, or that goes back to its visits. *)
LEMMA TickRests ==
  ASSUME \/ tick' = tick
         \/ /\ tick'.pc # "fire"
            /\ \A r \in tick'.results : r \in tick.results
  PROVE  TickMoves
BY DEF TickMoves

(* recordLocked drops a result of a loop that was not delivered only by age, or after  *)
(* somebody ran the loop by hand.                                                        *)
LEMMA KeptResults ==
  ASSUME KeptInv, NEW records \in [RunIds -> Record], NEW l \in Loops, NEW r \in RunIds,
         Undelivered(r, l), records[r].task = l, Kept(records)[r].task # l,
         \A q \in RunIds : records[q].task = l => log[q].task = l
  PROVE  r <= aged \/ ByHand(l)
<1> SUFFICES ASSUME ~(r <= aged), ~ByHand(l) PROVE FALSE
  OBVIOUS
<1> DEFINE newer == {q \in r + 1..MaxRuns :
                       records[q].state \in Final /\ records[q].task = records[r].task}
<1>1. Cardinality(newer) >= RunLimit
  BY DEF Kept
<1>2. /\ IsFiniteSet(Newer(r, l)) /\ Cardinality(Newer(r, l)) \in Nat
      /\ RunLimit \in Nat /\ MaxRuns \in Nat /\ r \in 1..MaxRuns
  BY NewerFinite, CronBounds DEF RunIds
<1>3. newer \subseteq Newer(r, l)
  BY <1>2 DEF Newer, RunIds
<1>4. Cardinality(newer) <= Cardinality(Newer(r, l)) /\ Cardinality(newer) \in Nat
  BY <1>2, <1>3, FS_Subset, FS_CardinalityType
<1>5. Room(l, 1)
  BY DEF KeptInv, ResultsKept
<1>6. Cardinality(Newer(r, l)) + 1 <= RunLimit
  BY <1>5 DEF Room, Undelivered
<1> QED BY <1>1, <1>2, <1>4, <1>6

LEMMA AcceptKeepsResults ==
  ASSUME KeptInv, NEW r \in RunIds, Accept(r)
  PROVE  StepKeeps
<1> DEFINE t == worker[r].task
           lease == Lease(t, worker[r].counted)
           records == [log EXCEPT ![r] = lease]
<1>1. /\ worker[r].pc = "executing" /\ worker' = [worker EXCEPT ![r].pc = "accepted"]
      /\ UNCHANGED <<tasks, nextRun, tick>>
  BY DEF Accept
<1>2. /\ IInv /\ WorkerSound /\ RecordsSound /\ log \in [RunIds -> Record]
      /\ worker \in [RunIds -> Worker]
      /\ Loops \subseteq All /\ None \notin All
  BY CronIds DEF KeptInv, IInv, TypeOK, All
<1>3. t \in All /\ worker[r].counted \in BOOLEAN
  BY <1>1, <1>2 DEF WorkerSound, Worker
<1>4. /\ lease \in Record /\ lease.state = "leased" /\ lease.task = t
      /\ lease.counted = worker[r].counted /\ ~lease.delivered
  BY <1>3, LeaseRecord
<1> HIDE DEF lease
<1>5. \A q \in RunIds :
        /\ worker'[q].task = worker[q].task /\ worker'[q].counted = worker[q].counted
        /\ worker'[q].pc = "none" => worker[q].pc = "none"
        /\ worker'[q].pc = "executing" => worker[q].pc = "executing"
  BY <1>1, <1>2 DEF Worker
<1>6. TickMoves
  BY <1>1, TickRests
<1>7. CASE log' = log
  BY <1>1, <1>5, <1>6, <1>7, WorkerStepKeeps
<1>8. CASE There(t) /\ log[r].state \notin Final /\ log' = Kept(records)
  <2>1. /\ records \in [RunIds -> Record] /\ records[r] = lease
        /\ \A q \in RunIds \ {r} : records[q] = log[q]
    BY <1>2, <1>4
  <2>2. t \in Loops => Leased(r, t) /\ ~log[r].delivered
    <3>1. WorkerHasLease(r) /\ RecordSound(r)
      BY <1>2 DEF RecordsSound
    <3> QED BY <3>1, <1>1, <1>8 DEF WorkerHasLease, RecordSound, There, Leased
  <2> HIDE DEF records
  <2>3. /\ \A q \in RunIds : log'[q] \in {records[q], NoRecord}
        /\ \A q \in RunIds : records[q].state = "leased" => log'[q] = records[q]
    BY <1>8, <2>1, KeptRecords DEF Final
  <2>4. \A l \in Loops : \A q \in RunIds : records[q].task = l => log[q].task = l
    BY <1>4, <2>1, <2>2 DEF Leased
  <2> HIDE DEF t
  <2>5. ASSUME NEW q \in RunIds PROVE RecordMoves(q)
    <3>1. RecordSound(q)
      BY <1>2 DEF RecordsSound
    <3>2. CASE log'[q] = NoRecord
      BY <1>2, <3>2 DEF RecordMoves, NoRecord, Final
    <3>3. CASE q # r /\ log'[q] = log[q]
      BY <3>1, <3>3 DEF RecordMoves, RecordSound
    <3>4. CASE q = r /\ log'[q] = lease
      BY <1>1, <1>4, <2>2, <3>4 DEF RecordMoves, Leased, Final
    <3> QED BY <2>1, <2>3, <3>2, <3>3, <3>4
  <2>6. ASSUME NEW q \in RunIds PROVE WorkerMoves(q)
    <3>1. q # r => (log[q].state = "leased" => log'[q] = log[q])
      BY <2>1, <2>3
    <3>2. q = r => worker'[q].pc # "executing"
      BY <1>1, <1>2
    <3> QED BY <1>5, <3>1, <3>2 DEF WorkerMoves, Leased
  <2>7. Moves
    BY <1>1, <1>6, <2>5, <2>6 DEF Moves
  <2>8. NoneEvicted
    <3> SUFFICES ASSUME NEW l \in Loops, NEW q \in RunIds, Undelivered(q, l), log'[q].task # l
                 PROVE  q <= aged \/ ByHand(l)
      BY DEF NoneEvicted, Evicts
    <3>1. q # r
      BY <1>8 DEF Undelivered
    <3>2. records[q].task = l
      BY <2>1, <3>1 DEF Undelivered
    <3> QED BY <1>8, <2>1, <2>4, <3>2, KeptResults
  <2> QED BY <2>7, <2>8, MovesKeep DEF StepKeeps
<1> QED BY <1>7, <1>8 DEF Accept, lease

LEMMA UnavailableKeepsResults ==
  ASSUME KeptInv, NEW r \in RunIds, Unavailable(r)
  PROVE  StepKeeps
<1>1. /\ worker' = [worker EXCEPT ![r].pc = "accepted"]
      /\ tasks' = tasks \/ tasks' = [tasks EXCEPT ![worker[r].task].enabled = FALSE]
      /\ UNCHANGED <<log, nextRun, tick>> /\ worker[r].pc = "executing"
  BY DEF Unavailable
<1>2. tasks \in [All -> Task] /\ worker \in [RunIds -> Worker]
  BY DEF KeptInv, IInv, TypeOK
<1>3. \A q \in RunIds :
        /\ worker'[q].task = worker[q].task /\ worker'[q].counted = worker[q].counted
        /\ worker'[q].pc = "none" => worker[q].pc = "none"
        /\ worker'[q].pc = "executing" => worker[q].pc = "executing"
  BY <1>1, <1>2 DEF Worker
<1>4. \A l \in Loops : tasks'[l].status = tasks[l].status
  BY <1>1, <1>2 DEF Task, All
<1>5. TickMoves
  BY <1>1, TickRests
<1> QED BY <1>1, <1>3, <1>4, <1>5, WorkerStepKeeps

LEMMA LeaveKeepsResults ==
  ASSUME KeptInv, NEW r \in RunIds, Leave(r)
  PROVE  StepKeeps
<1>1. /\ worker' = [worker EXCEPT ![r].pc = "done", ![r].cancelled = FALSE]
      /\ UNCHANGED <<tasks, log, nextRun, tick>> /\ worker[r].pc = "leaving"
  BY DEF Leave, fileVars
<1>2. worker \in [RunIds -> Worker]
  BY DEF KeptInv, IInv, TypeOK
<1>3. \A q \in RunIds :
        /\ worker'[q].task = worker[q].task /\ worker'[q].counted = worker[q].counted
        /\ worker'[q].pc = "none" => worker[q].pc = "none"
        /\ worker'[q].pc = "executing" => worker[q].pc = "executing"
  BY <1>1, <1>2 DEF Worker
<1>4. TickMoves
  BY <1>1, TickRests
<1> QED BY <1>1, <1>3, <1>4, WorkerStepKeeps

LEMMA FinishKeepsResults ==
  ASSUME KeptInv, NEW r \in RunIds, Finish(r)
  PROVE  StepKeeps
<1> DEFINE t == worker[r].task
<1>1. PICK saved \in BOOLEAN, state \in Final :
        /\ worker' = [worker EXCEPT ![r].pc = "leaving", ![r].saved = saved,
                                    ![r].cancelled = FALSE]
        /\ IF There(t) /\ log[r].state = "leased"
           THEN IF saved THEN Completed(r, state) ELSE UNCHANGED fileVars
           ELSE UNCHANGED fileVars
  BY DEF Finish
<1>2. Working(r) /\ UNCHANGED <<nextRun, tick>>
  BY DEF Finish
<1>3. /\ IInv /\ WorkerSound /\ RecordsSound /\ log \in [RunIds -> Record]
      /\ worker \in [RunIds -> Worker] /\ tasks \in [All -> Task] /\ Loops \subseteq All
      /\ None \notin All
  BY CronIds DEF KeptInv, IInv, TypeOK, All
<1>4. t \in All
  BY <1>2, <1>3 DEF Working, WorkerSound
<1>5. \A q \in RunIds :
        /\ worker'[q].task = worker[q].task /\ worker'[q].counted = worker[q].counted
        /\ worker'[q].pc = "none" => worker[q].pc = "none"
        /\ worker'[q].pc = "executing" => worker[q].pc = "executing"
  BY <1>1, <1>2, <1>3 DEF Worker, Working
<1>6. TickMoves
  BY <1>2, TickRests
<1>7. CASE UNCHANGED fileVars
  BY <1>2, <1>5, <1>6, <1>7, WorkerStepKeeps DEF fileVars
<1>8. CASE There(t) /\ log[r].state = "leased" /\ Completed(r, state)
  <2> DEFINE records == [log EXCEPT ![r].state = state]
  <2>1. /\ tasks' = IF worker[r].counted THEN [tasks EXCEPT ![t] = Charged(@)] ELSE tasks
        /\ log' = Kept(records)
    BY <1>8 DEF Completed
  <2>2. /\ records \in [RunIds -> Record] /\ records[r].state = state
        /\ records[r].task = log[r].task /\ records[r].delivered = log[r].delivered
        /\ \A q \in RunIds \ {r} : records[q] = log[q]
    BY <1>3 DEF Record
  <2> HIDE DEF records
  <2>3. \A q \in RunIds : log'[q] \in {records[q], NoRecord}
    BY <2>1, <2>2, KeptRecords
  <2>4. \A q \in RunIds \ {r} : log[q].state = "leased" => log'[q] = log[q]
    BY <2>1, <2>2, KeptRecords DEF Final
  <2>5. \A l \in Loops : tasks'[l].status = tasks[l].status
    BY <1>3, <1>4, <2>1, ChargedTask
  <2>6. worker'[r].pc = "leaving"
    BY <1>1, <1>3
  <2>7. ASSUME NEW q \in RunIds PROVE RecordMoves(q)
    <3>1. RecordSound(q)
      BY <1>3 DEF RecordsSound
    <3>2. CASE log'[q] = NoRecord
      BY <1>3, <3>2 DEF RecordMoves, NoRecord, Final
    <3>3. CASE q # r /\ log'[q] = log[q]
      BY <3>1, <3>3 DEF RecordMoves, RecordSound
    <3>4. CASE q = r /\ log'[q] = records[q]
      BY <2>2, <2>6, <3>4 DEF RecordMoves, Final
    <3> QED BY <2>2, <2>3, <3>2, <3>3, <3>4
  <2>8. ASSUME NEW q \in RunIds PROVE WorkerMoves(q)
    BY <1>5, <2>4, <2>6 DEF WorkerMoves, Leased
  <2>9. Moves
    BY <1>2, <1>6, <2>5, <2>7, <2>8 DEF Moves
  <2>10. NoneEvicted
    <3> SUFFICES ASSUME NEW l \in Loops, NEW q \in RunIds, Undelivered(q, l), log'[q].task # l
                 PROVE  q <= aged \/ ByHand(l)
      BY DEF NoneEvicted, Evicts
    <3>1. \A p \in RunIds : records[p].task = log[p].task
      BY <2>2
    <3> QED BY <2>1, <2>2, <3>1, KeptResults DEF Undelivered
  <2> QED BY <2>9, <2>10, MovesKeep DEF StepKeeps
<1> QED BY <1>1, <1>7, <1>8

-----------------------------------------------------------------------------
(* The scheduler. *)

(* A start pushes nothing out. *)
LEMMA StartKeeps ==
  ASSUME KeptInv, NEW t \in All, NEW counted \in BOOLEAN, Start(t, counted),
         counted /\ t \in Loops => tick.pc = "fire" /\ tick.task = t,
         tick'.pc = "fire" => tick' = tick /\ ~counted, tick'.results \subseteq tick.results
  PROVE  StepKeeps
<1>1. /\ ResultsKept' /\ RecordsSound'
      /\ \A r \in RunIds : log[r].state # "none" => log'[r] = log[r]
  BY StartKeepsResults
<1>2. NoneEvicted
  BY <1>1 DEF NoneEvicted, Evicts, Undelivered, Final
<1> QED BY <1>1, <1>2 DEF StepKeeps

LEMMA VisitKeepsResults ==
  ASSUME KeptInv, NEW t \in All, tick' = Visited(t),
         t \in Loops => tick.pc = "fire" /\ tick.task = t,
         Start(t, TRUE) \/ Refused(t, TRUE)
  PROVE  StepKeeps
<1>1. tick'.pc = "visit" /\ tick'.results = {}
  BY VisitedTick DEF KeptInv
<1>2. CASE Start(t, TRUE)
  BY <1>1, <1>2, StartKeeps
<1>3. CASE Refused(t, TRUE)
  <2>1. TickMoves
    BY <1>1, TickRests
  <2> QED BY <1>3, <2>1, QuietKeeps DEF Refused, fileVars, runVars
<1> QED BY <1>2, <1>3

(* A loop that fires has room for one more record: its log is not full, or it was    *)
(* deleted and has no records.                                                          *)
LEMMA CheckKeepsResults ==
  ASSUME KeptInv, Check
  PROVE  StepKeeps
<1> DEFINE l == tick.task
<1>1. /\ tick.pc = "check" /\ UNCHANGED <<log, worker, nextRun>>
      /\ tasks' = tasks \/ tasks' = [tasks EXCEPT ![l].enabled = FALSE]
      /\ \/ tick' = Visited(l)
         \/ tasks' = tasks /\ tick' = [tick EXCEPT !.pc = "fire"] /\ ~(There(l) /\ Full(l))
  BY DEF Check, runVars
<1>2. /\ IInv /\ tick \in Tick /\ l \in Loops /\ l \in All /\ tasks \in [All -> Task]
      /\ None \notin All /\ ResultsKept /\ RecordsSound /\ LogSound
  BY <1>1, CronIds DEF KeptInv, IInv, TypeOK, TickSound, All
<1> HIDE DEF l
<1>3. CASE tick' = Visited(l)
  <2>1. tick'.pc # "fire" /\ tick'.results = {}
    BY <1>2, <1>3, VisitedTick
  <2>2. TickMoves
    BY <2>1, TickRests
  <2>3. \A k \in Loops : tasks'[k].status = tasks[k].status
    BY <1>1, <1>2 DEF Task, All
  <2> QED BY <1>1, <2>2, <2>3, QuietKeeps
<1>4. CASE tasks' = tasks /\ tick' = [tick EXCEPT !.pc = "fire"] /\ ~(There(l) /\ Full(l))
  <2>1. tick'.task = l /\ tick'.results = tick.results
    BY <1>2, <1>4 DEF Tick, l
  <2>2. ASSUME ~ByHand(l) PROVE Room(l, 2)
    <3>1. CASE There(l)
      <4>1. Room(l, 1)
        BY <1>2, <2>2 DEF ResultsKept
      <4> QED BY <1>4, <3>1, <4>1, NotFullIsRoom
    <3>2. CASE ~There(l)
      <4>1. \A r \in RunIds : log[r].task # l
        <5> SUFFICES ASSUME NEW r \in RunIds PROVE log[r].task # l
          OBVIOUS
        <5>1. CASE log[r].state = "none"
          BY <1>2, <5>1 DEF RecordsSound, RecordSound
        <5>2. CASE log[r].state # "none"
          BY <1>2, <3>2, <5>2 DEF LogSound
        <5> QED BY <5>1, <5>2
      <4> QED BY <4>1 DEF Room
    <3> QED BY <3>1, <3>2
  <2>3. \A k \in Loops : (ByHand(k) => ByHand(k)') /\ (Room(k, 1) => Room(k, 1)')
    BY <1>1 DEF ByHand, Room, Newer
  <2>4. ByHand(tick.task)' \/ Room(tick.task, 2)'
    <3>1. ByHand(l) => ByHand(tick.task)'
      BY <1>1, <2>1 DEF ByHand
    <3>2. Room(l, 2) => Room(tick.task, 2)'
      BY <1>1, <2>1 DEF Room, Newer
    <3> QED BY <2>2, <3>1, <3>2
  <2>5. ResultsKept'
    BY <1>2, <2>3, <2>4 DEF ResultsKept
  <2>6. RecordsSound'
    <3>1. \A r \in RunIds : (WorkerHasLease(r) => WorkerHasLease(r)') /\ (RecordSound(r) => RecordSound(r)')
      BY <1>1, <1>4 DEF WorkerHasLease, RecordSound, Leased
    <3> QED BY <1>1, <1>2, <2>1, <3>1 DEF RecordsSound
  <2>7. NoneEvicted
    BY <1>1 DEF NoneEvicted, Evicts, Undelivered
  <2> QED BY <2>5, <2>6, <2>7 DEF StepKeeps
<1> QED BY <1>1, <1>3, <1>4

LEMMA AcknowledgeKeepsResults ==
  ASSUME KeptInv, Acknowledge
  PROVE  StepKeeps
<1>1. PICK r \in Oldest(tick.results) :
        \/ /\ log' = [log EXCEPT ![r].delivered = @ \/ log[r].state # "none"]
           /\ tick' = [tick EXCEPT !.pc = IF tick.results = {r} THEN "check" ELSE "post",
                                   !.results = @ \ {r}]
        \/ UNCHANGED log /\ GiveUp
  BY DEF Acknowledge
<1>2. UNCHANGED <<tasks, worker, nextRun>>
  BY DEF Acknowledge, runVars
<1>3. /\ tick \in Tick /\ r \in tick.results /\ r \in RunIds /\ log \in [RunIds -> Record]
      /\ RecordsSound
  BY DEF KeptInv, IInv, TypeOK, Oldest, Tick
<1>4. CASE UNCHANGED log /\ GiveUp
  <2>1. TickMoves
    BY <1>3, <1>4, TickRests DEF GiveUp, Tick
  <2> QED BY <1>2, <1>4, <2>1, QuietKeeps
<1>5. CASE /\ log' = [log EXCEPT ![r].delivered = @ \/ log[r].state # "none"]
           /\ tick' = [tick EXCEPT !.pc = IF tick.results = {r} THEN "check" ELSE "post",
                                   !.results = @ \ {r}]
  <2>1. tick'.pc # "fire" /\ tick'.results = tick.results \ {r}
    BY <1>3, <1>5 DEF Tick
  <2>2. TickMoves
    BY <2>1, TickRests
  <2>3. \A q \in RunIds :
          /\ log'[q].state = log[q].state /\ log'[q].task = log[q].task
          /\ log[q].delivered => log'[q].delivered
          /\ q # r => log'[q] = log[q]
    BY <1>3, <1>5 DEF Record
  <2>4. log[r].state # "leased"
    BY <1>3 DEF RecordsSound
  <2>5. ASSUME NEW q \in RunIds PROVE RecordMoves(q) /\ WorkerMoves(q)
    <3>1. RecordSound(q)
      BY <1>3 DEF RecordsSound
    <3>2. RecordMoves(q)
      BY <2>3, <2>4, <3>1 DEF RecordMoves, RecordSound
    <3>3. WorkerMoves(q)
      BY <1>2, <2>3 DEF WorkerMoves, Leased
    <3> QED BY <3>2, <3>3
  <2>6. Moves
    BY <1>2, <2>2, <2>5 DEF Moves
  <2>7. NoneEvicted
    BY <2>3 DEF NoneEvicted, Evicts, Undelivered
  <2> QED BY <2>6, <2>7, MovesKeep DEF StepKeeps
<1> QED BY <1>1, <1>4, <1>5

LEMMA TickKeepsResults ==
  ASSUME KeptInv, TickStep
  PROVE  StepKeeps
<1>1. /\ IInv /\ tick \in Tick /\ Loops \subseteq All /\ Tasks \subseteq All
      /\ Tasks \cap Loops = {}
  BY CronIds DEF KeptInv, IInv, TypeOK, All
<1>2. CASE TickBegin \/ TickEnd
  <2>1. tick'.pc # "fire" /\ tick'.results = {}
    <3>1. CASE TickBegin
      BY <3>1, Kinds DEF TickBegin, NoTick, Tick
    <3>2. CASE TickEnd
      BY <3>2 DEF TickEnd, NoTick
    <3> QED BY <1>2, <3>1, <3>2
  <2>2. TickMoves
    BY <2>1, TickRests
  <2> QED BY <1>2, <2>2, QuietKeeps DEF TickBegin, TickEnd, fileVars, runVars
<1>3. ASSUME NEW t \in Tasks, VisitTask(t) PROVE StepKeeps
  <2>1. t \in All /\ t \notin Loops /\ tick' = Visited(t)
    BY <1>1, <1>3 DEF VisitTask
  <2>2. CASE Start(t, TRUE) \/ Refused(t, TRUE)
    BY <2>1, <2>2, VisitKeepsResults
  <2>3. CASE UNCHANGED <<fileVars, runVars, faults>>
    <3>1. tick'.pc # "fire" /\ tick'.results = {}
      BY <1>1, <2>1, VisitedTick
    <3>2. TickMoves
      BY <3>1, TickRests
    <3> QED BY <2>3, <3>2, QuietKeeps DEF fileVars, runVars
  <2> QED BY <1>3, <2>2, <2>3 DEF VisitTask
<1>4. ASSUME NEW l \in Loops, VisitLoop(l) PROVE StepKeeps
  <2>1. /\ log' = log /\ worker' = worker /\ nextRun' = nextRun /\ tasks' = tasks
        /\ tick' = [tick EXCEPT !.pc = IF {r \in Newest(l) : Undelivered(r, l)} = {} THEN "check" ELSE "post",
                                !.task = l, !.results = {r \in Newest(l) : Undelivered(r, l)}]
    BY <1>4 DEF VisitLoop, fileVars, runVars
  <2>2. tick'.pc # "fire" /\ tick'.results = {r \in Newest(l) : Undelivered(r, l)}
    BY <1>1, <2>1 DEF Tick
  <2>3. \A r \in tick'.results : r \in RunIds /\ log[r].state \in Final
    BY <2>2 DEF Newest, Undelivered
  <2>4. TickMoves
    BY <2>1, <2>2, <2>3 DEF TickMoves
  <2> QED BY <2>1, <2>4, QuietKeeps
<1>5. CASE Post
  <2>1. /\ tick' = [tick EXCEPT !.pc = "ack"] \/ GiveUp
        /\ UNCHANGED <<tasks, log, worker, nextRun>>
    BY <1>5 DEF Post, fileVars, runVars
  <2>2. tick'.pc # "fire" /\ tick'.results \subseteq tick.results
    BY <1>1, <2>1 DEF GiveUp, Tick
  <2>3. TickMoves
    BY <2>2, TickRests
  <2> QED BY <2>1, <2>3, QuietKeeps
<1>6. CASE Fire
  <2>1. tick.pc = "fire" /\ tick.task \in Loops /\ tick' = Visited(tick.task)
    BY <1>1, <1>6 DEF Fire, IInv, TickSound
  <2>2. PICK l \in Loops : l = tick.task
    BY <2>1
  <2>3. Start(l, TRUE) \/ Refused(l, TRUE)
    BY <1>6, <2>2 DEF Fire
  <2> QED BY <1>1, <2>1, <2>2, <2>3, VisitKeepsResults
<1> QED BY <1>2, <1>3, <1>4, <1>5, <1>6, CheckKeepsResults, AcknowledgeKeepsResults DEF TickStep

-----------------------------------------------------------------------------
(* Clients, the parent, time and the process. *)

(* Records are dropped with their task, or by clearing: only whole results of one       *)
(* task that is gone after the step, or none of whose results is left.                    *)
LEMMA DropsKeep ==
  ASSUME KeptInv, UNCHANGED <<worker, nextRun, tick>>, NEW T \in SUBSET All,
         \A q \in RunIds : log'[q] = log[q] \/ (log'[q] = NoRecord /\ log[q].task \in T),
         \A l \in Loops : tasks[l].status = "deleted" => tasks'[l].status = "deleted",
         \A l \in Loops \cap T :
           \/ tasks'[l].status = "deleted"
           \/ /\ \A q \in RunIds : log'[q].task = l => log'[q].state \notin Final
              /\ \A q \in RunIds : Leased(q, l) => Leased(q, l)'
  PROVE  StepKeeps
<1>1. /\ RecordsSound /\ None \notin All /\ Loops \subseteq All
      /\ NoRecord.task = None /\ NoRecord.state = "none"
  BY CronIds DEF KeptInv, All, NoRecord
<1>2. ASSUME NEW q \in RunIds PROVE RecordMoves(q)
  <2>1. RecordSound(q)
    BY <1>1 DEF RecordsSound
  <2> QED BY <1>1, <2>1 DEF RecordMoves, RecordSound, Final
<1>3. ASSUME NEW q \in RunIds PROVE WorkerMoves(q)
  <2>1. \A l \in Loops : Leased(q, l) => Leased(q, l)' \/ tasks'[l].status = "deleted"
    BY DEF Leased
  <2> QED BY <2>1 DEF WorkerMoves
<1>4. TickMoves
  BY TickRests
<1>5. Moves
  BY <1>2, <1>3, <1>4 DEF Moves
<1>6. NoneEvicted
  <2> SUFFICES ASSUME NEW l \in Loops, NEW r \in RunIds, Evicts(l, r)
               PROVE  Cleared(l)
    BY DEF NoneEvicted
  <2>1. l \in T /\ tasks'[l].status # "deleted"
    BY DEF Evicts, Undelivered
  <2> QED BY <2>1 DEF Cleared
<1> QED BY <1>5, <1>6, MovesKeep DEF StepKeeps

(* An edit of a task that was not deleted, or is none of a loop. *)
LEMMA EditKeepsResults ==
  ASSUME KeptInv, NEW t \in All, NEW task, Edit(t, task), UNCHANGED log,
         t \in Loops => tasks[t].status # "deleted"
  PROVE  StepKeeps
<1>1. /\ UNCHANGED <<worker, nextRun, tick>> /\ tasks' = [tasks EXCEPT ![t] = task]
      /\ tasks \in [All -> Task]
  BY DEF Edit, KeptInv, IInv, TypeOK
<1>2. \A l \in Loops : tasks[l].status = "deleted" => tasks'[l].status = "deleted"
  BY <1>1 DEF All
<1>3. TickMoves
  BY <1>1, TickRests
<1> QED BY <1>1, <1>2, <1>3, QuietKeeps

LEMMA DeleteKeepsResults ==
  ASSUME KeptInv, NEW t \in All, NEW cancel \in BOOLEAN, Delete(t, cancel)
  PROVE  StepKeeps
<1>1. /\ UNCHANGED <<worker, nextRun, tick>> /\ tasks \in [All -> Task]
      /\ tasks' = [tasks EXCEPT ![t] = [NoTask EXCEPT !.status = "deleted"]]
      /\ log' = Without(t)
  BY DEF Delete, Edit, KeptInv, IInv, TypeOK
<1>2. tasks'[t].status = "deleted" /\ \A l \in All \ {t} : tasks'[l] = tasks[l]
  BY <1>1 DEF NoTask
<1>3. \A q \in RunIds : log'[q] = log[q] \/ (log'[q] = NoRecord /\ log[q].task \in {t})
  <2>1. log \in [RunIds -> Record]
    BY DEF KeptInv, IInv, TypeOK
  <2> QED BY <1>1, <2>1 DEF Without
<1>4. \A l \in Loops : tasks[l].status = "deleted" => tasks'[l].status = "deleted"
  BY <1>2 DEF All
<1>5. \A l \in Loops \cap {t} : tasks'[l].status = "deleted"
  BY <1>2
<1>6. {t} \in SUBSET All
  OBVIOUS
<1> QED BY <1>1, <1>3, <1>4, <1>5, <1>6, DropsKeep

LEMMA ClientKeepsResults ==
  ASSUME KeptInv, ClientStep
  PROVE  StepKeeps
<1>1. /\ IInv /\ tick \in Tick /\ Loops \subseteq All /\ Tasks \subseteq All
      /\ Tasks \cap Loops = {} /\ log \in [RunIds -> Record]
  BY CronIds DEF KeptInv, IInv, TypeOK, All
<1>2. ASSUME NEW t \in Tasks, NEW enabled \in BOOLEAN, NEW limit \in Limits \cup {Unlimited},
             Create(t, enabled, limit)
      PROVE  StepKeeps
  <2>1. t \in All /\ t \notin Loops /\ UNCHANGED log
    BY <1>1, <1>2 DEF Create
  <2>2. PICK task : Edit(t, task)
    BY <1>2 DEF Create
  <2> QED BY <2>1, <2>2, EditKeepsResults
<1>3. ASSUME NEW l \in Loops, CreateLoop(l) PROVE StepKeeps
  <2>1. l \in All /\ tasks[l].status # "deleted" /\ UNCHANGED log
    BY <1>1, <1>3 DEF CreateLoop
  <2>2. PICK task : Edit(l, task)
    BY <1>3 DEF CreateLoop
  <2> QED BY <2>1, <2>2, EditKeepsResults
<1>4. ASSUME NEW t \in All, NEW limit \in Limits \cup {Unlimited}, SetLimit(t, limit)
      PROVE  StepKeeps
  <2>1. tasks[t].status # "deleted" /\ UNCHANGED log
    BY <1>4 DEF SetLimit, There
  <2>2. PICK task : Edit(t, task)
    BY <1>4 DEF SetLimit
  <2> QED BY <2>1, <2>2, EditKeepsResults
<1>5. ASSUME NEW t \in All, NEW enabled \in BOOLEAN, SetEnabled(t, enabled)
      PROVE  StepKeeps
  <2>1. tasks[t].status # "deleted" /\ UNCHANGED log
    BY <1>5 DEF SetEnabled, There
  <2>2. PICK task : Edit(t, task)
    BY <1>5 DEF SetEnabled
  <2> QED BY <2>1, <2>2, EditKeepsResults
<1>6. ASSUME NEW t \in All, worker' = CancelWorker(t) \/ worker' = worker,
             UNCHANGED <<tasks, log, nextRun, tick>>
      PROVE  StepKeeps
  <2>1. \A q \in RunIds :
          /\ worker'[q].pc = worker[q].pc /\ worker'[q].task = worker[q].task
          /\ worker'[q].counted = worker[q].counted
    BY <1>1, <1>6, CancelledWorker
  <2>2. TickMoves
    BY <1>6, TickRests
  <2>3. \A r \in tick'.results : r \in tick.results
    BY <1>6
  <2> QED BY <1>6, <2>1, <2>2, <2>3, WorkerStepKeeps
<1>7. ASSUME NEW l \in Loops, CancelRemoved(l) PROVE StepKeeps
  BY <1>1, <1>6, <1>7 DEF CancelRemoved, fileVars
<1>8. ASSUME NEW t \in All, Cancel(t) PROVE StepKeeps
  BY <1>6, <1>8 DEF Cancel, fileVars
<1>9. ASSUME NEW t \in All, RunNow(t) PROVE StepKeeps
  BY <1>9, StartKeeps DEF RunNow
<1>10. ASSUME NEW t \in All, ClearRuns(t) PROVE StepKeeps
  <2>1. /\ UNCHANGED <<tasks, worker, nextRun, tick>>
        /\ log' = [r \in RunIds |->
             IF log[r].task = t /\ log[r].state \in Final THEN NoRecord ELSE log[r]]
    BY <1>10 DEF ClearRuns, runVars
  <2>2. \A q \in RunIds :
          /\ log'[q] = log[q] \/ (log'[q] = NoRecord /\ log[q].task \in {t})
          /\ log'[q].task = t => log'[q].state \notin Final
          /\ Leased(q, t) => log'[q] = log[q]
    BY <1>1, <2>1, Kinds DEF Leased, Final
  <2>3. \A l \in Loops \cap {t} :
          /\ \A q \in RunIds : log'[q].task = l => log'[q].state \notin Final
          /\ \A q \in RunIds : Leased(q, l) => Leased(q, l)'
    BY <2>2 DEF Leased
  <2>4. {t} \in SUBSET All
    OBVIOUS
  <2> QED BY <2>1, <2>2, <2>3, <2>4, DropsKeep
<1> QED BY <1>1, <1>2, <1>3, <1>4, <1>5, <1>7, <1>8, <1>9, <1>10, DeleteKeepsResults DEF ClientStep

LEMMA ForgetKeepsResults ==
  ASSUME KeptInv, ForgetSession
  PROVE  StepKeeps
<1>1. /\ UNCHANGED <<worker, nextRun, tick>>
      /\ \/ /\ tasks' = [t \in All |-> IF t \in Loops /\ There(t)
                                       THEN [NoTask EXCEPT !.status = "deleted"] ELSE tasks[t]]
            /\ log' = [r \in RunIds |-> IF log[r].task \in Loops THEN NoRecord ELSE log[r]]
         \/ UNCHANGED fileVars
  BY DEF ForgetSession, runVars
<1>2. /\ LogSound /\ tasks \in [All -> Task] /\ log \in [RunIds -> Record] /\ Loops \subseteq All
  BY DEF KeptInv, IInv, TypeOK, All
<1>3. TickMoves
  BY <1>1, TickRests
<1>4. CASE UNCHANGED fileVars
  BY <1>1, <1>3, <1>4, QuietKeeps DEF fileVars
<1>5. CASE /\ tasks' = [t \in All |-> IF t \in Loops /\ There(t)
                                      THEN [NoTask EXCEPT !.status = "deleted"] ELSE tasks[t]]
           /\ log' = [r \in RunIds |-> IF log[r].task \in Loops THEN NoRecord ELSE log[r]]
  <2> DEFINE T == {l \in Loops : There(l)}
  <2>1. \A l \in Loops : (l \in T \/ tasks[l].status = "deleted") => tasks'[l].status = "deleted"
    BY <1>2, <1>5 DEF NoTask, There
  <2>2. \A q \in RunIds : log'[q] = log[q] \/ (log'[q] = NoRecord /\ log[q].task \in Loops)
    BY <1>2, <1>5
  <2>3. ASSUME NEW q \in RunIds
        PROVE  log'[q] = log[q] \/ (log'[q] = NoRecord /\ log[q].task \in T)
    <3>1. CASE log[q].state # "none"
      BY <1>2, <2>2, <3>1 DEF LogSound
    <3>2. CASE log[q].state = "none"
      <4>1. RecordSound(q) /\ None \notin Loops
        BY CronIds DEF KeptInv, RecordsSound, All
      <4> QED BY <2>2, <3>2, <4>1 DEF RecordSound
    <3> QED BY <3>1, <3>2
  <2>4. T \in SUBSET All
    BY <1>2
  <2> HIDE DEF T
  <2> QED BY <1>1, <2>1, <2>3, <2>4, DropsKeep
<1> QED BY <1>1, <1>4, <1>5

LEMMA ParentKeepsResults ==
  ASSUME KeptInv, ParentStep
  PROVE  StepKeeps
<1>1. CASE DeleteParent \/ ParentRuns \/ \E r \in RunIds : Rewrite(r)
  <2>1. UNCHANGED <<tasks, log, worker, nextRun, tick>>
    BY <1>1 DEF DeleteParent, ParentRuns, Rewrite, fileVars, runVars
  <2>2. TickMoves
    BY <2>1, TickRests
  <2> QED BY <2>1, <2>2, QuietKeeps
<1> QED BY <1>1, ForgetKeepsResults DEF ParentStep

LEMMA TimeKeepsResults ==
  ASSUME KeptInv, RecordsAge \/ (\E l \in Loops : TimePasses(l)) \/ UNCHANGED vars
  PROVE  StepKeeps
<1>1. /\ UNCHANGED <<log, worker, nextRun, tick>>
      /\ tasks' = tasks \/ \E l \in Loops : \/ tasks' = [tasks EXCEPT ![l].due = TRUE]
                                            \/ tasks' = [tasks EXCEPT ![l].over = TRUE]
  BY DEF RecordsAge, TimePasses, vars, fileVars, runVars
<1>2. \A l \in Loops : tasks'[l].status = tasks[l].status
  <2>1. tasks \in [All -> Task] /\ Loops \subseteq All
    BY DEF KeptInv, IInv, TypeOK, All
  <2> QED BY <1>1, <2>1 DEF Task
<1>3. TickMoves
  BY <1>1, TickRests
<1> QED BY <1>1, <1>2, <1>3, QuietKeeps

LEMMA CloseKeepsResults ==
  ASSUME KeptInv, Close
  PROVE  StepKeeps
<1>1. worker \in [RunIds -> Worker]
  BY DEF KeptInv, IInv, TypeOK
<1>2. \A r \in RunIds :
        /\ worker'[r].pc = worker[r].pc /\ worker'[r].task = worker[r].task
        /\ worker'[r].counted = worker[r].counted
  <2> DEFINE asked(r) == worker[r].cancelled \/ (Working(r) /\ \E t \in All : active[t] = r)
  <2>1. worker' = [r \in RunIds |-> [worker[r] EXCEPT !.cancelled = asked(r)]]
    BY DEF Close
  <2> HIDE DEF asked
  <2> QED BY <1>1, <2>1 DEF Worker
<1>3. UNCHANGED <<tasks, log, nextRun, tick>>
  BY DEF Close, fileVars
<1>4. TickMoves
  BY <1>3, TickRests
<1>5. \A r \in tick'.results : r \in tick.results
  BY <1>3
<1> QED BY <1>2, <1>3, <1>4, <1>5, WorkerStepKeeps

LEMMA RestartKeepsResults ==
  ASSUME KeptInv, Restart
  PROVE  StepKeeps
<1> DEFINE cut(w) == IF w.pc # "none"
                     THEN [w EXCEPT !.pc = "done", !.cancelled = FALSE, !.saved = TRUE] ELSE w
<1>1. /\ tasks' = [t \in All |-> IF There(t) /\ Charging(t) THEN Charged(tasks[t]) ELSE tasks[t]]
      /\ log' = [r \in RunIds |-> IF log[r].state = "leased"
                                  THEN [log[r] EXCEPT !.state = "expired"] ELSE log[r]]
      /\ worker' = [r \in RunIds |-> cut(worker[r])]
      /\ tick' = NoTick /\ nextRun' = nextRun
  BY DEF Restart, Charging
<1>2. /\ tasks \in [All -> Task] /\ log \in [RunIds -> Record] /\ worker \in [RunIds -> Worker]
      /\ RecordsSound /\ WorkerSound /\ Loops \subseteq All
  BY DEF KeptInv, IInv, TypeOK, All
<1>3. \A t \in Loops : tasks'[t].status = tasks[t].status
  BY <1>1, <1>2, ChargedTask
<1>4. \A r \in RunIds :
        /\ log'[r].task = log[r].task /\ log'[r].delivered = log[r].delivered
        /\ log'[r].state # "leased" /\ (log'[r].state = "none" => log[r].state = "none")
        /\ log'[r].state \in Final => log[r].state \in Final \/ log[r].state = "leased"
  BY <1>1, <1>2 DEF Record, Final
<1>5. \A r \in RunIds :
        /\ worker'[r].task = worker[r].task /\ worker'[r].counted = worker[r].counted
        /\ worker'[r].pc # "executing" /\ (worker'[r].pc = "none" => worker[r].pc = "none")
  <2>1. \A w \in Worker :
          /\ cut(w).task = w.task /\ cut(w).counted = w.counted
          /\ w.pc # "none" => cut(w).pc = "done"
          /\ w.pc = "none" => cut(w).pc = "none"
    BY DEF Worker
  <2> HIDE DEF cut
  <2> QED BY <1>1, <1>2, <2>1
<1> HIDE DEF cut
<1>6. TickMoves
  <2>1. tick'.pc # "fire" /\ tick'.results = {}
    BY <1>1 DEF NoTick
  <2> QED BY <2>1, TickRests
<1>7. ASSUME NEW q \in RunIds PROVE RecordMoves(q) /\ WorkerMoves(q)
  <2>1. RecordSound(q)
    BY <1>2 DEF RecordsSound
  <2> QED BY <1>4, <1>5, <2>1 DEF RecordMoves, WorkerMoves, RecordSound
<1>8. Moves
  BY <1>1, <1>3, <1>6, <1>7 DEF Moves
<1>9. NoneEvicted
  BY <1>4 DEF NoneEvicted, Evicts, Undelivered
<1> QED BY <1>8, <1>9, MovesKeep DEF StepKeeps

LEMMA InitKept == Init => KeptInv
<1> SUFFICES ASSUME Init PROVE KeptInv
  OBVIOUS
<1>1. /\ log = [r \in RunIds |-> NoRecord] /\ worker = [r \in RunIds |-> NoWorker]
      /\ tick = NoTick
  BY DEF Init
<1>2. \A r \in RunIds : log[r].task = None /\ log[r].state = "none" /\ worker[r].pc = "none"
                        /\ worker[r].task = None
  BY <1>1 DEF NoRecord, NoWorker
<1>3. \A l \in Loops : Room(l, 1)
  BY <1>2, CronIds DEF Room, All
<1>4. ResultsKept /\ RecordsSound
  BY <1>1, <1>2, <1>3
     DEF ResultsKept, RecordsSound, RecordSound, WorkerHasLease, NoTick, Final
<1> QED BY <1>4, InitInv DEF KeptInv

LEMMA NextKeeps ==
  ASSUME KeptInv, [Next]_vars
  PROVE  KeptInv' /\ NoneEvicted
<1>1. IInv'
  BY NextInv DEF KeptInv
<1>2. ASSUME NEW r \in RunIds, WorkerStep(r) PROVE StepKeeps
  BY <1>2, AcceptKeepsResults, UnavailableKeepsResults, FinishKeepsResults, LeaveKeepsResults
     DEF WorkerStep
<1>3. StepKeeps
  BY <1>2, TickKeepsResults, ClientKeepsResults, ParentKeepsResults, TimeKeepsResults,
     CloseKeepsResults, RestartKeepsResults DEF Next
<1> QED BY <1>1, <1>3 DEF StepKeeps, KeptInv

(* Nothing is lost between an execution and its conversation: a result is posted at  *)
(* most once, an acknowledged one never again, and the log drops one that was not       *)
(* acknowledged only with its loop, when cleared, by age, or after a start by hand.      *)
THEOREM ResultsAreSound == Spec => ResultsSound
<1>1. Init => KeptInv
  BY InitKept
<1>2. KeptInv /\ [Next]_vars => KeptInv'
  BY NextKeeps
<1>3. KeptInv /\ [Next]_vars =>
        [\A l \in Loops, r \in RunIds :
           Undelivered(r, l) /\ tasks'[l].status = "there" /\ log'[r].task # l
           => Cleared(l) \/ r <= aged \/ \E q \in RunIds : worker[q].task = l /\ ~worker[q].counted]_vars
  BY NextKeeps DEF NoneEvicted, Evicts, ByHand
<1> QED BY <1>1, <1>2, <1>3, ResultsPostedOnce, PTL DEF Spec, ResultsSound, NothingEvicted
=============================================================================
