---------------------------- MODULE MCCronTasks ----------------------------
(* The model-checking instance of CronTasks.  Tasks and loops share only the *)
(* scheduler, which takes them one at a time, so a behaviour uses either       *)
(* tasks with limits, or loops without one through a crash or a failing write.  *)
EXTENDS CronTasks

Used(t) == tasks[t].status # "never"
TasksOrLoops ==
  \/ parent = "free" /\ aged = 0 /\ \A l \in Loops : ~Used(l)
  \/ /\ \A t \in Tasks : ~Used(t)
     /\ edits < MaxEdits /\ ~closed /\ boots + faults + aged <= 1
     /\ \A l \in Loops : tasks[l].remaining = Unlimited

MCSpec ==
  /\ Init /\ [][Next /\ TasksOrLoops']_vars
  /\ WF_vars(TickStep)
  /\ \A r \in RunIds : WF_vars(Finish(r)) /\ WF_vars(Leave(r))
=============================================================================
