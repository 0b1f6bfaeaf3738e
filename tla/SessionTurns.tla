---------------------------- MODULE SessionTurns ----------------------------
(***************************************************************************)
(* What starts turns in one session without the user: the notices of       *)
(* background work (wake.go) and the rounds of a session goal (goal.go).   *)
(* Both compete for the session with the user's messages, queued prompts,  *)
(* scheduled runs and compactions.                                         *)
(*                                                                         *)
(* Every action is one critical section of rt.mu, or the part of a run's   *)
(* goroutine between two of them.                                          *)
(***************************************************************************)
EXTENDS Integers, FiniteSets

CONSTANTS
  Notices,        (* what background work may report                        *)
  Texts,          (* goal texts                                             *)
  Runs,           (* names for the run goroutines alive at one time         *)
  Nonces,         (* names of goal settings and resumptions                 *)
  None,
  MaxWakeBacklog, (* maxWakeBacklog                                         *)
  MaxWakeStreak,  (* maxWakeStreak                                          *)
  MaxRounds,      (* goalMaxRounds                                          *)
  BusyRetries,    (* goalBusyRetries                                        *)
  MaxRevision,    (* bound: updates of one goal                             *)
  MaxQueued,      (* bound: entries of the prompt queue                     *)
  MaxKicks        (* bound: goroutines that look for notices at one time    *)

ASSUME NoneAssumption == None \notin Notices \cup Texts \cup Runs \cup Nonces
ASSUME FiniteAssumption == IsFiniteSet(Notices)
ASSUME LimitAssumption ==
  /\ MaxWakeBacklog \in Nat \ {0} /\ MaxWakeStreak \in Nat \ {0}
  /\ MaxRounds \in Nat /\ BusyRetries \in Nat
ASSUME BoundAssumption ==
  MaxRevision \in Nat /\ MaxQueued \in Nat /\ MaxKicks \in Nat \ {0}

VARIABLES
  (* The session. *)
  active,     (* the run with rt.cancel # nil and ~rt.runDone, or None      *)
  run,        (* the goroutines of runs                                     *)
  queued,     (* queue items and open edits                                 *)
  settling,   (* the worker has still to remove the entry it dispatched     *)
  gone,       (* rt.deleted                                                 *)
  (* Wakes. *)
  pending,    (* Agent.pending: notices for the turn that is running        *)
  wake,       (* rt.wake                                                    *)
  flight,     (* the notices startWakeRun carries                           *)
  kicks,      (* goroutines about to run kickWakes                          *)
  settled,    (* history: the notices that are not under way                *)
  inRow,      (* history: wake runs accepted since any other run            *)
  overlooked, (* history: the session became free for a wake run without    *)
              (* anybody who looks for notices, and nobody looked since     *)
  (* The goal. *)
  goal,       (* rt.goal                                                    *)
  resuming    (* the text a resume request read before its acceptance       *)

sessionVars == <<active, run, queued, settling, gone>>
wakeVars    == <<pending, wake, flight, kicks, settled, inRow, overlooked>>
goalVars    == <<goal, resuming>>
vars == <<sessionVars, wakeVars, goalVars>>

-----------------------------------------------------------------------------
(* Records. *)

Phase == {"none", "accepted", "turn", "ended", "evaluated", "tail", "check",
          "start", "giveup", "dispatch"}
Kind == {"none", "message", "queued", "cron", "compact", "wake", "goal"}

(* A run goroutine.  asked is the goal text its prompt put to the model;     *)
(* nonce, round, revision, text and attempt are the locals of continueGoal.  *)
Run ==
  [phase: Phase, kind: Kind, cancelled: BOOLEAN, asked: Texts \cup {None},
   nonce: Nonces \cup {None}, round: Nat, revision: Nat,
   text: Texts \cup {None}, attempt: 0..BusyRetries]
NoRun ==
  [phase |-> "none", kind |-> "none", cancelled |-> FALSE, asked |-> None,
   nonce |-> None, round |-> 0, revision |-> 0, text |-> None, attempt |-> 0]
Executing == {"accepted", "turn", "ended", "evaluated"}
Continuing == {"check", "start", "giveup"}

(* goalRuntime.  roundRun is the run accepted for roundRequestID, forgotten  *)
(* when its goroutine ends; next is next.afterRunID.                         *)
Goal ==
  [text: Texts \cup {None}, status: {"none", "active", "paused", "met"},
   awaiting: BOOLEAN, round: Nat, nonce: Nonces \cup {None}, revision: Nat,
   runRevision: Nat, roundRun: Runs \cup {None}, next: Runs \cup {None}]
NoGoal ==
  [text |-> None, status |-> "none", awaiting |-> FALSE, round |-> 0,
   nonce |-> None, revision |-> 0, runRevision |-> 0, roundRun |-> None,
   next |-> None]
NewGoal(t, x, r) ==
  [NoGoal EXCEPT !.text = t, !.status = "active", !.nonce = x, !.roundRun = r]

(* wakeState. *)
Wake ==
  [texts: SUBSET Notices, dispatching: BOOLEAN, held: BOOLEAN,
   streak: Int, current: BOOLEAN]
NoWake ==
  [texts |-> {}, dispatching |-> FALSE, held |-> FALSE, streak |-> 0,
   current |-> FALSE]

Init ==
  /\ active = None /\ run = [r \in Runs |-> NoRun]
  /\ queued = 0 /\ settling = FALSE /\ gone = FALSE
  /\ pending = {} /\ wake = NoWake /\ flight = {} /\ kicks = 0
  /\ settled = Notices /\ inRow = 0 /\ overlooked = FALSE
  /\ goal = NoGoal /\ resuming = None

TurnRunning == \E r \in Runs : run[r].phase = "turn"
AtMostKicks(n) == IF n <= MaxKicks THEN n ELSE MaxKicks

-----------------------------------------------------------------------------
(* Acceptance: startCanonicalRunWith. *)

CanStart(kind) ==
  /\ ~gone /\ active = None
  /\ queued = 0 \/ kind = "queued"
Conflict == ~gone /\ (active # None \/ queued > 0)
Busy == ~gone /\ queued = 0 /\ active # None

Other(w) == [w EXCEPT !.streak = 0, !.held = FALSE, !.current = FALSE]

(* A goroutine is named when its run is accepted. *)
Begin(r, kind, asked) ==
  /\ run[r].phase = "none"
  /\ active' = r
  /\ run' = [run EXCEPT ![r] = [NoRun EXCEPT !.phase = "accepted", !.kind = kind,
                                             !.asked = asked]]

(* Acceptance of a run that is not a wake run. *)
AcceptOther(r, kind, asked) ==
  /\ CanStart(kind)
  /\ Begin(r, kind, asked)
  /\ wake' = Other(wake) /\ inRow' = 0
  /\ UNCHANGED <<pending, flight, kicks, settled, overlooked>>

-----------------------------------------------------------------------------
(* Looking for notices: dispatchWakesLocked, with idle as the step leaves    *)
(* the session.                                                              *)

Deliverable(idle) ==
  /\ ~wake.dispatching /\ ~wake.held /\ wake.texts # {} /\ idle /\ queued = 0

DispatchWakes(idle) ==
  /\ overlooked' = FALSE
  /\ \/ /\ gone
        /\ wake' = [wake EXCEPT !.texts = {}]
        /\ settled' = settled \cup wake.texts
        /\ UNCHANGED flight
     \/ /\ ~gone /\ ~Deliverable(idle)
        /\ UNCHANGED <<wake, settled, flight>>
     \/ /\ ~gone /\ Deliverable(idle) /\ wake.streak >= MaxWakeStreak
        /\ wake' = [wake EXCEPT !.held = TRUE]
        /\ UNCHANGED <<settled, flight>>
     \/ /\ ~gone /\ Deliverable(idle) /\ wake.streak < MaxWakeStreak
        /\ flight' = wake.texts
        /\ wake' = [wake EXCEPT !.texts = {}, !.dispatching = TRUE,
                                !.streak = @ + 1]
        /\ UNCHANGED settled

(* queueWake for every notice of S.  Beyond the backlog the older are lost.  *)
Kept(S) ==
  LET all == wake.texts \cup S IN
  IF S = {} \/ Cardinality(all) <= MaxWakeBacklog THEN {all}
  ELSE {k \in SUBSET all : /\ Cardinality(k) = MaxWakeBacklog
                           /\ S \subseteq k \/ k \subseteq S}

QueueWakes(S) ==
  /\ \E kept \in Kept(S) :
       /\ wake' = [wake EXCEPT !.texts = kept]
       /\ settled' = (settled \ S) \cup ((wake.texts \cup S) \ kept)
  /\ kicks' = IF S = {} THEN kicks ELSE AtMostKicks(kicks + 1)

-----------------------------------------------------------------------------
(* Background work. *)

(* A report, an ended wait or process: Agent.steer, or Waits().OnWake.       *)
Notify(n) ==
  /\ n \in settled
  /\ \/ /\ TurnRunning
        /\ pending' = pending \cup {n} /\ settled' = settled \ {n}
        /\ UNCHANGED <<wake, kicks>>
     \/ /\ ~TurnRunning
        /\ QueueWakes({n})
        /\ UNCHANGED pending
  /\ UNCHANGED <<sessionVars, flight, inRow, overlooked, goalVars>>

(* A child task is stored as over: OnRecord looks for notices.               *)
TaskSettles ==
  /\ kicks' = AtMostKicks(kicks + 1)
  /\ UNCHANGED <<sessionVars, pending, wake, flight, settled, inRow, overlooked,
                 goalVars>>

Kick ==
  /\ kicks > 0
  /\ kicks' = kicks - 1
  /\ DispatchWakes(active = None)
  /\ UNCHANGED <<sessionVars, pending, inRow, goalVars>>

(* startWakeRun: accepted,                                                   *)
Own(w) == [w EXCEPT !.dispatching = FALSE, !.current = TRUE]
WakeAccepted(r) ==
  /\ wake.dispatching
  /\ CanStart("wake")
  /\ Begin(r, "wake", None)
  /\ wake' = Own(wake) /\ inRow' = inRow + 1
  /\ settled' = settled \cup flight /\ flight' = {}
  /\ UNCHANGED <<queued, settling, gone, pending, kicks, overlooked, goalVars>>

(* ... in conflict with a run or queued work, which keeps the notices,       *)
PutBackNothing(w) == [w EXCEPT !.dispatching = FALSE, !.streak = @ - 1]
PutBack(w) ==
  [w EXCEPT !.dispatching = FALSE, !.streak = @ - 1, !.texts = flight \cup @]
WakeConflicts ==
  /\ wake.dispatching
  /\ Conflict
  /\ wake' = PutBack(wake)
  /\ flight' = {}
  /\ kicks' = AtMostKicks(kicks + 1)
  /\ UNCHANGED <<sessionVars, pending, settled, inRow, overlooked, goalVars>>

(* ... or refused for another reason, which drops them.                      *)
WakeRefused ==
  /\ wake.dispatching
  /\ ~Conflict
  /\ wake' = [wake EXCEPT !.dispatching = FALSE, !.streak = @ - 1]
  /\ settled' = settled \cup flight /\ flight' = {} /\ overlooked' = TRUE
  /\ UNCHANGED <<sessionVars, pending, kicks, inRow, goalVars>>

-----------------------------------------------------------------------------
(* Clients other than the goal's. *)

(* A user's run answers a goal that waits for input: goalUserRunAdmit.       *)
Awaiting == goal.text # None /\ goal.status = "paused" /\ goal.awaiting

Message(r) ==
  /\ IF Awaiting
       THEN /\ AcceptOther(r, "message", goal.text)
            /\ goal' = [goal EXCEPT !.status = "active", !.awaiting = FALSE,
                                    !.roundRun = r, !.runRevision = goal.revision]
       ELSE AcceptOther(r, "message", None) /\ UNCHANGED goal
  /\ UNCHANGED <<queued, settling, gone, resuming>>

ScheduledRun(r) ==
  /\ AcceptOther(r, "cron", None)
  /\ UNCHANGED <<queued, settling, gone, goalVars>>

(* The queue: an entry is added, removed or given up, or dispatched by the   *)
(* worker, which removes it in a later step.                                 *)
QueueAdd ==
  /\ ~gone /\ queued < MaxQueued
  /\ queued' = queued + 1
  /\ UNCHANGED <<active, run, settling, gone, wakeVars, goalVars>>

Emptied == overlooked' = (overlooked \/ queued = 1)

QueueRemove ==
  /\ ~gone /\ queued > 0 /\ ~settling
  /\ queued' = queued - 1 /\ Emptied
  /\ UNCHANGED <<active, run, settling, gone, pending, wake, flight, kicks,
                 settled, inRow, goalVars>>

QueueDispatch(r) ==
  /\ queued > 0 /\ ~settling
  /\ AcceptOther(r, "queued", None)
  /\ settling' = TRUE
  /\ UNCHANGED <<queued, gone, goalVars>>

QueueSettle ==
  /\ settling
  /\ settling' = FALSE /\ queued' = queued - 1 /\ Emptied
  /\ UNCHANGED <<active, run, gone, pending, wake, flight, kicks, settled,
                 inRow, goalVars>>

(* A compaction takes the session without noteRunAcceptedLocked.             *)
Compact(r) ==
  /\ ~gone /\ active = None
  /\ Begin(r, "compact", None)
  /\ UNCHANGED <<queued, settling, gone, wakeVars, goalVars>>

CompactFinish(r) ==
  /\ active = r /\ run[r].phase = "accepted" /\ run[r].kind = "compact"
  /\ active' = None /\ run' = [run EXCEPT ![r] = NoRun]
  /\ DispatchWakes(TRUE)
  /\ UNCHANGED <<queued, settling, gone, pending, kicks, inRow, goalVars>>

Cancelled(r) == [run EXCEPT ![r].cancelled = TRUE]

CancelRun ==
  /\ active # None
  /\ run' = Cancelled(active)
  /\ wake' = [wake EXCEPT !.held = @ \/ wake.current]
  /\ UNCHANGED <<active, queued, settling, gone, pending, flight, kicks, settled,
                 inRow, overlooked, goalVars>>

CloseSession ==
  /\ ~gone
  /\ run' = IF active = None THEN run ELSE Cancelled(active)
  /\ wake' = [wake EXCEPT !.held = TRUE, !.texts = {}]
  /\ settled' = settled \cup wake.texts
  /\ UNCHANGED <<active, queued, settling, gone, pending, flight, kicks, inRow,
                 overlooked, goalVars>>

DeleteSession ==
  /\ ~gone /\ active = None /\ queued = 0 /\ ~settling
  /\ gone' = TRUE
  /\ wake' = [wake EXCEPT !.held = TRUE, !.texts = {}]
  /\ settled' = settled \cup wake.texts
  /\ UNCHANGED <<active, run, queued, settling, pending, flight, kicks, inRow,
                 overlooked, goalVars>>

-----------------------------------------------------------------------------
(* The goal's clients. *)

GoalOwnsRun == active # None /\ goal.roundRun = active

(* A nonce is drawn that no goal and no continuation uses.                   *)
Fresh(x) == x # goal.nonce /\ \A r \in Runs : run[r].nonce # x

SetGoal(r, t, x) ==
  /\ Fresh(x)
  /\ AcceptOther(r, "goal", t)
  /\ goal' = NewGoal(t, x, r)
  /\ UNCHANGED <<queued, settling, gone, resuming>>

(* A resume reads the text for its prompt, and is accepted in a later step   *)
(* only if the text is still the same.                                       *)
ResumeGoal ==
  /\ active = None /\ goal.text # None
  /\ resuming' = goal.text
  /\ UNCHANGED <<sessionVars, wakeVars, goal>>

ResumeAccepted(r, x) ==
  /\ resuming # None /\ goal.text = resuming
  /\ Fresh(x)
  /\ AcceptOther(r, "goal", resuming)
  /\ goal' = NewGoal(resuming, x, r)
  /\ resuming' = None
  /\ UNCHANGED <<queued, settling, gone>>

ResumeRefused ==
  /\ resuming # None
  /\ resuming' = None
  /\ UNCHANGED <<sessionVars, wakeVars, goal>>

StopOwnRun == run' = IF GoalOwnsRun THEN Cancelled(active) ELSE run

PauseGoal ==
  /\ goal.text # None /\ goal.status = "active"
  /\ StopOwnRun
  /\ goal' = [goal EXCEPT !.status = "paused", !.awaiting = FALSE, !.next = None]
  /\ UNCHANGED <<active, queued, settling, gone, wakeVars, resuming>>

UpdateGoal(t) ==
  /\ goal.text # None /\ goal.revision < MaxRevision
  /\ goal' = [goal EXCEPT !.text = t, !.revision = @ + 1]
  /\ UNCHANGED <<sessionVars, wakeVars, resuming>>

ClearGoal ==
  /\ IF goal.status = "active" THEN StopOwnRun ELSE UNCHANGED run
  /\ goal' = NoGoal
  /\ UNCHANGED <<active, queued, settling, gone, wakeVars, resuming>>

(* The idle session is unloaded, and loaded again: the goal text is durable. *)
Reload ==
  /\ active = None /\ queued = 0 /\ ~gone
  /\ wake.texts = {} /\ ~wake.dispatching /\ kicks = 0
  /\ \A r \in Runs : run[r].phase = "none"
  /\ goal' = [NoGoal EXCEPT !.text = goal.text,
                !.status = IF goal.text = None THEN "none" ELSE "paused"]
  /\ wake' = NoWake /\ inRow' = 0
  /\ UNCHANGED <<sessionVars, pending, flight, kicks, settled, overlooked, resuming>>
-----------------------------------------------------------------------------
(* The goroutine of a run: executeRun, then its tail. *)

Moves(r, p) == [run EXCEPT ![r].phase = p]
Leaves(r) == [run EXCEPT ![r] = [NoRun EXCEPT !.phase = "dispatch"]]

TurnBegins(r) ==
  /\ run[r].phase = "accepted" /\ run[r].kind # "compact"
  /\ run' = Moves(r, "turn")
  /\ UNCHANGED <<active, queued, settling, gone, wakeVars, goalVars>>

(* A tool round of the turn takes the notices in. *)
TurnTakesNotices ==
  /\ TurnRunning /\ pending # {}
  /\ settled' = settled \cup pending /\ pending' = {}
  /\ UNCHANGED <<sessionVars, wake, flight, kicks, inRow, overlooked, goalVars>>

(* What arrived too late for the turn is queued for a wake run. *)
TurnEnds(r) ==
  /\ run[r].phase = "turn"
  /\ run' = Moves(r, "ended")
  /\ QueueWakes(pending) /\ pending' = {}
  /\ UNCHANGED <<active, queued, settling, gone, flight, inRow, overlooked, goalVars>>

Anything == TRUE
ForCurrentText == goal.runRevision = goal.revision

(* evaluateGoal: what the round's outcome and reply make of the goal. *)
NotDone    == [goal EXCEPT !.status = "paused", !.awaiting = FALSE]
Met        == [NoGoal EXCEPT !.status = "met"]
NeedsInput == [goal EXCEPT !.status = "paused", !.awaiting = TRUE]
Unfinished(r) ==
  IF goal.round >= MaxRounds THEN NotDone
  ELSE [goal EXCEPT !.round = @ + 1, !.next = r]

EvaluateGoal(r) ==
  /\ run[r].phase = "ended"
  /\ run' = Moves(r, "evaluated")
  /\ IF goal.status = "active" /\ goal.roundRun = r
       THEN \/ goal' = NotDone
            \/ ForCurrentText /\ goal' = Met
            \/ ForCurrentText /\ goal' = NeedsInput
            \/ goal' = Unfinished(r)
       ELSE UNCHANGED goal
  /\ UNCHANGED <<active, queued, settling, gone, wakeVars, resuming>>

RunDone(r) ==
  /\ run[r].phase = "evaluated"
  /\ active' = None
  /\ run' = Moves(r, "tail")
  /\ UNCHANGED <<queued, settling, gone, wakeVars, goalVars>>

(* continueGoal.  The round decided for the run that is over is taken, ...   *)
TakeRound(r) ==
  /\ run[r].phase = "tail"
  /\ IF goal.next = r
       THEN /\ goal' = [goal EXCEPT !.next = None]
            /\ run' = [run EXCEPT ![r] = [NoRun EXCEPT
                 !.phase = "check", !.nonce = goal.nonce, !.round = goal.round]]
       ELSE run' = Leaves(r) /\ UNCHANGED goal
  /\ UNCHANGED <<active, queued, settling, gone, wakeVars, resuming>>

Moved(r) ==
  goal.status # "active" \/ goal.nonce # run[r].nonce \/ goal.round # run[r].round

(* ... its prompt is built from the goal's text, ...                         *)
BuildRound(r) ==
  /\ run[r].phase = "check"
  /\ run' = IF Moved(r) THEN Leaves(r)
            ELSE [run EXCEPT ![r].phase = "start", ![r].text = goal.text,
                             ![r].revision = goal.revision]
  /\ UNCHANGED <<active, queued, settling, gone, wakeVars, goalVars>>

Stale(r) == Moved(r) \/ goal.revision # run[r].revision

(* ... and it is accepted unless the goal changed meanwhile;                 *)
RoundAccepted(r, q) ==
  /\ run[r].phase = "start" /\ ~Stale(r)
  /\ CanStart("goal")
  /\ run[q].phase = "none" /\ active' = q
  /\ run' = [run EXCEPT ![q] = [NoRun EXCEPT !.phase = "accepted", !.kind = "goal",
                                             !.asked = run[r].text],
                        ![r] = [NoRun EXCEPT !.phase = "dispatch"]]
  /\ wake' = Other(wake) /\ inRow' = 0
  /\ goal' = [goal EXCEPT !.runRevision = run[r].revision, !.roundRun = q]
  /\ UNCHANGED <<queued, settling, gone, pending, flight, kicks, settled,
                 overlooked, resuming>>

RoundStale(r) ==
  /\ run[r].phase = "start" /\ Stale(r)
  /\ CanStart("goal")
  /\ run' = IF Moved(r) THEN Leaves(r) ELSE Moves(r, "check")
  /\ UNCHANGED <<active, queued, settling, gone, wakeVars, goalVars>>

(* a busy session is tried again, until the retries are used up or the round *)
(* is refused for another reason.                                            *)
RetriesForEver(r) ==
  /\ run[r].phase = "start" /\ Busy
  /\ run' = [run EXCEPT ![r].phase = "check", ![r].attempt = @ + 1]
  /\ UNCHANGED <<active, queued, settling, gone, wakeVars, goalVars>>
RoundRetries(r) ==
  /\ run[r].phase = "start" /\ Busy /\ run[r].attempt < BusyRetries
  /\ run' = [run EXCEPT ![r].phase = "check", ![r].attempt = @ + 1]
  /\ UNCHANGED <<active, queued, settling, gone, wakeVars, goalVars>>

RoundRefused(r) ==
  /\ run[r].phase = "start"
  /\ ~Busy \/ run[r].attempt = BusyRetries
  /\ run' = Moves(r, "giveup")
  /\ UNCHANGED <<active, queued, settling, gone, wakeVars, goalVars>>

GiveUpSilently(r) ==
  /\ run[r].phase = "giveup"
  /\ run' = Leaves(r)
  /\ UNCHANGED <<active, queued, settling, gone, wakeVars, goalVars>>
GiveUp(r) ==
  /\ run[r].phase = "giveup"
  /\ run' = Leaves(r)
  /\ goal' = IF Moved(r) THEN goal ELSE NotDone
  /\ UNCHANGED <<active, queued, settling, gone, wakeVars, resuming>>

(* The goroutine looks for notices and ends. *)
EndsUnlooked(r) ==
  /\ run[r].phase = "dispatch"
  /\ run' = [run EXCEPT ![r] = NoRun]
  /\ goal' = [goal EXCEPT !.roundRun = IF @ = r THEN None ELSE @]
  /\ UNCHANGED <<active, queued, settling, gone, wakeVars, resuming>>
RunEnds(r) ==
  /\ run[r].phase = "dispatch"
  /\ run' = [run EXCEPT ![r] = NoRun]
  /\ goal' = [goal EXCEPT !.roundRun = IF @ = r THEN None ELSE @]
  /\ DispatchWakes(active = None)
  /\ UNCHANGED <<active, queued, settling, gone, pending, kicks, inRow, resuming>>

-----------------------------------------------------------------------------
Goroutine(r) ==
  \/ TurnBegins(r) \/ TurnEnds(r) \/ EvaluateGoal(r) \/ RunDone(r)
  \/ TakeRound(r) \/ BuildRound(r) \/ RoundStale(r) \/ RoundRetries(r)
  \/ RoundRefused(r) \/ GiveUp(r) \/ RunEnds(r) \/ CompactFinish(r)
  \/ \E q \in Runs : RoundAccepted(r, q)

Starter == WakeConflicts \/ WakeRefused \/ \E r \in Runs : WakeAccepted(r)

QueueWorker == QueueSettle \/ \E r \in Runs : QueueDispatch(r)

Clients ==
  \/ \E r \in Runs : Message(r) \/ ScheduledRun(r) \/ Compact(r)
  \/ QueueAdd \/ QueueRemove \/ CancelRun \/ CloseSession \/ DeleteSession \/ Reload
  \/ \E r \in Runs, t \in Texts, x \in Nonces : SetGoal(r, t, x)
  \/ ResumeGoal \/ ResumeRefused
  \/ \E r \in Runs, x \in Nonces : ResumeAccepted(r, x)
  \/ PauseGoal \/ ClearGoal \/ \E t \in Texts : UpdateGoal(t)

Next ==
  \/ \E n \in Notices : Notify(n)
  \/ TaskSettles \/ Kick \/ Starter \/ TurnTakesNotices
  \/ \E r \in Runs : Goroutine(r)
  \/ QueueWorker \/ Clients

Spec == Init /\ [][Next]_vars

FairSpec ==
  /\ Spec
  /\ \A r \in Runs : WF_vars(Goroutine(r))
  /\ WF_vars(Kick) /\ WF_vars(Starter) /\ WF_vars(QueueWorker)

-----------------------------------------------------------------------------
(* Properties. *)

TypeOK ==
  /\ active \in Runs \cup {None} /\ run \in [Runs -> Run]
  /\ queued \in 0..MaxQueued /\ settling \in BOOLEAN /\ gone \in BOOLEAN
  /\ pending \in SUBSET Notices /\ flight \in SUBSET Notices
  /\ settled \in SUBSET Notices /\ wake \in Wake
  /\ kicks \in 0..MaxKicks /\ inRow \in Nat /\ overlooked \in BOOLEAN
  /\ goal \in Goal /\ resuming \in Texts \cup {None}

(* No notice is lost or delivered twice: one that is under way waits in      *)
(* exactly one place, in the running turn's mailbox, in the backlog, or with *)
(* the goroutine that starts a wake run, also while these hand it over, a    *)
(* conflict puts it back, or the turn ends under it.                         *)
AccountedFor ==
  /\ pending \cup wake.texts \cup flight = Notices \ settled
  /\ pending \cap wake.texts = {} /\ pending \cap flight = {}
  /\ wake.texts \cap flight = {}
  /\ pending # {} => TurnRunning
  /\ flight # {} => wake.dispatching

(* Background work that keeps re-arming itself does not drive the session    *)
(* for ever: without a run of anybody else, wake runs stop after the limit,  *)
(* or one above it when a run was accepted under a starting wake run.        *)
StreakIsBounded == inRow <= MaxWakeStreak + 1

(* A goal never says it is active while nobody works on it: its round runs   *)
(* and will be evaluated, or the round decided for it is about to be taken,  *)
(* or the goroutine that takes it is still trying to start it.               *)
RoundRuns == goal.roundRun # None /\ run[goal.roundRun].phase \in {"accepted", "turn", "ended"}
RoundDecided == goal.next # None /\ run[goal.next].phase \in {"evaluated", "tail"}
RoundStarts == \E r \in Runs : run[r].phase \in Continuing /\ ~Moved(r)
ActiveIsWorked == goal.status = "active" => RoundRuns \/ RoundDecided \/ RoundStarts

(* A goal is met only by a round whose prompt put its present text to the    *)
(* model, whatever updates, pauses, resumptions and new goals came between.  *)
MetIsCurrent ==
  [][goal.status # "met" /\ goal'.status = "met"
       => run[goal.roundRun].asked = goal.text]_vars

(* Pausing or clearing a goal stops a run only if it is a round of the goal. *)
GoalStopsOwnRun ==
  [][\A r \in Runs : goal' # goal /\ run'[r].cancelled /\ ~run[r].cancelled
       => run[r].asked # None]_vars

(* A goal is met and stopped only by its own work: by a round that was asked *)
(* for its present text, and no run but its rounds is stopped for it.        *)
GoalEndsRight == MetIsCurrent /\ GoalStopsOwnRun

(* Every notice is taken in by a turn, delivered by a wake run or dropped,   *)
(* unless clients act for ever, wakes are held, or nobody looks because the  *)
(* last queue entry went without a run or another wake run was refused.      *)
NoticesGetThrough ==
  \A n \in Notices :
    []<><<Clients>>_vars
      \/ (n \notin settled ~> n \in settled \/ wake.held \/ overlooked)

-----------------------------------------------------------------------------
(* The inductive invariant behind the safety properties. *)

(* One goroutine at a time is before the end of its run, the active one; the *)
(* entry the worker has still to remove is in the queue.                     *)
OneExecutes ==
  /\ \A r \in Runs : run[r].phase \in Executing <=> active = r
  /\ settling => queued > 0

(* The streak counts the wake runs in a row and the one that is starting; an *)
(* acceptance under a starting wake run makes it one less.                   *)
Starting == IF wake.dispatching THEN 1 ELSE 0
StreakCounts ==
  /\ wake.streak <= MaxWakeStreak /\ wake.streak - Starting >= -1
  /\ inRow - (wake.streak - Starting) \in {0, 1}

(* A goal that works or waits for input has a text and a nonce, and its      *)
(* round is a goroutine whose prompt put a text of the goal.                 *)
RoundIsOwn ==
  /\ goal.status = "active" \/ goal.awaiting => goal.text # None /\ goal.nonce # None
  /\ goal.roundRun # None =>
       /\ run[goal.roundRun].phase # "none"
       /\ run[goal.roundRun].phase \in Executing => run[goal.roundRun].asked # None
  /\ \A r \in Runs : run[r].kind = "compact" => run[r].asked = None

(* A round that runs for the goal's revision was asked for its text, and one *)
(* that is being started for it will be.                                     *)
PromptsAreCurrent ==
  /\ goal.runRevision <= goal.revision
  /\ goal.roundRun # None /\ goal.runRevision = goal.revision
       /\ run[goal.roundRun].phase \in {"accepted", "turn", "ended"} =>
         run[goal.roundRun].asked = goal.text
  /\ \A r \in Runs : run[r].phase = "start" =>
       /\ run[r].nonce # None
       /\ run[r].nonce = goal.nonce => run[r].revision <= goal.revision
       /\ run[r].nonce = goal.nonce /\ run[r].revision = goal.revision =>
            run[r].text = goal.text

IInv ==
  /\ TypeOK /\ OneExecutes /\ AccountedFor /\ StreakCounts /\ ActiveIsWorked
  /\ RoundIsOwn /\ PromptsAreCurrent
=============================================================================
