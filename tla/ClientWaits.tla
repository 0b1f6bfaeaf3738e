----------------------------- MODULE ClientWaits -----------------------------
(***************************************************************************)
(* The calls of one run that wait for a client: questions and MCP forms    *)
(* (questions.go, elicitations.go), tools the client carries out           *)
(* (client_tools.go), and permission prompts (server.go,                   *)
(* permission_rules.go).  The waiter and the HTTP handlers that answer it   *)
(* share maps guarded by rt.mu; a waiter also wakes by itself, when its     *)
(* deadline passes or its context is cancelled.                            *)
(*                                                                         *)
(* A question, a form and a client tool are settled under one lock,        *)
(* together with the event that records it, by whoever comes first.  A     *)
(* prompt is claimed under the lock and decided outside it, after the rule *)
(* "allow always" suggests has been stored, which may fail.                *)
(*                                                                         *)
(* What an action does between taking and releasing rt.mu is one step.     *)
(***************************************************************************)
EXTENDS Naturals, Sequences, FiniteSets

CONSTANTS
  None,
  Questions,    \* calls that ask: questions and forms
  ClientTools,  \* calls the client carries out
  Answers,      \* what a client may answer a question or return from a tool
  SessionCalls, \* computer calls: approving one allows them all
  RuleCalls,    \* calls whose prompt suggests a rule that covers them all
  Background,   \* those of the prompts that belong to a subagent that outlives runs
  RuleCount,    \* how many rules that suggestion has; they are stored one by one
  Handlers,     \* concurrent requests that answer a prompt
  MaxCalls,     \* calls that are started (a bound)
  MaxFaults     \* failing writes of the journal and of the rules (a bound)

Asks    == Questions \cup ClientTools
Prompts == SessionCalls \cup RuleCalls

ASSUME WaitsAssumption ==
  /\ Questions \cap ClientTools = {}
  /\ SessionCalls \cap RuleCalls = {}
  /\ Background \subseteq Prompts
  /\ RuleCount \in Nat \ {0}
  /\ MaxCalls \in Nat /\ MaxFaults \in Nat
  /\ Answers \cap {"timeout", "cancelled", "error"} = {}
  /\ None \notin Prompts \cup Answers
  /\ None \notin {"timeout", "cancelled", "allow", "always", "reject"}

VARIABLES
  live,       \* the run is current: rt.runID is its id and ~rt.runDone
  stopped,    \* the contexts that are cancelled: "run" and the subagents'
  faults,     \* failing writes so far
  phase,      \* where the tool call of an ask is
  overdue,    \* the asks whose deadline has passed
  pending,    \* rt.questions, rt.elicitations and rt.clientTools
  resolution, \* waiter.resolution
  requested,  \* the asks whose request the journal holds
  resolved,   \* ask -> the resolutions of it the journal holds
  result,     \* what the tool call returned
  accepted,   \* the answers a client was told are accepted: <<ask, answer>>
  stage,      \* where the tool call of a prompt is
  open,       \* rt.permissions
  inbox,      \* permissionWaiter.result, a channel of one
  decision,   \* what the gate returned
  allowAll,   \* rt.computerAllowAll
  rules,      \* how many rules of the suggestion are stored
  kept,       \* prompt -> how many of them answers to it have stored
  step,       \* where a handler that answers a prompt is
  holds,      \* the prompt it has claimed
  choice,     \* the decision it brings
  stored,     \* how many rules it has stored
  found       \* the prompts that may be covered now and it has still to look at

askVars    == <<phase, overdue, pending, resolution, requested, resolved, result, accepted>>
promptVars == <<stage, open, inbox, decision, allowAll, rules, kept>>
handlerVars == <<step, holds, choice, stored, found>>
vars == <<live, stopped, faults, askVars, promptVars, handlerVars>>

Settled     == Answers \cup {"timeout", "cancelled"}
Phases      == {"idle", "entered", "waiting", "returned", "lost"}
Stages      == {"idle", "gated", "waiting", "granting", "done", "lost"}
Steps       == {"idle", "claimed", "failed", "ready", "sent", "settling", "releasing"}
Choices     == {"allow", "always", "reject"}

(* The types of the state. *)
TypeOK ==
  /\ live \in BOOLEAN
  /\ stopped \subseteq {"run"} \cup Background
  /\ faults \in 0 .. MaxFaults
  /\ phase \in [Asks -> Phases]
  /\ overdue \subseteq Asks
  /\ pending \subseteq Asks
  /\ resolution \in [Asks -> Settled \cup {None}]
  /\ requested \subseteq Asks
  /\ resolved \in [Asks -> Seq(Settled)]
  /\ result \in [Asks -> Settled \cup {"error", None}]
  /\ accepted \subseteq Asks \X Answers
  /\ stage \in [Prompts -> Stages]
  /\ open \subseteq Prompts
  /\ inbox \in [Prompts -> Choices \cup {None}]
  /\ decision \in [Prompts -> Choices \cup {"rule", "cancelled", "error", None}]
  /\ allowAll \in BOOLEAN
  /\ rules \in 0 .. RuleCount
  /\ kept \in [Prompts -> 0 .. RuleCount]
  /\ step \in [Handlers -> Steps]
  /\ holds \in [Handlers -> Prompts \cup {None}]
  /\ choice \in [Handlers -> Choices \cup {None}]
  /\ stored \in [Handlers -> 0 .. RuleCount]
  /\ found \in [Handlers -> SUBSET Prompts]

(* A run has been accepted and its agent calls tools. *)
Init ==
  /\ live = TRUE
  /\ stopped = {}
  /\ faults = 0
  /\ phase = [a \in Asks |-> "idle"]
  /\ overdue = {} /\ pending = {} /\ requested = {} /\ accepted = {}
  /\ resolution = [a \in Asks |-> None]
  /\ resolved = [a \in Asks |-> <<>>]
  /\ result = [a \in Asks |-> None]
  /\ stage = [p \in Prompts |-> "idle"]
  /\ open = {} /\ allowAll = FALSE /\ rules = 0
  /\ inbox = [p \in Prompts |-> None]
  /\ decision = [p \in Prompts |-> None]
  /\ kept = [p \in Prompts |-> 0]
  /\ step = [h \in Handlers |-> "idle"]
  /\ holds = [h \in Handlers |-> None]
  /\ choice = [h \in Handlers |-> None]
  /\ stored = [h \in Handlers |-> 0]
  /\ found = [h \in Handlers |-> {}]

(* A write that fails, of the journal or of a rules file. *)
Fault == faults < MaxFaults /\ faults' = faults + 1

-----------------------------------------------------------------------------
(* Questions, forms and client tools.                                      *)

RunStopped == "run" \in stopped

Started == {a \in Asks : phase[a] # "idle"} \cup {p \in Prompts : stage[p] # "idle"}
MayCall == Cardinality(Started) < MaxCalls

(* The call finds its context alive; the lock comes later. *)
Enter(a) ==
  /\ MayCall /\ live /\ ~RunStopped
  /\ phase[a] = "idle"
  /\ phase' = [phase EXCEPT ![a] = "entered"]
  /\ UNCHANGED <<live, stopped, faults, overdue, pending, resolution, requested, resolved,
                 result, accepted, promptVars, handlerVars>>

(* The call publishes its request and is registered under the same lock.   *)
Ask(a) ==
  /\ phase[a] = "entered" /\ live
  /\ phase' = [phase EXCEPT ![a] = "waiting"]
  /\ requested' = requested \cup {a}
  /\ pending' = pending \cup {a}
  /\ UNCHANGED <<live, stopped, faults, overdue, resolution, resolved, result, accepted,
                 promptVars, handlerVars>>

(* The request cannot be published: the call fails and nothing waits. *)
AskFails(a) ==
  /\ phase[a] = "entered" /\ Fault
  /\ phase' = [phase EXCEPT ![a] = "returned"]
  /\ result' = [result EXCEPT ![a] = "error"]
  /\ UNCHANGED <<live, stopped, overdue, pending, resolution, requested, resolved, accepted,
                 promptVars, handlerVars>>

(* The deadline the request named has passed. *)
Deadline(a) ==
  /\ phase[a] = "waiting" /\ a \notin overdue
  /\ overdue' = overdue \cup {a}
  /\ UNCHANGED <<live, stopped, faults, phase, pending, resolution, requested, resolved,
                 result, accepted, promptVars, handlerVars>>

(* What a wait that nobody answered becomes. *)
Expiry == IF RunStopped THEN "cancelled" ELSE "timeout"

(* The resolution is journaled and kept, once. *)
Settle(a, r) ==
  /\ resolved' = [resolved EXCEPT ![a] = Append(@, r)]
  /\ resolution' = [resolution EXCEPT ![a] = r]

IsSettled(a) == resolution[a] # None

(* A bug: the timer is never started. *)
ReadyWithoutTimer(a) == IsSettled(a) \/ RunStopped
Ready(a) == IsSettled(a) \/ a \in overdue \/ RunStopped

(* The waiter wakes and takes what an answer left, or settles by itself.   *)
Return(a) ==
  /\ phase[a] = "waiting" /\ Ready(a)
  /\ IF IsSettled(a)
       THEN UNCHANGED <<resolved, resolution>>
       ELSE Settle(a, Expiry)
  /\ phase' = [phase EXCEPT ![a] = "returned"]
  /\ result' = [result EXCEPT ![a] = resolution'[a]]
  /\ pending' = pending \ {a}
  /\ UNCHANGED <<live, stopped, faults, overdue, requested, accepted, promptVars, handlerVars>>

(* The resolution cannot be journaled: the call fails, and the journal keeps *)
(* a request that nothing resolves.                                        *)
ReturnFails(a) ==
  /\ phase[a] = "waiting" /\ Ready(a) /\ ~IsSettled(a)
  /\ Fault
  /\ phase' = [phase EXCEPT ![a] = "returned"]
  /\ result' = [result EXCEPT ![a] = "error"]
  /\ pending' = pending \ {a}
  /\ UNCHANGED <<live, stopped, overdue, resolution, requested, resolved, accepted,
                 promptVars, handlerVars>>

(* The waiter is registered and may still be answered. *)
Late(a) == RunStopped \/ a \in overdue

(* The client is told its answer counts, unless the reply is lost. *)
Reply(a, x) == accepted' \in {accepted, accepted \cup {<<a, x>>}}

(* An answer that the journal already holds is confirmed, another is refused. *)
AnswerAgain(a, x) ==
  /\ a \in Questions
  /\ resolved[a] = <<x>>
  /\ Reply(a, x)
  /\ UNCHANGED <<live, stopped, faults, phase, overdue, pending, resolution, requested,
                 resolved, result, promptVars, handlerVars>>

(* A bug: the client is told its answer counts when its waiter is gone. *)
AnswerUnheard(a, x) ==
  /\ a \in requested /\ ~Late(a) /\ resolved[a] = <<>>
  /\ Reply(a, x)
  /\ IF a \in pending THEN Settle(a, x) ELSE UNCHANGED <<resolved, resolution>>
  /\ UNCHANGED <<live, stopped, faults, phase, overdue, pending, requested, result,
                 promptVars, handlerVars>>

(* An answer in time settles the call. *)
Answer(a, x) ==
  /\ a \in pending /\ live
  /\ ~IsSettled(a) /\ ~Late(a)
  /\ Settle(a, x)
  /\ Reply(a, x)
  /\ UNCHANGED <<live, stopped, faults, phase, overdue, pending, requested, result,
                 promptVars, handlerVars>>

(* An answer to a client tool that was answered: settleClientToolLocked finds *)
(* a resolution and changes nothing, and the client is told it counts.     *)
ToolAnswerAgain(a, x) ==
  /\ a \in ClientTools \cap pending
  /\ IsSettled(a) /\ ~Late(a)
  /\ Reply(a, x)
  /\ UNCHANGED <<live, stopped, faults, phase, overdue, pending, resolution, requested,
                 resolved, result, promptVars, handlerVars>>

(* An answer whose resolution cannot be journaled: the call goes on waiting. *)
AnswerFails(a) ==
  /\ a \in pending /\ live
  /\ ~IsSettled(a) /\ ~Late(a)
  /\ Fault
  /\ UNCHANGED <<live, stopped, askVars, promptVars, handlerVars>>

(* An answer that comes late settles a question as expired and is refused; *)
(* one to a client tool is only refused.                                   *)
AnswerLate(a) ==
  /\ a \in Questions \cap pending /\ live
  /\ ~IsSettled(a) /\ Late(a)
  /\ Settle(a, Expiry)
  /\ UNCHANGED <<live, stopped, faults, phase, overdue, pending, requested, result, accepted,
                 promptVars, handlerVars>>

-----------------------------------------------------------------------------
(* Permission prompts.                                                     *)

Stopped(p) == IF p \in Background THEN p \in stopped ELSE RunStopped

(* A call that needs no prompt: the rules cover it, or the computer is allowed. *)
Covered(p) == IF p \in RuleCalls THEN rules = RuleCount ELSE live /\ allowAll

(* The gate reads the rules, whether the run is current and the grant, each *)
(* under its own lock, before it asks.                                     *)
Gate(p) ==
  /\ MayCall /\ stage[p] = "idle"
  /\ live \/ p \in Background
  /\ stage' = [stage EXCEPT ![p] = IF live /\ ~Covered(p) THEN "gated" ELSE "done"]
  /\ decision' = [decision EXCEPT ![p] = IF Covered(p) THEN "rule"
                                        ELSE IF live THEN None ELSE "error"]
  /\ UNCHANGED <<live, stopped, faults, askVars, open, inbox, allowAll, rules, kept, handlerVars>>

(* A bug: the grant is not read again under the lock that registers a prompt. *)
RegisterUnchecked(p) ==
  /\ stage[p] = "gated"
  /\ stage' = [stage EXCEPT ![p] = "waiting"]
  /\ open' = open \cup {p}
  /\ UNCHANGED <<live, stopped, faults, askVars, inbox, decision, allowAll, rules, kept,
                 handlerVars>>

(* The prompt is registered and its request published under one lock, which *)
(* also looks at the computer grant again.                                 *)
Register(p) ==
  /\ stage[p] = "gated"
  /\ IF p \in SessionCalls /\ allowAll
       THEN /\ stage' = [stage EXCEPT ![p] = "done"]
            /\ decision' = [decision EXCEPT ![p] = "rule"]
            /\ UNCHANGED open
       ELSE /\ stage' = [stage EXCEPT ![p] = "waiting"]
            /\ open' = open \cup {p}
            /\ UNCHANGED decision
  /\ UNCHANGED <<live, stopped, faults, askVars, inbox, allowAll, rules, kept, handlerVars>>

RegisterFails(p) ==
  /\ stage[p] = "gated" /\ ~(p \in SessionCalls /\ allowAll)
  /\ Fault
  /\ stage' = [stage EXCEPT ![p] = "done"]
  /\ decision' = [decision EXCEPT ![p] = "error"]
  /\ UNCHANGED <<live, stopped, askVars, open, inbox, allowAll, rules, kept, handlerVars>>

(* The waiter receives a decision; an approved computer call goes on to    *)
(* allow them all.                                                         *)
Receive(p) ==
  /\ stage[p] = "waiting" /\ inbox[p] # None
  /\ decision' = [decision EXCEPT ![p] = inbox[p]]
  /\ inbox' = [inbox EXCEPT ![p] = None]
  /\ open' = open \ {p}
  /\ stage' = [stage EXCEPT ![p] = IF p \in SessionCalls /\ inbox[p] # "reject"
                                    THEN "granting" ELSE "done"]
  /\ UNCHANGED <<live, stopped, faults, askVars, allowAll, rules, kept, handlerVars>>

(* The context of the call is cancelled.  When a decision is there too, either *)
(* may win.                                                                *)
StopWaiting(p) ==
  /\ stage[p] = "waiting" /\ Stopped(p)
  /\ decision' = [decision EXCEPT ![p] = "cancelled"]
  /\ open' = open \ {p}
  /\ stage' = [stage EXCEPT ![p] = "done"]
  /\ UNCHANGED <<live, stopped, faults, askVars, inbox, allowAll, rules, kept, handlerVars>>

(* The grant, and under the same lock the release of the prompts it covers. *)
Grant(p) ==
  /\ stage[p] = "granting"
  /\ allowAll' = TRUE
  /\ inbox' = [q \in Prompts |-> IF q \in open \cap SessionCalls /\ inbox[q] = None
                                 THEN "allow" ELSE inbox[q]]
  /\ open' = open \ SessionCalls
  /\ stage' = [stage EXCEPT ![p] = "done"]
  /\ UNCHANGED <<live, stopped, faults, askVars, decision, rules, kept, handlerVars>>

-----------------------------------------------------------------------------
(* A request that answers a prompt.                                        *)

(* A bug: the prompt stays open for another answer while its rules are stored. *)
ClaimLeavingOpen(h, p, c) ==
  /\ step[h] = "idle" /\ p \in open
  /\ step' = [step EXCEPT ![h] = IF c = "always" /\ p \in RuleCalls THEN "claimed" ELSE "ready"]
  /\ holds' = [holds EXCEPT ![h] = p]
  /\ choice' = [choice EXCEPT ![h] = c]
  /\ open' = IF c = "always" THEN open ELSE open \ {p}
  /\ UNCHANGED <<live, stopped, faults, askVars, stage, inbox, decision, allowAll, rules, kept,
                 stored, found>>

(* The answer takes the prompt away before it does anything else. *)
Claim(h, p, c) ==
  /\ step[h] = "idle" /\ p \in open
  /\ step' = [step EXCEPT ![h] = IF c = "always" /\ p \in RuleCalls THEN "claimed" ELSE "ready"]
  /\ holds' = [holds EXCEPT ![h] = p]
  /\ choice' = [choice EXCEPT ![h] = c]
  /\ open' = open \ {p}
  /\ UNCHANGED <<live, stopped, faults, askVars, stage, inbox, decision, allowAll, rules, kept,
                 stored, found>>

(* The next rule of the suggestion is stored; one that is there stays. *)
StoreRule(h) ==
  /\ step[h] = "claimed"
  /\ LET n == stored[h] + 1 IN
     /\ stored' = [stored EXCEPT ![h] = n]
     /\ rules' = IF n > rules THEN n ELSE rules
     /\ kept' = [kept EXCEPT ![holds[h]] = IF n > @ THEN n ELSE @]
     /\ step' = [step EXCEPT ![h] = IF n = RuleCount THEN "ready" ELSE "claimed"]
  /\ UNCHANGED <<live, stopped, faults, askVars, stage, open, inbox, decision, allowAll,
                 holds, choice, found>>

(* "Always" without a scope may be allowed once only, with nothing stored. *)
StoreNothing(h) ==
  /\ step[h] = "claimed" /\ stored[h] = 0
  /\ step' = [step EXCEPT ![h] = "ready"]
  /\ UNCHANGED <<live, stopped, faults, askVars, promptVars, holds, choice, stored, found>>

(* The scope is refused, or a rule cannot be written; rules stored before stay. *)
StoreFails(h) ==
  /\ step[h] = "claimed"
  /\ \/ stored[h] = 0 /\ UNCHANGED faults
     \/ Fault
  /\ step' = [step EXCEPT ![h] = "failed"]
  /\ UNCHANGED <<live, stopped, askVars, promptVars, holds, choice, stored, found>>

(* A bug: the next request starts at the rule where this one stopped. *)
AnsweredKeepingCount(h) ==
  /\ step' = [step EXCEPT ![h] = "idle"]
  /\ choice' = [choice EXCEPT ![h] = None]
  /\ UNCHANGED stored

(* The handler is done with the request. *)
Answered(h) ==
  /\ step' = [step EXCEPT ![h] = "idle"]
  /\ choice' = [choice EXCEPT ![h] = None]
  /\ stored' = [stored EXCEPT ![h] = 0]

(* The refused answer puts the prompt back, whether or not its call still waits. *)
Reopen(h) ==
  /\ step[h] = "failed"
  /\ open' = open \cup {holds[h]}
  /\ holds' = [holds EXCEPT ![h] = None]
  /\ Answered(h)
  /\ UNCHANGED <<live, stopped, faults, askVars, stage, inbox, decision, allowAll, rules, kept,
                 found>>

(* The decision is sent; the channel holds one. *)
Send(h) ==
  /\ step[h] = "ready" /\ inbox[holds[h]] = None
  /\ inbox' = [inbox EXCEPT ![holds[h]] = choice[h]]
  /\ holds' = [holds EXCEPT ![h] = None]
  /\ IF choice[h] = "always" /\ holds[h] \in RuleCalls
       THEN step' = [step EXCEPT ![h] = "sent"] /\ UNCHANGED <<choice, stored>>
       ELSE Answered(h)
  /\ UNCHANGED <<live, stopped, faults, askVars, stage, open, decision, allowAll, rules, kept,
                 found>>

(* A remembered rule may cover other prompts: the handler copies the open ones. *)
Snapshot(h) ==
  /\ step[h] = "sent"
  /\ found' = [found EXCEPT ![h] = open \cap RuleCalls]
  /\ step' = [step EXCEPT ![h] = "settling"]
  /\ UNCHANGED <<live, stopped, faults, askVars, promptVars, holds, choice, stored>>

(* A bug: the prompt is settled from the copy, answered or not meanwhile. *)
SettleFromCopy(h, p) ==
  /\ step[h] = "settling" /\ p \in found[h]
  /\ found' = [found EXCEPT ![h] = @ \ {p}]
  /\ IF Covered(p)
       THEN /\ holds' = [holds EXCEPT ![h] = p]
            /\ step' = [step EXCEPT ![h] = "releasing"]
            /\ open' = open \ {p}
       ELSE UNCHANGED <<holds, step, open>>
  /\ UNCHANGED <<live, stopped, faults, askVars, stage, inbox, decision, allowAll, rules, kept,
                 choice, stored>>

(* Each of them is claimed if the rules cover it and nobody has claimed it. *)
SettleNext(h, p) ==
  /\ step[h] = "settling" /\ p \in found[h]
  /\ found' = [found EXCEPT ![h] = @ \ {p}]
  /\ IF Covered(p) /\ p \in open
       THEN /\ holds' = [holds EXCEPT ![h] = p]
            /\ step' = [step EXCEPT ![h] = "releasing"]
            /\ open' = open \ {p}
       ELSE UNCHANGED <<holds, step, open>>
  /\ UNCHANGED <<live, stopped, faults, askVars, stage, inbox, decision, allowAll, rules, kept,
                 choice, stored>>

Release(h) ==
  /\ step[h] = "releasing" /\ inbox[holds[h]] = None
  /\ inbox' = [inbox EXCEPT ![holds[h]] = "allow"]
  /\ holds' = [holds EXCEPT ![h] = None]
  /\ step' = [step EXCEPT ![h] = "settling"]
  /\ UNCHANGED <<live, stopped, faults, askVars, stage, open, decision, allowAll, rules, kept,
                 choice, stored, found>>

SettleDone(h) ==
  /\ step[h] = "settling" /\ found[h] = {}
  /\ Answered(h)
  /\ UNCHANGED <<live, stopped, faults, askVars, promptVars, holds, found>>

-----------------------------------------------------------------------------
(* The run, its cancellation, the process.                                 *)

CancelRun ==
  /\ live /\ ~RunStopped
  /\ stopped' = stopped \cup {"run"}
  /\ UNCHANGED <<live, faults, askVars, promptVars, handlerVars>>

StopSubagent(p) ==
  /\ p \in Background \ stopped
  /\ stopped' = stopped \cup {p}
  /\ UNCHANGED <<live, faults, askVars, promptVars, handlerVars>>

(* The agent collects the results of all its calls before the run can end. *)
Collected ==
  /\ \A a \in Asks : phase[a] \in {"idle", "returned"}
  /\ \A p \in Prompts \ Background : stage[p] \in {"idle", "done"}

EndRun ==
  /\ live /\ Collected
  /\ live' = FALSE
  /\ UNCHANGED <<stopped, faults, askVars, promptVars, handlerVars>>

(* The process ends: the journal and the rules files remain. *)
Crash ==
  /\ live
  /\ live' = FALSE
  /\ phase' = [a \in Asks |-> IF phase[a] \in {"entered", "waiting"} THEN "lost" ELSE phase[a]]
  /\ pending' = {} /\ resolution' = [a \in Asks |-> None]
  /\ stage' = [p \in Prompts |-> IF stage[p] \in {"gated", "waiting", "granting"}
                                 THEN "lost" ELSE stage[p]]
  /\ open' = {} /\ allowAll' = FALSE /\ inbox' = [p \in Prompts |-> None]
  /\ step' = [h \in Handlers |-> "idle"] /\ holds' = [h \in Handlers |-> None]
  /\ choice' = [h \in Handlers |-> None] /\ stored' = [h \in Handlers |-> 0]
  /\ found' = [h \in Handlers |-> {}]
  /\ UNCHANGED <<stopped, faults, overdue, requested, resolved, result, accepted, decision,
                 rules, kept>>

-----------------------------------------------------------------------------
AskStep(a) ==
  \/ Enter(a) \/ Ask(a) \/ AskFails(a) \/ Deadline(a) \/ Return(a) \/ ReturnFails(a)
  \/ AnswerLate(a) \/ AnswerFails(a)
  \/ \E x \in Answers : Answer(a, x) \/ AnswerAgain(a, x) \/ ToolAnswerAgain(a, x)

PromptStep(p) ==
  \/ Gate(p) \/ Register(p) \/ RegisterFails(p) \/ Receive(p) \/ StopWaiting(p) \/ Grant(p)
  \/ StopSubagent(p)

HandlerStep(h) ==
  \/ StoreRule(h) \/ StoreNothing(h) \/ StoreFails(h) \/ Reopen(h) \/ Send(h) \/ Snapshot(h)
  \/ Release(h) \/ SettleDone(h)
  \/ \E p \in Prompts : SettleNext(h, p) \/ \E c \in Choices : Claim(h, p, c)

Next ==
  \/ \E a \in Asks : AskStep(a)
  \/ \E p \in Prompts : PromptStep(p)
  \/ \E h \in Handlers : HandlerStep(h)
  \/ CancelRun \/ EndRun \/ Crash

Spec == Init /\ [][Next]_vars

(* Goroutines run and timers fire; clients owe nothing.  A cancelled agent *)
(* ends once its calls have returned.                                      *)
Fairness ==
  /\ \A a \in Asks :
       WF_vars(Ask(a)) /\ WF_vars(Deadline(a)) /\ WF_vars(Return(a) \/ ReturnFails(a))
  /\ \A p \in Prompts :
       WF_vars(Register(p)) /\ WF_vars(Receive(p) \/ StopWaiting(p)) /\ WF_vars(Grant(p))
  /\ WF_vars(RunStopped /\ EndRun)

FairSpec == Spec /\ Fairness

-----------------------------------------------------------------------------
(* A question is resolved at most once in the journal, its tool returns    *)
(* what the journal says, and an answer a client was told is accepted, the *)
(* first time or again, is that resolution: settleQuestionLocked runs under *)
(* rt.mu whoever settles.                                                  *)
AcceptedIsReturned ==
  /\ \A a \in Asks :
       /\ Len(resolved[a]) <= 1
       /\ phase[a] = "returned" =>
            resolved[a] = IF result[a] = "error" THEN <<>> ELSE <<result[a]>>
  /\ \A a \in Questions, x \in Answers : <<a, x>> \in accepted => resolved[a] = <<x>>

(* Nobody else can decide a prompt that is claimed, so the send to its channel *)
(* of one never blocks, and a prompt the user rejected has not remembered its *)
(* suggestion: permission claims the prompt before it stores a rule.       *)
OneAnswerWins ==
  /\ \A h \in Handlers : holds[h] # None =>
       /\ holds[h] \notin open
       /\ inbox[holds[h]] = None
       /\ decision[holds[h]] \in {None, "cancelled"}
       /\ \A g \in Handlers \ {h} : holds[g] # holds[h]
  /\ \A p \in Prompts : decision[p] = "reject" => kept[p] < RuleCount

(* Both: whatever a client is asked is decided once, as it was told.       *)
AnswersCount == AcceptedIsReturned /\ OneAnswerWins

(* Once the computer is allowed no computer call waits for the user, whether *)
(* it registered before the grant or passed the gate before it:            *)
(* waitPermission looks again under the lock that registers.               *)
GrantCoversAll == allowAll => open \cap SessionCalls = {}

(* A vanished client cannot hang a run: what it was asked expires, and a    *)
(* cancelled run ends whatever its calls wait for.                         *)
WaitsEnd ==
  /\ \A a \in Asks : phase[a] = "waiting" ~> phase[a] # "waiting"
  /\ RunStopped ~> ~live
-----------------------------------------------------------------------------
(* The inductive invariant behind the safety properties. *)

(* Only a waiting call is registered, and what the journal holds of it is    *)
(* what its waiter keeps, or its call returned; a crash forgets which.       *)
AskSound(a) ==
  /\ a \in pending => phase[a] = "waiting"
  /\ phase[a] \in {"idle", "entered"} => resolved[a] = <<>> /\ resolution[a] = None
  /\ phase[a] = "waiting" =>
       resolved[a] = IF IsSettled(a) THEN <<resolution[a]>> ELSE <<>>
  /\ phase[a] = "returned" =>
       resolved[a] = IF result[a] = "error" THEN <<>> ELSE <<result[a]>>
  /\ Len(resolved[a]) <= 1
  /\ a \in Questions => \A x \in Answers : <<a, x>> \in accepted => resolved[a] = <<x>>

Registered(p) == stage[p] \notin {"idle", "gated"}

(* A prompt has one place, open, with a handler or decided, and its suggestion *)
(* is remembered only on the way to "always".                                *)
PromptSound(p) ==
  /\ p \in open => inbox[p] = None /\ kept[p] < RuleCount
  /\ p \in open \/ inbox[p] # None =>
       /\ Registered(p) /\ decision[p] \in {None, "cancelled"}
       /\ \A h \in Handlers : holds[h] # p
  /\ "reject" \in {inbox[p], decision[p]} => kept[p] < RuleCount
  /\ ~Registered(p) => kept[p] = 0
  /\ stage[p] = "gated" => decision[p] = None

(* What a handler holds is nobody else's, and where it is says what it holds. *)
HandlerSound(h) ==
  /\ holds[h] = None <=> step[h] \in {"idle", "sent", "settling"}
  /\ holds[h] # None =>
       /\ Registered(holds[h]) /\ decision[holds[h]] \in {None, "cancelled"}
       /\ \A g \in Handlers \ {h} : holds[g] # holds[h]
  /\ step[h] = "idle" => stored[h] = 0
  /\ step[h] = "claimed" => stored[h] < RuleCount
  /\ step[h] \in {"claimed", "failed"} => choice[h] = "always" /\ holds[h] \in RuleCalls
  /\ step[h] \in {"claimed", "failed"} \/ (step[h] = "ready" /\ choice[h] # "always") =>
       kept[holds[h]] < RuleCount

IInv ==
  /\ TypeOK /\ GrantCoversAll
  /\ \A a \in Asks : AskSound(a)
  /\ \A p \in Prompts : PromptSound(p)
  /\ \A h \in Handlers : HandlerSound(h)
=============================================================================
