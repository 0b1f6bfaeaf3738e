------------------------- MODULE ClientWaits_proofs -------------------------
(***************************************************************************)
(* Theorems of ClientWaits, for every number of calls, answers, rules and  *)
(* handlers.  IInv is shown inductive: first the types, then the calls     *)
(* that ask, then the prompts together with the handlers that answer them. *)
(***************************************************************************)
EXTENDS ClientWaits, TLAPS

(* An ask that a step leaves alone stays sound. *)
LEMMA AskKept ==
  ASSUME NEW a \in Asks, AskSound(a),
         a \in pending' => a \in pending,
         phase'[a] = phase[a], resolution'[a] = resolution[a],
         resolved'[a] = resolved[a], result'[a] = result[a],
         \A x \in Answers : <<a, x>> \in accepted' => <<a, x>> \in accepted
  PROVE  AskSound(a)'
BY DEF AskSound, IsSettled

(* So does a prompt, if nobody takes it up, *)
LEMMA PromptKept ==
  ASSUME NEW p \in Prompts, PromptSound(p),
         p \in open' => p \in open, stage'[p] = stage[p], inbox'[p] = inbox[p],
         decision'[p] = decision[p], kept'[p] = kept[p],
         \A h \in Handlers : holds'[h] = p => holds[h] = p
  PROVE  PromptSound(p)'
BY DEF PromptSound, Registered

(* and a handler, if what it holds stays its own. *)
LEMMA HandlerKept ==
  ASSUME NEW h \in Handlers, HandlerSound(h),
         step'[h] = step[h], holds'[h] = holds[h], choice'[h] = choice[h],
         stored'[h] = stored[h],
         holds[h] # None =>
           /\ Registered(holds[h])'
           /\ decision'[holds[h]] \in {decision[holds[h]], "cancelled"}
           /\ \A g \in Handlers \ {h} : holds'[g] # holds[h]
           /\ kept'[holds[h]] = kept[holds[h]]
  PROVE  HandlerSound(h)'
BY DEF HandlerSound

(* The first resolution of a call is the only one. *)
LEMMA FirstResolution ==
  ASSUME NEW r \in Settled
  PROVE  /\ Append(<<>>, r) = <<r>> /\ Len(<<r>>) = 1 /\ Len(<<>>) = 0
         /\ <<r>> # <<>> /\ r # "error" /\ r # None
         /\ <<r>> \in Seq(Settled)
BY WaitsAssumption DEF Settled

-----------------------------------------------------------------------------
(* Types. *)

LEMMA InitType == Init => TypeOK
<1> SUFFICES ASSUME Init PROVE TypeOK
  OBVIOUS
<1>0. faults \in 0 .. MaxFaults /\ rules \in 0 .. RuleCount
  BY WaitsAssumption DEF Init
<1>1. /\ live \in BOOLEAN /\ stopped \subseteq {"run"} \cup Background
      /\ overdue \subseteq Asks /\ pending \subseteq Asks /\ requested \subseteq Asks
      /\ accepted \subseteq Asks \X Answers /\ open \subseteq Prompts /\ allowAll \in BOOLEAN
  BY DEF Init
<1>2. /\ phase \in [Asks -> Phases] /\ resolution \in [Asks -> Settled \cup {None}]
      /\ result \in [Asks -> Settled \cup {"error", None}]
  BY DEF Init, Phases
<1>3. resolved \in [Asks -> Seq(Settled)]
  <2>1. <<>> \in Seq(Settled)
    OBVIOUS
  <2> QED BY <2>1 DEF Init
<1>4. /\ stage \in [Prompts -> Stages] /\ inbox \in [Prompts -> Choices \cup {None}]
      /\ decision \in [Prompts -> Choices \cup {"rule", "cancelled", "error", None}]
      /\ kept \in [Prompts -> 0 .. RuleCount]
  BY WaitsAssumption DEF Init, Stages
<1>5. /\ step \in [Handlers -> Steps] /\ holds \in [Handlers -> Prompts \cup {None}]
      /\ choice \in [Handlers -> Choices \cup {None}] /\ stored \in [Handlers -> 0 .. RuleCount]
      /\ found \in [Handlers -> SUBSET Prompts]
  BY WaitsAssumption DEF Init, Steps
<1> QED BY <1>0, <1>1, <1>2, <1>3, <1>4, <1>5 DEF TypeOK

(* Calls that ask. *)
LEMMA AskStepType ==
  ASSUME TypeOK, NEW a \in Asks, AskStep(a)
  PROVE  TypeOK'
<1>1. CASE Enter(a)
  BY <1>1, WaitsAssumption DEF Enter, TypeOK, Phases, Stages, Steps,
    Choices, Settled, askVars, promptVars, handlerVars
<1>2. CASE Ask(a)
  BY <1>2, WaitsAssumption DEF Ask, TypeOK, Phases, Stages, Steps,
    Choices, Settled, askVars, promptVars, handlerVars
<1>3. CASE AskFails(a)
  BY <1>3, WaitsAssumption DEF AskFails, Fault, TypeOK, Phases, Stages, Steps,
    Choices, Settled, askVars, promptVars, handlerVars
<1>4. CASE Deadline(a)
  BY <1>4, WaitsAssumption DEF Deadline, TypeOK, Phases, Stages, Steps,
    Choices, Settled, askVars, promptVars, handlerVars
<1>5. CASE Return(a)
  <2>1. phase' \in [Asks -> Phases] /\ pending' \subseteq Asks
    BY <1>5 DEF Return, TypeOK, Phases
  <2>2. /\ resolution' \in [Asks -> Settled \cup {None}]
        /\ resolved' \in [Asks -> Seq(Settled)]
        /\ resolution'[a] \in Settled
    <3>1. CASE IsSettled(a)
      BY <1>5, <3>1 DEF Return, TypeOK, IsSettled
    <3>2. CASE ~IsSettled(a)
      <4>1. Expiry \in Settled
        BY DEF Expiry, Settled
      <4>2. Append(resolved[a], Expiry) \in Seq(Settled)
        BY <4>1 DEF TypeOK
      <4> QED BY <1>5, <3>2, <4>1, <4>2 DEF Return, Settle, TypeOK
    <3> QED BY <3>1, <3>2
  <2>3. result' \in [Asks -> Settled \cup {"error", None}]
    BY <1>5, <2>2 DEF Return, TypeOK
  <2> QED BY <1>5, <2>1, <2>2, <2>3 DEF Return, TypeOK, promptVars, handlerVars
<1>6. CASE ReturnFails(a)
  BY <1>6, WaitsAssumption DEF ReturnFails, Fault, TypeOK, Phases, Stages, Steps,
    Choices, Settled, askVars, promptVars, handlerVars
<1>7. CASE AnswerLate(a)
  BY <1>7, WaitsAssumption DEF AnswerLate, Settle, Expiry, TypeOK, Phases, Stages, Steps,
    Choices, Settled, askVars, promptVars, handlerVars
<1>8. CASE AnswerFails(a)
  BY <1>8, WaitsAssumption DEF AnswerFails, Fault, TypeOK, Phases, Stages, Steps,
    Choices, Settled, askVars, promptVars, handlerVars
<1>9. ASSUME NEW x \in Answers, Answer(a, x) PROVE TypeOK'
  BY <1>9, WaitsAssumption DEF Answer, Settle, Reply, TypeOK, Phases, Stages, Steps,
    Choices, Settled, askVars, promptVars, handlerVars
<1>10. ASSUME NEW x \in Answers, AnswerAgain(a, x) PROVE TypeOK'
  BY <1>10, WaitsAssumption DEF AnswerAgain, Reply, TypeOK, Phases, Stages, Steps,
    Choices, Settled, askVars, promptVars, handlerVars
<1>11. ASSUME NEW x \in Answers, ToolAnswerAgain(a, x) PROVE TypeOK'
  BY <1>11, WaitsAssumption DEF ToolAnswerAgain, Reply, TypeOK, Phases, Stages, Steps,
    Choices, Settled, askVars, promptVars, handlerVars
<1> QED BY <1>1, <1>2, <1>3, <1>4, <1>5, <1>6, <1>7, <1>8, <1>9, <1>10, <1>11 DEF AskStep

(* Calls that are gated. *)
LEMMA PromptStepType ==
  ASSUME TypeOK, NEW p \in Prompts, PromptStep(p)
  PROVE  TypeOK'
<1>1. CASE Gate(p)
  BY <1>1, WaitsAssumption DEF Gate, TypeOK, Phases, Stages, Steps,
    Choices, Settled, askVars, promptVars, handlerVars
<1>2. CASE Register(p)
  <2>1. stage' \in [Prompts -> Stages]
    <3>1. stage' = [stage EXCEPT ![p] = "done"] \/ stage' = [stage EXCEPT ![p] = "waiting"]
      BY <1>2 DEF Register
    <3>2. {"done", "waiting"} \subseteq Stages /\ stage \in [Prompts -> Stages]
      BY DEF TypeOK, Stages
    <3> QED BY <3>1, <3>2
  <2>2. open' \subseteq Prompts
    BY <1>2 DEF Register, TypeOK
  <2>3. decision' \in [Prompts -> Choices \cup {"rule", "cancelled", "error", None}]
    BY <1>2 DEF Register, TypeOK
  <2> QED BY <1>2, <2>1, <2>2, <2>3 DEF Register, TypeOK, askVars, handlerVars
<1>3. CASE RegisterFails(p)
  BY <1>3, WaitsAssumption DEF RegisterFails, Fault, TypeOK, Phases, Stages, Steps,
    Choices, Settled, askVars, promptVars, handlerVars
<1>4. CASE Receive(p)
  BY <1>4, WaitsAssumption DEF Receive, TypeOK, Phases, Stages, Steps,
    Choices, Settled, askVars, promptVars, handlerVars
<1>5. CASE StopWaiting(p)
  BY <1>5, WaitsAssumption DEF StopWaiting, TypeOK, Phases, Stages, Steps,
    Choices, Settled, askVars, promptVars, handlerVars
<1>6. CASE Grant(p)
  BY <1>6, WaitsAssumption DEF Grant, TypeOK, Phases, Stages, Steps,
    Choices, Settled, askVars, promptVars, handlerVars
<1>7. CASE StopSubagent(p)
  BY <1>7, WaitsAssumption DEF StopSubagent, TypeOK, Phases, Stages, Steps,
    Choices, Settled, askVars, promptVars, handlerVars
<1> QED BY <1>1, <1>2, <1>3, <1>4, <1>5, <1>6, <1>7 DEF PromptStep

(* Handlers. *)
LEMMA HandlerStepType ==
  ASSUME TypeOK, \A k \in Handlers : HandlerSound(k), NEW h \in Handlers, HandlerStep(h)
  PROVE  TypeOK'
<1>1. CASE StoreRule(h)
  <2>0. HandlerSound(h) /\ stored[h] \in 0 .. RuleCount /\ holds[h] \in Prompts \cup {None}
    BY DEF TypeOK
  <2>1. /\ stored[h] \in 0 .. RuleCount /\ stored[h] + 1 \in 0 .. RuleCount
        /\ rules \in 0 .. RuleCount /\ holds[h] \in Prompts
    <3>1. stored[h] < RuleCount /\ holds[h] # None
      BY <1>1, <2>0 DEF StoreRule, HandlerSound
    <3> QED BY <2>0, <3>1, WaitsAssumption DEF TypeOK
  <2>2. stored' \in [Handlers -> 0 .. RuleCount] /\ rules' \in 0 .. RuleCount
    BY <1>1, <2>1 DEF StoreRule, TypeOK
  <2>3. kept' \in [Prompts -> 0 .. RuleCount]
    BY <1>1, <2>1 DEF StoreRule, TypeOK
  <2>4. step' \in [Handlers -> Steps]
    BY <1>1 DEF StoreRule, TypeOK, Steps
  <2> QED BY <1>1, <2>2, <2>3, <2>4 DEF StoreRule, TypeOK, askVars
<1>2. CASE StoreNothing(h)
  BY <1>2, WaitsAssumption DEF StoreNothing, TypeOK, Phases, Stages, Steps,
    Choices, Settled, askVars, promptVars, handlerVars
<1>3. CASE StoreFails(h)
  BY <1>3, WaitsAssumption DEF StoreFails, Fault, TypeOK, Phases, Stages, Steps,
    Choices, Settled, askVars, promptVars, handlerVars
<1>4. CASE Reopen(h)
  <2>1. open' \subseteq Prompts
    <3>1. HandlerSound(h) /\ holds[h] \in Prompts \cup {None}
      BY DEF TypeOK
    <3>2. holds[h] # None
      BY <1>4, <3>1 DEF Reopen, HandlerSound
    <3> QED BY <1>4, <3>1, <3>2 DEF Reopen, TypeOK
  <2>2. /\ holds' \in [Handlers -> Prompts \cup {None}] /\ step' \in [Handlers -> Steps]
        /\ choice' \in [Handlers -> Choices \cup {None}]
    BY <1>4 DEF Reopen, Answered, TypeOK, Steps
  <2>3. stored' \in [Handlers -> 0 .. RuleCount]
    BY <1>4, WaitsAssumption DEF Reopen, Answered, TypeOK
  <2> QED BY <1>4, <2>1, <2>2, <2>3 DEF Reopen, TypeOK, askVars
<1>5. CASE Send(h)
  <2>1. /\ inbox' \in [Prompts -> Choices \cup {None}]
        /\ holds' \in [Handlers -> Prompts \cup {None}]
    BY <1>5 DEF Send, TypeOK
  <2>2. /\ step' \in [Handlers -> Steps]
        /\ choice' \in [Handlers -> Choices \cup {None}]
    BY <1>5 DEF Send, Answered, TypeOK, Steps
  <2>3. stored' \in [Handlers -> 0 .. RuleCount]
    <3>1. stored' = stored \/ stored' = [stored EXCEPT ![h] = 0]
      BY <1>5 DEF Send, Answered
    <3>2. 0 \in 0 .. RuleCount
      BY WaitsAssumption
    <3>3. stored \in [Handlers -> 0 .. RuleCount]
      BY DEF TypeOK
    <3> QED BY <3>1, <3>2, <3>3
  <2> QED BY <1>5, <2>1, <2>2, <2>3 DEF Send, TypeOK, askVars
<1>6. CASE Snapshot(h)
  BY <1>6, WaitsAssumption DEF Snapshot, TypeOK, Phases, Stages, Steps,
    Choices, Settled, askVars, promptVars, handlerVars
<1>7. CASE Release(h)
  BY <1>7, WaitsAssumption DEF Release, TypeOK, Phases, Stages, Steps,
    Choices, Settled, askVars, promptVars, handlerVars
<1>8. CASE SettleDone(h)
  BY <1>8, WaitsAssumption DEF SettleDone, Answered, TypeOK, Phases, Stages, Steps,
    Choices, Settled, askVars, promptVars, handlerVars
<1>9. ASSUME NEW p \in Prompts, SettleNext(h, p) PROVE TypeOK'
  <2>1. found' \in [Handlers -> SUBSET Prompts]
    <3>1. found[h] \ {p} \subseteq Prompts
      BY DEF TypeOK
    <3> QED BY <1>9, <3>1 DEF SettleNext, TypeOK
  <2>2. /\ holds' \in [Handlers -> Prompts \cup {None}] /\ step' \in [Handlers -> Steps]
        /\ open' \subseteq Prompts
    BY <1>9 DEF SettleNext, TypeOK, Steps
  <2> QED BY <1>9, <2>1, <2>2 DEF SettleNext, TypeOK, askVars
<1>10. ASSUME NEW p \in Prompts, NEW c \in Choices, Claim(h, p, c) PROVE TypeOK'
  BY <1>10, WaitsAssumption DEF Claim, TypeOK, Phases, Stages, Steps,
    Choices, Settled, askVars, promptVars, handlerVars
<1> QED BY <1>1, <1>2, <1>3, <1>4, <1>5, <1>6, <1>7, <1>8, <1>9, <1>10 DEF HandlerStep

(* Every step. *)
LEMMA NextType ==
  ASSUME TypeOK, \A k \in Handlers : HandlerSound(k), [Next]_vars
  PROVE  TypeOK'
<1>1. CASE CancelRun \/ EndRun
  BY <1>1 DEF CancelRun, EndRun, TypeOK, askVars, promptVars, handlerVars
<1>2. CASE Crash
  <2>1. /\ phase' \in [Asks -> Phases] /\ pending' \subseteq Asks /\ live' \in BOOLEAN
        /\ resolution' \in [Asks -> Settled \cup {None}]
    BY <1>2 DEF Crash, TypeOK, Phases
  <2>2. /\ stage' \in [Prompts -> Stages] /\ open' \subseteq Prompts /\ allowAll' \in BOOLEAN
        /\ inbox' \in [Prompts -> Choices \cup {None}]
    BY <1>2 DEF Crash, TypeOK, Stages
  <2>3. /\ step' \in [Handlers -> Steps] /\ holds' \in [Handlers -> Prompts \cup {None}]
        /\ choice' \in [Handlers -> Choices \cup {None}]
        /\ stored' \in [Handlers -> 0 .. RuleCount] /\ found' \in [Handlers -> SUBSET Prompts]
    BY <1>2, WaitsAssumption DEF Crash, Steps
  <2> QED BY <1>2, <2>1, <2>2, <2>3 DEF Crash, TypeOK
<1>3. CASE UNCHANGED vars
  BY <1>3 DEF vars, TypeOK, askVars, promptVars, handlerVars
<1> QED BY <1>1, <1>2, <1>3, AskStepType, PromptStepType, HandlerStepType DEF Next

-----------------------------------------------------------------------------
(* Calls that ask. *)

LEMMA AskStepSound ==
  ASSUME TypeOK, \A b \in Asks : AskSound(b), NEW a \in Asks, AskStep(a)
  PROVE  \A b \in Asks : AskSound(b)'
<1> SUFFICES ASSUME NEW b \in Asks PROVE AskSound(b)'
  OBVIOUS
<1>0. AskSound(a) /\ AskSound(b)
  OBVIOUS
<1>1. CASE Enter(a)
  BY <1>0, <1>1 DEF Enter, AskSound, IsSettled, TypeOK
<1>2. CASE Ask(a)
  BY <1>0, <1>2 DEF Ask, AskSound, IsSettled, TypeOK
<1>3. CASE AskFails(a)
  BY <1>0, <1>3 DEF AskFails, AskSound, IsSettled, TypeOK
<1>4. CASE Deadline(a) \/ AnswerFails(a)
  BY <1>0, <1>4, AskKept DEF Deadline, AnswerFails, askVars
<1>5. CASE Return(a)
  <2>1. CASE b # a
    BY <1>0, <1>5, <2>1, AskKept DEF Return, Settle, TypeOK
  <2>2. CASE b = a /\ IsSettled(a)
    BY <1>0, <1>5, <2>2, FirstResolution DEF Return, AskSound, IsSettled, TypeOK
  <2>3. CASE b = a /\ ~IsSettled(a)
    <3>1. Expiry \in Settled /\ resolved[a] = <<>>
      BY <1>0, <1>5, <2>3 DEF Return, AskSound, Expiry, Settled
    <3>2. phase'[a] = "returned" /\ resolved'[a] = <<Expiry>> /\ result'[a] = Expiry
          /\ a \notin pending' /\ accepted' = accepted
      BY <1>5, <2>3, <3>1, FirstResolution DEF Return, Settle, TypeOK
    <3>3. a \in Questions => \A x \in Answers : <<a, x>> \notin accepted
      BY <1>0, <3>1 DEF AskSound
    <3> QED BY <2>3, <3>1, <3>2, <3>3, FirstResolution DEF AskSound
  <2> QED BY <2>1, <2>2, <2>3
<1>6. CASE ReturnFails(a)
  BY <1>0, <1>6 DEF ReturnFails, AskSound, IsSettled, TypeOK
<1>7. ASSUME NEW r \in Settled, a \in pending, ~IsSettled(a), Settle(a, r),
             UNCHANGED <<phase, pending, result>>,
             accepted' = accepted \/ (r \in Answers /\ accepted' = accepted \cup {<<a, r>>})
      PROVE  AskSound(b)'
  <2>1. CASE b # a
    BY <1>0, <1>7, <2>1, AskKept DEF Settle, TypeOK
  <2>2. CASE b = a
    <3>1. phase[a] = "waiting" /\ resolved[a] = <<>>
      BY <1>0, <1>7 DEF AskSound
    <3>2. resolved'[a] = <<r>> /\ resolution'[a] = r
      BY <1>7, <3>1, FirstResolution DEF Settle, TypeOK
    <3>3. a \in Questions => \A x \in Answers : <<a, x>> \notin accepted
      BY <1>0, <3>1 DEF AskSound
    <3> QED BY <1>7, <2>2, <3>1, <3>2, <3>3, FirstResolution DEF AskSound, IsSettled
  <2> QED BY <2>1, <2>2
<1>8. CASE AnswerLate(a)
  BY <1>7, <1>8 DEF AnswerLate, Expiry, Settled
<1>9. ASSUME NEW x \in Answers, Answer(a, x) PROVE AskSound(b)'
  BY <1>7, <1>9 DEF Answer, Reply, Settled
<1>10. ASSUME NEW x \in Answers, AnswerAgain(a, x) PROVE AskSound(b)'
  BY <1>0, <1>10 DEF AnswerAgain, Reply, AskSound, IsSettled
<1>11. ASSUME NEW x \in Answers, ToolAnswerAgain(a, x) PROVE AskSound(b)'
  BY <1>0, <1>11, WaitsAssumption DEF ToolAnswerAgain, Reply, AskSound, IsSettled
<1> QED BY <1>1, <1>2, <1>3, <1>4, <1>5, <1>6, <1>8, <1>9, <1>10, <1>11 DEF AskStep

LEMMA NextAsks ==
  ASSUME TypeOK, \A b \in Asks : AskSound(b), [Next]_vars
  PROVE  \A b \in Asks : AskSound(b)'
<1>1. CASE UNCHANGED askVars
  BY <1>1, AskKept DEF askVars
<1>2. CASE Crash
  BY <1>2 DEF Crash, AskSound, IsSettled, TypeOK, Phases
<1>3. ASSUME NEW p \in Prompts, PromptStep(p) PROVE UNCHANGED askVars
  BY <1>3 DEF PromptStep, Gate, Register, RegisterFails, Receive, StopWaiting, Grant,
    StopSubagent
<1>4. ASSUME NEW h \in Handlers, HandlerStep(h) PROVE UNCHANGED askVars
  BY <1>4 DEF HandlerStep, StoreRule, StoreNothing, StoreFails, Reopen, Send, Snapshot,
    Release, SettleDone, SettleNext, Claim
<1> QED BY <1>1, <1>2, <1>3, <1>4, AskStepSound DEF Next, CancelRun, EndRun, vars

-----------------------------------------------------------------------------
(* Prompts and handlers. *)

(* What the steps of prompts and handlers preserve. *)
PromptInv ==
  /\ GrantCoversAll
  /\ \A p \in Prompts : PromptSound(p)
  /\ \A h \in Handlers : HandlerSound(h)

LEMMA PromptStepSound ==
  ASSUME TypeOK, PromptInv, NEW p \in Prompts, PromptStep(p)
  PROVE  PromptInv'
<1> DEFINE Others == \A q \in Prompts \ {p} : PromptSound(q)'
           HandlersKept == \A h \in Handlers : HandlerSound(h)'
<1>0. /\ UNCHANGED <<step, holds, choice, stored>>
      /\ PromptSound(p)
      /\ \A h \in Handlers : holds[h] # None => holds[h] \in Prompts
  BY DEF PromptInv, TypeOK, PromptStep, Gate, Register, RegisterFails, Receive, StopWaiting,
    Grant, StopSubagent, handlerVars
<1>1. ASSUME UNCHANGED kept,
             \A q \in Prompts \ {p} : stage'[q] = stage[q] /\ decision'[q] = decision[q],
             \A h \in Handlers : holds[h] # p
      PROVE  HandlersKept
  BY <1>0, <1>1, HandlerKept DEF PromptInv, HandlerSound, Registered
<1>2. ASSUME stage[p] \in {"idle", "gated"} PROVE \A h \in Handlers : holds[h] # p
  BY <1>2, WaitsAssumption DEF PromptInv, HandlerSound, Registered
<1>3. ASSUME open' \subseteq open \cup {p}, UNCHANGED kept,
             \A q \in Prompts \ {p} : /\ stage'[q] = stage[q] /\ decision'[q] = decision[q]
                                      /\ inbox'[q] = inbox[q]
      PROVE  Others
  BY <1>0, <1>3, PromptKept DEF PromptInv
<1>4. CASE Gate(p)
  <2>1. Others /\ HandlersKept
    BY <1>1, <1>2, <1>3, <1>4 DEF Gate, TypeOK
  <2>2. PromptSound(p)'
    BY <1>0, <1>2, <1>4, WaitsAssumption DEF Gate, TypeOK, PromptSound, Registered
  <2>3. GrantCoversAll'
    BY <1>4 DEF Gate, PromptInv, GrantCoversAll
  <2> QED BY <2>1, <2>2, <2>3 DEF PromptInv
<1>5. CASE Register(p)
  <2>1. Others /\ HandlersKept
    BY <1>1, <1>2, <1>3, <1>5 DEF Register, TypeOK
  <2>2. PromptSound(p)'
    BY <1>0, <1>2, <1>5, WaitsAssumption DEF Register, TypeOK, PromptSound, Registered
  <2>3. GrantCoversAll'
    BY <1>5 DEF Register, PromptInv, GrantCoversAll
  <2> QED BY <2>1, <2>2, <2>3 DEF PromptInv
<1>6. CASE RegisterFails(p)
  <2>1. Others /\ HandlersKept
    BY <1>1, <1>2, <1>3, <1>6 DEF RegisterFails, TypeOK
  <2>2. PromptSound(p)'
    BY <1>0, <1>2, <1>6, WaitsAssumption DEF RegisterFails, TypeOK, PromptSound, Registered
  <2>3. GrantCoversAll'
    BY <1>6 DEF RegisterFails, PromptInv, GrantCoversAll
  <2> QED BY <2>1, <2>2, <2>3 DEF PromptInv
<1>7. CASE Receive(p)
  <2>1. \A h \in Handlers : holds[h] # p
    BY <1>0, <1>7 DEF Receive, PromptSound
  <2>2. Others /\ HandlersKept
    BY <1>1, <1>3, <1>7, <2>1 DEF Receive, TypeOK
  <2>3. PromptSound(p)'
    BY <1>0, <1>7, <2>1, WaitsAssumption DEF Receive, TypeOK, PromptSound, Registered
  <2>4. GrantCoversAll'
    BY <1>7 DEF Receive, PromptInv, GrantCoversAll
  <2> QED BY <2>2, <2>3, <2>4 DEF PromptInv
<1>8. CASE StopWaiting(p)
  <2>1. Others
    BY <1>3, <1>8 DEF StopWaiting, TypeOK
  <2>2. PromptSound(p)'
    BY <1>0, <1>8 DEF StopWaiting, TypeOK, PromptSound, Registered
  <2>3. HandlersKept
    BY <1>0, <1>8, HandlerKept DEF StopWaiting, TypeOK, PromptInv, HandlerSound, Registered
  <2>4. GrantCoversAll'
    BY <1>8 DEF StopWaiting, PromptInv, GrantCoversAll
  <2> QED BY <2>1, <2>2, <2>3, <2>4 DEF PromptInv
<1>9. CASE Grant(p)
  <2>1. ASSUME NEW q \in Prompts PROVE PromptSound(q)'
    <3>1. PromptSound(q)
      BY DEF PromptInv
    <3> QED BY <1>0, <1>9, <3>1 DEF Grant, TypeOK, PromptSound, Registered
  <2>2. HandlersKept
    BY <1>0, <1>9, HandlerKept DEF Grant, TypeOK, PromptInv, HandlerSound, Registered
  <2>3. GrantCoversAll'
    BY <1>9 DEF Grant, GrantCoversAll
  <2> QED BY <2>1, <2>2, <2>3 DEF PromptInv
<1>10. CASE StopSubagent(p)
  <2>1. UNCHANGED <<promptVars, handlerVars>>
    BY <1>10 DEF StopSubagent
  <2>2. \A q \in Prompts : PromptSound(q)'
    BY <2>1, PromptKept DEF PromptInv, promptVars, handlerVars
  <2>3. HandlersKept
    BY <2>1, HandlerKept DEF PromptInv, HandlerSound, Registered, promptVars, handlerVars
  <2> QED BY <2>1, <2>2, <2>3 DEF PromptInv, GrantCoversAll, promptVars
<1> QED BY <1>4, <1>5, <1>6, <1>7, <1>8, <1>9, <1>10 DEF PromptStep

LEMMA HandlerStepSound ==
  ASSUME TypeOK, PromptInv, NEW h \in Handlers, HandlerStep(h)
  PROVE  PromptInv'
<1> DEFINE Others == \A g \in Handlers \ {h} : HandlerSound(g)'
           PromptsKept == \A p \in Prompts : PromptSound(p)'
<1>m. PICK mine : mine = holds[h]
  OBVIOUS
<1>0. /\ HandlerSound(h) /\ \A g \in Handlers : HandlerSound(g)
      /\ \A p \in Prompts : PromptSound(p)
      /\ \A g \in Handlers : holds[g] # None => holds[g] \in Prompts
      /\ None \notin Prompts
  BY WaitsAssumption DEF PromptInv, TypeOK
<1>1. ASSUME UNCHANGED <<stage, decision>>,
             \A g \in Handlers \ {h} :
               /\ step'[g] = step[g] /\ holds'[g] = holds[g]
               /\ choice'[g] = choice[g] /\ stored'[g] = stored[g]
               /\ holds[g] # None => holds'[h] # holds[g] /\ kept'[holds[g]] = kept[holds[g]]
      PROVE  Others
  <2> SUFFICES ASSUME NEW g \in Handlers \ {h} PROVE HandlerSound(g)'
    OBVIOUS
  <2>1. HandlerSound(g)
    BY <1>0
  <2>2. holds[g] # None => Registered(holds[g])' /\ \A k \in Handlers \ {g} : holds'[k] # holds[g]
    BY <1>m, <1>0, <1>1, <2>1 DEF HandlerSound, Registered
  <2> QED BY <1>1, <2>1, <2>2, HandlerKept
<1>2. ASSUME UNCHANGED <<stage, decision, kept, inbox>>, open' \subseteq open,
             \A g \in Handlers \ {h} : holds'[g] = holds[g],
             holds'[h] \in {holds[h], None}
      PROVE  PromptsKept
  BY <1>0, <1>2, PromptKept
<1>3. mine # None =>
        /\ mine \in Prompts /\ mine \notin open /\ inbox[mine] = None
        /\ Registered(mine) /\ decision[mine] \in {None, "cancelled"}
        /\ \A g \in Handlers \ {h} : holds[g] # mine
  BY <1>m, <1>0 DEF HandlerSound, PromptSound
<1>4. CASE StoreRule(h)
  <2>0. mine \in RuleCalls /\ mine # None
    BY <1>m, <1>0, <1>4 DEF StoreRule, HandlerSound
  <2>1. Others
    BY <1>m, <1>0, <1>1, <1>3, <1>4, <2>0 DEF StoreRule, TypeOK
  <2>2. PromptsKept
    <3>1. ASSUME NEW p \in Prompts, p # mine PROVE PromptSound(p)'
      BY <1>m, <1>0, <1>4, <3>1, PromptKept DEF StoreRule, TypeOK
    <3>2. PromptSound(mine)'
      BY <1>m, <1>0, <1>3, <1>4, <2>0, WaitsAssumption DEF StoreRule, PromptSound, Registered
    <3> QED BY <3>1, <3>2
  <2>3. HandlerSound(h)'
    <3>1. /\ holds' = holds /\ choice'[h] = "always" /\ UNCHANGED <<stage, decision>>
          /\ stored[h] < RuleCount /\ stored[h] \in Nat /\ kept[mine] \in Nat
          /\ kept[mine] < RuleCount
      BY <1>m, <1>0, <1>4, <2>0 DEF StoreRule, HandlerSound, TypeOK
    <3>2. /\ step'[h] = IF stored[h] + 1 = RuleCount THEN "ready" ELSE "claimed"
          /\ stored'[h] = stored[h] + 1
          /\ kept'[mine] = IF stored[h] + 1 > kept[mine] THEN stored[h] + 1 ELSE kept[mine]
      BY <1>m, <1>3, <1>4, <2>0 DEF StoreRule, TypeOK
    <3>3. stored'[h] \in Nat /\ stored'[h] <= RuleCount /\ kept'[mine] \in Nat
      BY <3>1, <3>2, WaitsAssumption
    <3>4. CASE stored[h] + 1 = RuleCount
      BY <1>m, <1>3, <2>0, <3>1, <3>2, <3>4 DEF HandlerSound, Registered
    <3>5. CASE stored[h] + 1 # RuleCount
      <4>1. step'[h] = "claimed" /\ stored'[h] < RuleCount /\ kept'[mine] < RuleCount
        BY <3>1, <3>2, <3>3, <3>5, WaitsAssumption
      <4> QED BY <1>m, <1>3, <2>0, <3>1, <4>1 DEF HandlerSound, Registered
    <3> QED BY <3>4, <3>5
  <2>4. GrantCoversAll'
    BY <1>4 DEF StoreRule, PromptInv, GrantCoversAll
  <2> QED BY <1>0, <2>1, <2>2, <2>3, <2>4 DEF PromptInv
<1>5. CASE StoreNothing(h) \/ StoreFails(h)
  <2>0. mine # None
    BY <1>m, <1>0, <1>5 DEF StoreNothing, StoreFails, HandlerSound
  <2>1. Others
    BY <1>m, <1>0, <1>1, <1>3, <1>5, <2>0 DEF StoreNothing, StoreFails, TypeOK, promptVars
  <2>2. PromptsKept
    BY <1>2, <1>5 DEF StoreNothing, StoreFails, promptVars
  <2>3. HandlerSound(h)'
    BY <1>m, <1>0, <1>5 DEF StoreNothing, StoreFails, TypeOK, HandlerSound, Registered, promptVars
  <2>4. GrantCoversAll'
    BY <1>5 DEF StoreNothing, StoreFails, PromptInv, GrantCoversAll, promptVars
  <2> QED BY <2>1, <2>2, <2>3, <2>4 DEF PromptInv
<1>6. CASE Reopen(h)
  <2>0. mine \in RuleCalls /\ mine # None /\ kept[mine] < RuleCount
    BY <1>m, <1>0, <1>6 DEF Reopen, HandlerSound
  <2>1. Others
    BY <1>m, <1>0, <1>1, <1>6 DEF Reopen, Answered, TypeOK
  <2>2. PromptsKept
    <3>1. ASSUME NEW p \in Prompts, p # mine PROVE PromptSound(p)'
      BY <1>m, <1>0, <1>6, <3>1, PromptKept DEF Reopen, TypeOK
    <3>2. \A g \in Handlers : holds'[g] # mine
      BY <1>m, <1>3, <1>6, <2>0 DEF Reopen, TypeOK
    <3>3. PromptSound(mine)'
      BY <1>m, <1>0, <1>3, <1>6, <2>0, <3>2, WaitsAssumption DEF Reopen, PromptSound, Registered
    <3> QED BY <3>1, <3>3
  <2>3. HandlerSound(h)'
    BY <1>6 DEF Reopen, Answered, TypeOK, HandlerSound
  <2>4. GrantCoversAll'
    BY <1>m, <1>6, <2>0, WaitsAssumption DEF Reopen, PromptInv, GrantCoversAll
  <2> QED BY <2>1, <2>2, <2>3, <2>4 DEF PromptInv
<1>7. CASE Send(h)
  <2>0. mine # None
    BY <1>m, <1>0, <1>7 DEF Send, HandlerSound
  <2>1. Others
    BY <1>m, <1>0, <1>1, <1>7 DEF Send, Answered, TypeOK
  <2>2. PromptsKept
    <3>1. ASSUME NEW p \in Prompts, p # mine PROVE PromptSound(p)'
      BY <1>m, <1>0, <1>7, <3>1, PromptKept DEF Send, TypeOK
    <3>2. \A g \in Handlers : holds'[g] # mine
      BY <1>m, <1>3, <1>7, <2>0 DEF Send, TypeOK
    <3>3. choice[h] = "reject" => kept[mine] < RuleCount
      BY <1>m, <1>0, <1>7 DEF Send, HandlerSound
    <3>4. PromptSound(mine)'
      BY <1>m, <1>0, <1>3, <1>7, <2>0, <3>2, <3>3, WaitsAssumption
         DEF Send, TypeOK, PromptSound, Registered
    <3> QED BY <3>1, <3>4
  <2>3. HandlerSound(h)'
    BY <1>m, <1>0, <1>7 DEF Send, Answered, TypeOK, HandlerSound
  <2>4. GrantCoversAll'
    BY <1>7 DEF Send, PromptInv, GrantCoversAll
  <2> QED BY <2>1, <2>2, <2>3, <2>4 DEF PromptInv
<1>8. CASE Snapshot(h) \/ SettleDone(h)
  <2>1. holds' = holds /\ UNCHANGED promptVars
    BY <1>8 DEF Snapshot, SettleDone
  <2>2. Others
    BY <1>m, <1>0, <1>1, <1>8, <2>1
       DEF Snapshot, SettleDone, Answered, TypeOK, HandlerSound, promptVars
  <2>3. PromptsKept
    BY <1>2, <2>1 DEF promptVars
  <2>4. HandlerSound(h)'
    BY <1>m, <1>0, <1>8, <2>1 DEF Snapshot, SettleDone, Answered, TypeOK, HandlerSound
  <2> QED BY <2>1, <2>2, <2>3, <2>4 DEF PromptInv, GrantCoversAll, promptVars
<1>9. CASE Release(h)
  <2>0. mine # None
    BY <1>m, <1>0, <1>9 DEF Release, HandlerSound
  <2>1. Others
    BY <1>m, <1>0, <1>1, <1>9 DEF Release, TypeOK
  <2>2. PromptsKept
    <3>1. ASSUME NEW p \in Prompts, p # mine PROVE PromptSound(p)'
      BY <1>m, <1>0, <1>9, <3>1, PromptKept DEF Release, TypeOK
    <3>2. \A g \in Handlers : holds'[g] # mine
      BY <1>m, <1>3, <1>9, <2>0 DEF Release, TypeOK
    <3>3. PromptSound(mine)'
      BY <1>m, <1>0, <1>3, <1>9, <2>0, <3>2, WaitsAssumption
         DEF Release, TypeOK, PromptSound, Registered
    <3> QED BY <3>1, <3>3
  <2>3. HandlerSound(h)'
    BY <1>m, <1>0, <1>9 DEF Release, TypeOK, HandlerSound
  <2>4. GrantCoversAll'
    BY <1>9 DEF Release, PromptInv, GrantCoversAll
  <2> QED BY <2>1, <2>2, <2>3, <2>4 DEF PromptInv
<1>10. ASSUME NEW p \in open, holds[h] = None, p \in Prompts,
              open' = open \ {p}, holds' = [holds EXCEPT ![h] = p],
              UNCHANGED <<stage, inbox, decision, allowAll, kept, stored>>,
              \A g \in Handlers \ {h} : step'[g] = step[g] /\ choice'[g] = choice[g],
              HandlerSound(h)'
       PROVE  PromptInv'
  <2>1. PromptSound(p)
    BY <1>m, <1>0, <1>10
  <2>2. Others
    BY <1>m, <1>0, <1>1, <1>10, <2>1 DEF TypeOK, PromptSound
  <2>3. ASSUME NEW q \in Prompts, q # p PROVE PromptSound(q)'
    BY <1>m, <1>0, <1>10, <2>3, PromptKept DEF TypeOK
  <2>4. PromptSound(p)'
    BY <1>10, <2>1 DEF PromptSound, Registered
  <2> QED BY <1>10, <2>2, <2>3, <2>4 DEF PromptInv, GrantCoversAll
<1>11. ASSUME NEW p \in open, p \in Prompts
       PROVE  /\ inbox[p] = None /\ kept[p] < RuleCount /\ Registered(p)
              /\ decision[p] \in {None, "cancelled"} /\ \A g \in Handlers : holds[g] # p
  BY <1>0, <1>11 DEF PromptSound
<1>12. ASSUME NEW p \in Prompts, SettleNext(h, p) PROVE PromptInv'
  <2>0. holds[h] = None
    BY <1>m, <1>0, <1>12 DEF SettleNext, HandlerSound
  <2>1. CASE Covered(p) /\ p \in open
    <3>1. HandlerSound(h)'
      BY <1>m, <1>0, <1>11, <1>12, <2>1 DEF SettleNext, TypeOK, HandlerSound, Registered
    <3> QED BY <1>10, <1>12, <2>0, <2>1, <3>1 DEF SettleNext, TypeOK
  <2>2. CASE ~(Covered(p) /\ p \in open)
    <3>1. UNCHANGED <<promptVars, step, holds, choice, stored>>
      BY <1>12, <2>2 DEF SettleNext, promptVars
    <3>2. Others /\ PromptsKept
      BY <1>m, <1>0, <1>1, <1>2, <3>1 DEF promptVars, HandlerSound
    <3>3. HandlerSound(h)'
      BY <1>0, <3>1 DEF HandlerSound, Registered, promptVars
    <3> QED BY <3>1, <3>2, <3>3 DEF PromptInv, GrantCoversAll, promptVars
  <2> QED BY <2>1, <2>2
<1>13. ASSUME NEW p \in Prompts, NEW c \in Choices, Claim(h, p, c) PROVE PromptInv'
  <2>0. holds[h] = None /\ p \in open /\ stored[h] = 0
    BY <1>m, <1>0, <1>13 DEF Claim, HandlerSound
  <2>1. HandlerSound(h)'
    BY <1>m, <1>0, <1>11, <1>13, <2>0, WaitsAssumption DEF Claim, TypeOK, HandlerSound, Registered
  <2> QED BY <1>10, <1>13, <2>0, <2>1 DEF Claim, TypeOK
<1> QED BY <1>4, <1>5, <1>6, <1>7, <1>8, <1>9, <1>12, <1>13 DEF HandlerStep

LEMMA NextPrompts ==
  ASSUME TypeOK, PromptInv, [Next]_vars
  PROVE  PromptInv'
<1>1. CASE UNCHANGED <<promptVars, handlerVars>>
  <2>1. \A p \in Prompts : PromptSound(p)'
    BY <1>1, PromptKept DEF PromptInv, promptVars, handlerVars
  <2>2. \A h \in Handlers : HandlerSound(h)'
    BY <1>1 DEF PromptInv, HandlerSound, Registered, promptVars, handlerVars
  <2> QED BY <1>1, <2>1, <2>2 DEF PromptInv, GrantCoversAll, promptVars
<1>2. CASE Crash
  <2>1. \A p \in Prompts : PromptSound(p)'
    BY <1>2, WaitsAssumption DEF Crash, PromptInv, PromptSound, Registered, TypeOK
  <2>2. \A h \in Handlers : HandlerSound(h)'
    BY <1>2 DEF Crash, HandlerSound
  <2> QED BY <1>2, <2>1, <2>2 DEF Crash, PromptInv, GrantCoversAll
<1>3. ASSUME NEW a \in Asks, AskStep(a) PROVE UNCHANGED <<promptVars, handlerVars>>
  BY <1>3 DEF AskStep, Enter, Ask, AskFails, Deadline, Return, ReturnFails, AnswerLate,
    AnswerFails, Answer, AnswerAgain, ToolAnswerAgain
<1> QED BY <1>1, <1>2, <1>3, PromptStepSound, HandlerStepSound
    DEF Next, CancelRun, EndRun, vars

-----------------------------------------------------------------------------
(* Theorems. *)

LEMMA InitInv == Init => IInv
<1> SUFFICES ASSUME Init PROVE IInv
  OBVIOUS
<1>1. \A a \in Asks : AskSound(a)
  BY WaitsAssumption DEF Init, AskSound, IsSettled
<1>2. \A p \in Prompts : PromptSound(p)
  BY WaitsAssumption DEF Init, PromptSound, Registered
<1>3. \A h \in Handlers : HandlerSound(h)
  BY WaitsAssumption DEF Init, HandlerSound
<1> QED BY <1>1, <1>2, <1>3, InitType DEF Init, IInv, GrantCoversAll

LEMMA NextInv == IInv /\ [Next]_vars => IInv'
<1> SUFFICES ASSUME IInv, [Next]_vars PROVE IInv'
  OBVIOUS
<1>1. TypeOK'
  BY NextType DEF IInv
<1>2. \A a \in Asks : AskSound(a)'
  BY NextAsks DEF IInv
<1>3. PromptInv'
  BY NextPrompts DEF IInv, PromptInv
<1> QED BY <1>1, <1>2, <1>3 DEF IInv, PromptInv

(* The inductive invariant: what is journaled of a call is what its waiter    *)
(* keeps, and every prompt is open, in one handler's hands, or decided.       *)
THEOREM InvariantHolds == Spec => []IInv
BY InitInv, NextInv, PTL DEF Spec

(* Every variable keeps a value of its kind. *)
THEOREM TypeCorrect == Spec => []TypeOK
<1>1. IInv => TypeOK
  BY DEF IInv
<1> QED BY <1>1, InvariantHolds, PTL

(* A question is resolved once, its tool returns what the journal says, and   *)
(* so does whatever a client was told is accepted (questions.go); one answer  *)
(* decides a prompt, and a rejected prompt has not remembered its whole       *)
(* suggestion (Server.permission, settleCoveredPermissions).                  *)
THEOREM EveryAnswerCounts == Spec => []AnswersCount
<1>1. IInv => AcceptedIsReturned
  BY DEF IInv, AskSound, AcceptedIsReturned, Asks
<1>2. IInv => OneAnswerWins
  BY DEF IInv, TypeOK, PromptSound, HandlerSound, OneAnswerWins
<1>3. IInv => AnswersCount
  BY <1>1, <1>2 DEF AnswersCount
<1> QED BY <1>3, InvariantHolds, PTL

(* Once the computer is allowed no computer call is left waiting for the user *)
(* (Server.waitPermission).                                                   *)
THEOREM GrantsCoverAll == Spec => []GrantCoversAll
<1>1. IInv => GrantCoversAll
  BY DEF IInv
<1> QED BY <1>1, InvariantHolds, PTL
=============================================================================
