------------------------ MODULE SessionTurns_proofs ------------------------
(***************************************************************************)
(* Theorems of SessionTurns, for every number of notices, goal texts and   *)
(* goroutines and every limit.  IInv is shown inductive group by group.    *)
(***************************************************************************)
EXTENDS SessionTurns, TLAPS, FiniteSetTheorems

(* Records with some fields written. *)
LEMMA RunFields ==
  ASSUME NEW v \in Run
  PROVE  /\ \A p \in Phase : [v EXCEPT !.phase = p] \in Run
         /\ [v EXCEPT !.cancelled = TRUE] \in Run
         /\ \A k \in Kind, a \in Texts \cup {None} :
              [v EXCEPT !.phase = "accepted", !.kind = k, !.asked = a] \in Run
         /\ \A x \in Nonces \cup {None}, n \in Nat :
              [v EXCEPT !.phase = "check", !.nonce = x, !.round = n] \in Run
         /\ \A t \in Texts \cup {None}, n \in Nat :
              [v EXCEPT !.phase = "start", !.text = t, !.revision = n] \in Run
         /\ \A n \in 0..BusyRetries : [v EXCEPT !.phase = "check", !.attempt = n] \in Run
BY ZenonT(60) DEF Run, Phase

LEMMA NoRunType == NoRun \in Run
BY LimitAssumption DEF NoRun, Run, Phase, Kind

LEMMA GoalFields ==
  ASSUME NEW g \in Goal
  PROVE  /\ \A t \in Texts, x \in Nonces, r \in Runs :
              [g EXCEPT !.text = t, !.status = "active", !.nonce = x, !.roundRun = r] \in Goal
         /\ \A r \in Runs, n \in Nat :
              [g EXCEPT !.status = "active", !.awaiting = FALSE,
                        !.roundRun = r, !.runRevision = n] \in Goal
         /\ [g EXCEPT !.status = "paused", !.awaiting = FALSE, !.next = None] \in Goal
         /\ \A b \in BOOLEAN : [g EXCEPT !.status = "paused", !.awaiting = b] \in Goal
         /\ [g EXCEPT !.status = "met"] \in Goal
         /\ \A t \in Texts, n \in Nat : [g EXCEPT !.text = t, !.revision = n] \in Goal
         /\ \A t \in Texts \cup {None}, s \in {"none", "paused"} :
              [g EXCEPT !.text = t, !.status = s] \in Goal
         /\ \A r \in Runs \cup {None}, n \in Nat :
              [g EXCEPT !.round = n, !.next = r] \in Goal
         /\ [g EXCEPT !.next = None] \in Goal
         /\ \A r \in Runs, n \in Nat :
              [g EXCEPT !.runRevision = n, !.roundRun = r] \in Goal
         /\ \A r \in Runs \cup {None} : [g EXCEPT !.roundRun = r] \in Goal
BY ZenonT(60) DEF Goal

LEMMA NoGoalType == NoGoal \in Goal
BY DEF NoGoal, Goal

LEMMA WakeFields ==
  ASSUME NEW w \in Wake
  PROVE  /\ \A S \in SUBSET Notices : [w EXCEPT !.texts = S] \in Wake
         /\ \A n \in Int : [w EXCEPT !.streak = n, !.held = FALSE, !.current = FALSE] \in Wake
         /\ \A b \in BOOLEAN : [w EXCEPT !.held = b] \in Wake
         /\ \A n \in Int :
              [w EXCEPT !.texts = {}, !.dispatching = TRUE, !.streak = n] \in Wake
         /\ [w EXCEPT !.dispatching = FALSE, !.current = TRUE] \in Wake
         /\ \A n \in Int : [w EXCEPT !.dispatching = FALSE, !.streak = n] \in Wake
         /\ \A n \in Int, S \in SUBSET Notices :
              [w EXCEPT !.dispatching = FALSE, !.streak = n, !.texts = S] \in Wake
         /\ [w EXCEPT !.held = TRUE, !.texts = {}] \in Wake
BY ZenonT(60) DEF Wake

LEMMA NoWakeType == NoWake \in Wake
BY DEF NoWake, Wake

-----------------------------------------------------------------------------
(* What a step does to the goroutines. *)

Same(q) == run'[q] = run[q]

LEMMA BeginFacts ==
  ASSUME TypeOK, NEW r \in Runs, NEW k \in Kind, NEW a \in Texts \cup {None},
         Begin(r, k, a)
  PROVE  /\ run' \in [Runs -> Run] /\ active' = r
         /\ run[r].phase = "none" /\ run'[r].phase = "accepted"
         /\ run'[r].kind = k /\ run'[r].asked = a /\ ~run'[r].cancelled
         /\ \A q \in Runs : q # r => Same(q)
<1>1. [NoRun EXCEPT !.phase = "accepted", !.kind = k, !.asked = a] \in Run
  BY NoRunType, RunFields
<1> QED BY <1>1 DEF Begin, TypeOK, NoRun, Same

LEMMA MoveFacts ==
  ASSUME TypeOK, NEW r \in Runs, NEW p \in Phase, run' = Moves(r, p)
  PROVE  /\ run' \in [Runs -> Run] /\ run'[r].phase = p
         /\ run'[r].kind = run[r].kind /\ run'[r].asked = run[r].asked
         /\ run'[r].cancelled <=> run[r].cancelled
         /\ run'[r].nonce = run[r].nonce /\ run'[r].round = run[r].round
         /\ run'[r].revision = run[r].revision /\ run'[r].text = run[r].text
         /\ \A q \in Runs : q # r => Same(q)
<1>1. run[r] \in Run
  BY DEF TypeOK
<1>2. [run[r] EXCEPT !.phase = p] \in Run
  BY <1>1, RunFields
<1>3. run' \in [Runs -> Run] /\ run'[r] = [run[r] EXCEPT !.phase = p]
      /\ \A q \in Runs : q # r => Same(q)
  BY <1>2 DEF TypeOK, Moves, Same
<1> QED BY <1>1, <1>3 DEF Run

LEMMA LeaveFacts ==
  ASSUME TypeOK, NEW r \in Runs, run' = Leaves(r)
  PROVE  /\ run' \in [Runs -> Run] /\ run'[r].phase = "dispatch"
         /\ run'[r].kind = "none" /\ run'[r].asked = None /\ ~run'[r].cancelled
         /\ \A q \in Runs : q # r => Same(q)
<1>1. [NoRun EXCEPT !.phase = "dispatch"] \in Run
  BY NoRunType, RunFields DEF Phase
<1> QED BY <1>1 DEF TypeOK, Leaves, NoRun, Same

LEMMA EndFacts ==
  ASSUME TypeOK, NEW r \in Runs, run' = [run EXCEPT ![r] = NoRun]
  PROVE  /\ run' \in [Runs -> Run] /\ run'[r] = NoRun
         /\ \A q \in Runs : q # r => Same(q)
BY NoRunType DEF TypeOK, Same

LEMMA CancelFacts ==
  ASSUME TypeOK, NEW r \in Runs, run' = Cancelled(r)
  PROVE  /\ run' \in [Runs -> Run] /\ run'[r].cancelled
         /\ \A q \in Runs : /\ run'[q].phase = run[q].phase
                            /\ run'[q].kind = run[q].kind /\ run'[q].asked = run[q].asked
                            /\ run'[q].nonce = run[q].nonce /\ run'[q].round = run[q].round
                            /\ run'[q].revision = run[q].revision
                            /\ run'[q].text = run[q].text
         /\ \A q \in Runs : q # r => Same(q)
<1>1. run[r] \in Run
  BY DEF TypeOK
<1>2. [run[r] EXCEPT !.cancelled = TRUE] \in Run
  BY <1>1, RunFields
<1>3. run' \in [Runs -> Run] /\ run'[r] = [run[r] EXCEPT !.cancelled = TRUE]
      /\ \A q \in Runs : q # r => Same(q)
  BY <1>2 DEF TypeOK, Cancelled, Same
<1>4. /\ run'[r].cancelled /\ run'[r].phase = run[r].phase
      /\ run'[r].kind = run[r].kind /\ run'[r].asked = run[r].asked
      /\ run'[r].nonce = run[r].nonce /\ run'[r].round = run[r].round
      /\ run'[r].revision = run[r].revision /\ run'[r].text = run[r].text
  BY <1>1, <1>3 DEF Run
<1> QED BY <1>3, <1>4 DEF Same

LEMMA TakeFacts ==
  ASSUME TypeOK, NEW r \in Runs, TakeRound(r), goal.next = r
  PROVE  /\ run' \in [Runs -> Run] /\ run'[r].phase = "check"
         /\ run'[r].nonce = goal.nonce /\ run'[r].round = goal.round
         /\ run'[r].kind = "none" /\ run'[r].asked = None /\ ~run'[r].cancelled
         /\ \A q \in Runs : q # r => Same(q)
<1> DEFINE v == [NoRun EXCEPT !.phase = "check", !.nonce = goal.nonce, !.round = goal.round]
<1>1. goal.nonce \in Nonces \cup {None} /\ goal.round \in Nat
  BY DEF TypeOK, Goal
<1>2. v \in Run
  BY <1>1, NoRunType, RunFields
<1>3. v.phase = "check" /\ v.nonce = goal.nonce /\ v.round = goal.round
      /\ v.kind = "none" /\ v.asked = None /\ ~v.cancelled
  BY DEF NoRun
<1>4. run' = [run EXCEPT ![r] = v]
  BY DEF TakeRound
<1> HIDE DEF v
<1> QED BY <1>2, <1>3, <1>4 DEF TypeOK, Same

LEMMA BuildFacts ==
  ASSUME TypeOK, NEW r \in Runs, BuildRound(r), ~Moved(r)
  PROVE  /\ run' \in [Runs -> Run] /\ run'[r].phase = "start"
         /\ run'[r].nonce = run[r].nonce /\ run'[r].round = run[r].round
         /\ run'[r].text = goal.text /\ run'[r].revision = goal.revision
         /\ run'[r].kind = run[r].kind /\ run'[r].asked = run[r].asked
         /\ run'[r].cancelled <=> run[r].cancelled
         /\ \A q \in Runs : q # r => Same(q)
<1> DEFINE v == [run[r] EXCEPT !.phase = "start", !.text = goal.text,
                               !.revision = goal.revision]
<1>1. goal.text \in Texts \cup {None} /\ goal.revision \in Nat /\ run[r] \in Run
  BY DEF TypeOK, Goal
<1>2. v \in Run
  BY <1>1, RunFields
<1>3. /\ v.phase = "start" /\ v.nonce = run[r].nonce /\ v.round = run[r].round
      /\ v.text = goal.text /\ v.revision = goal.revision
      /\ v.kind = run[r].kind /\ v.asked = run[r].asked
      /\ v.cancelled <=> run[r].cancelled
  BY <1>1 DEF Run
<1>4. run' = [run EXCEPT ![r] = v]
  BY DEF BuildRound
<1> HIDE DEF v
<1> QED BY <1>2, <1>3, <1>4 DEF TypeOK, Same

LEMMA RetryFacts ==
  ASSUME TypeOK, NEW r \in Runs, RoundRetries(r)
  PROVE  /\ run' \in [Runs -> Run] /\ run'[r].phase = "check"
         /\ run'[r].nonce = run[r].nonce /\ run'[r].round = run[r].round
         /\ run'[r].kind = run[r].kind /\ run'[r].asked = run[r].asked
         /\ run'[r].cancelled <=> run[r].cancelled
         /\ \A q \in Runs : q # r => Same(q)
<1> DEFINE n == run[r].attempt + 1
           v == [run[r] EXCEPT !.phase = "check", !.attempt = n]
<1>1. run[r] \in Run /\ n \in 0..BusyRetries
  BY LimitAssumption DEF TypeOK, Run, RoundRetries
<1>2. v \in Run
  BY <1>1, RunFields
<1>3. /\ v.phase = "check" /\ v.nonce = run[r].nonce /\ v.round = run[r].round
      /\ v.kind = run[r].kind /\ v.asked = run[r].asked
      /\ v.cancelled <=> run[r].cancelled
  BY <1>1 DEF Run
<1>4. run' = [run EXCEPT ![r] = v]
  BY DEF RoundRetries
<1> HIDE DEF v, n
<1> QED BY <1>2, <1>3, <1>4 DEF TypeOK, Same

LEMMA RoundFacts ==
  ASSUME TypeOK, NEW r \in Runs, NEW q \in Runs, RoundAccepted(r, q)
  PROVE  /\ run' \in [Runs -> Run] /\ active' = q /\ r # q
         /\ run[q].phase = "none" /\ run'[q].phase = "accepted"
         /\ run'[q].kind = "goal" /\ run'[q].asked = run[r].text
         /\ run'[r].phase = "dispatch"
         /\ run'[r].kind = "none" /\ run'[r].asked = None
         /\ ~run'[r].cancelled /\ ~run'[q].cancelled
         /\ \A s \in Runs : s \notin {r, q} => Same(s)
<1> DEFINE v == [NoRun EXCEPT !.phase = "accepted", !.kind = "goal", !.asked = run[r].text]
           w == [NoRun EXCEPT !.phase = "dispatch"]
<1>1. run[r].text \in Texts \cup {None}
  BY DEF TypeOK, Run
<1>2. v \in Run /\ w \in Run
  BY <1>1, NoRunType, RunFields DEF Kind, Phase
<1>3. /\ v.phase = "accepted" /\ v.kind = "goal" /\ v.asked = run[r].text /\ ~v.cancelled
      /\ w.phase = "dispatch" /\ w.kind = "none" /\ w.asked = None /\ ~w.cancelled
  BY DEF NoRun
<1>4. run' = [run EXCEPT ![q] = v, ![r] = w] /\ r # q
  BY DEF RoundAccepted
<1> HIDE DEF v, w
<1> QED BY <1>2, <1>3, <1>4 DEF TypeOK, Same, RoundAccepted

-----------------------------------------------------------------------------
(* What a step does to the notices. *)

LEMMA KeptType ==
  ASSUME TypeOK, NEW S \in SUBSET Notices, NEW k \in Kept(S)
  PROVE  k \in SUBSET (wake.texts \cup S) /\ k \in SUBSET Notices
<1>1. wake.texts \in SUBSET Notices
  BY DEF TypeOK, Wake
<1> QED BY <1>1 DEF Kept

LEMMA QueueType ==
  ASSUME TypeOK, NEW S \in SUBSET Notices, QueueWakes(S)
  PROVE  /\ wake' \in Wake /\ settled' \in SUBSET Notices /\ kicks' \in 0..MaxKicks
         /\ wake'.texts \in SUBSET (wake.texts \cup S)
         /\ settled' = (settled \ S) \cup ((wake.texts \cup S) \ wake'.texts)
         /\ wake'.dispatching <=> wake.dispatching
         /\ wake'.streak = wake.streak
<1>0. wake \in Wake /\ settled \in SUBSET Notices /\ kicks \in 0..MaxKicks
  BY DEF TypeOK
<1>1. PICK k \in Kept(S) : /\ wake' = [wake EXCEPT !.texts = k]
                           /\ settled' = (settled \ S) \cup ((wake.texts \cup S) \ k)
  BY DEF QueueWakes
<1>2. k \in SUBSET (wake.texts \cup S) /\ k \in SUBSET Notices
  BY KeptType
<1>3. wake' \in Wake
  BY <1>0, <1>1, <1>2, WakeFields
<1>4. wake'.texts = k /\ (wake'.dispatching <=> wake.dispatching) /\ wake'.streak = wake.streak
  BY <1>0, <1>1 DEF Wake
<1>5. kicks' \in 0..MaxKicks
  BY <1>0, BoundAssumption DEF QueueWakes, AtMostKicks
<1>6. wake.texts \in SUBSET Notices
  BY <1>0 DEF Wake
<1> HIDE DEF QueueWakes
<1> QED BY <1>0, <1>1, <1>2, <1>3, <1>4, <1>5, <1>6

LEMMA DispatchType ==
  ASSUME TypeOK, NEW idle \in BOOLEAN, DispatchWakes(idle)
  PROVE  /\ wake' \in Wake /\ settled' \in SUBSET Notices
         /\ flight' \in SUBSET Notices /\ overlooked' \in BOOLEAN
<1>0. wake \in Wake /\ wake.texts \in SUBSET Notices /\ wake.streak \in Int
  BY DEF TypeOK, Wake
<1>1. CASE gone /\ wake' = [wake EXCEPT !.texts = {}]
           /\ settled' = settled \cup wake.texts /\ flight' = flight
  BY <1>0, <1>1, WakeFields DEF TypeOK, DispatchWakes
<1>2. CASE UNCHANGED <<wake, settled, flight>>
  BY <1>2 DEF TypeOK, DispatchWakes
<1>3. CASE wake' = [wake EXCEPT !.held = TRUE] /\ UNCHANGED <<settled, flight>>
  BY <1>0, <1>3, WakeFields DEF TypeOK, DispatchWakes
<1>4. CASE /\ flight' = wake.texts /\ UNCHANGED settled
           /\ wake' = [wake EXCEPT !.texts = {}, !.dispatching = TRUE, !.streak = @ + 1]
  <2>1. wake' = [wake EXCEPT !.texts = {}, !.dispatching = TRUE, !.streak = wake.streak + 1]
    BY <1>4
  <2>2. wake.streak + 1 \in Int
    BY <1>0
  <2>3. [wake EXCEPT !.texts = {}, !.dispatching = TRUE, !.streak = wake.streak + 1] \in Wake
    BY <2>2, <1>0, WakeFields, Zenon
  <2> QED BY <1>0, <1>4, <2>1, <2>3 DEF TypeOK, DispatchWakes
<1> QED BY <1>1, <1>2, <1>3, <1>4 DEF DispatchWakes

(* An acceptance, and the other changes of rt.wake. *)
LEMMA OtherFacts ==
  ASSUME TypeOK, wake' = Other(wake)
  PROVE  /\ wake' \in Wake /\ wake'.texts = wake.texts /\ wake'.streak = 0
         /\ wake'.dispatching <=> wake.dispatching
<1>1. wake \in Wake /\ 0 \in Int
  BY DEF TypeOK
<1>2. [wake EXCEPT !.streak = 0, !.held = FALSE, !.current = FALSE] \in Wake
  BY <1>1, WakeFields, Zenon
<1> QED BY <1>1, <1>2 DEF Other, Wake

LEMMA OwnFacts ==
  ASSUME TypeOK, wake' = Own(wake)
  PROVE  /\ wake' \in Wake /\ wake'.texts = wake.texts
         /\ wake'.streak = wake.streak /\ ~wake'.dispatching
<1>1. wake \in Wake /\ 0 \in Int
  BY DEF TypeOK
<1>2. [wake EXCEPT !.dispatching = FALSE, !.current = TRUE] \in Wake
  BY <1>1, WakeFields, Zenon
<1> QED BY <1>1, <1>2 DEF Own, Wake

LEMMA PutBackFacts ==
  ASSUME TypeOK, wake' = PutBack(wake)
  PROVE  /\ wake' \in Wake /\ wake'.texts = flight \cup wake.texts
         /\ wake'.streak = wake.streak - 1 /\ ~wake'.dispatching
<1> DEFINE S == flight \cup wake.texts
           n == wake.streak - 1
<1>1. wake \in Wake /\ S \in SUBSET Notices /\ n \in Int
  BY DEF TypeOK, Wake
<1>2. wake' = [wake EXCEPT !.dispatching = FALSE, !.streak = n, !.texts = S]
  BY DEF PutBack
<1> HIDE DEF S, n
<1>3. [wake EXCEPT !.dispatching = FALSE, !.streak = n, !.texts = S] \in Wake
  BY <1>1, WakeFields, Zenon
<1>4. wake'.texts = S /\ wake'.streak = n /\ ~wake'.dispatching
  BY <1>1, <1>2 DEF Wake
<1> QED BY <1>2, <1>3, <1>4 DEF S, n

LEMMA DropFacts ==
  ASSUME TypeOK, wake' = [wake EXCEPT !.dispatching = FALSE, !.streak = @ - 1]
  PROVE  /\ wake' \in Wake /\ wake'.texts = wake.texts
         /\ wake'.streak = wake.streak - 1 /\ ~wake'.dispatching
<1> DEFINE n == wake.streak - 1
<1>1. wake \in Wake /\ n \in Int
  BY DEF TypeOK, Wake
<1>2. wake' = [wake EXCEPT !.dispatching = FALSE, !.streak = n]
  OBVIOUS
<1> HIDE DEF n
<1>3. wake' \in Wake
  BY <1>1, <1>2, WakeFields
<1>4. wake'.texts = wake.texts /\ wake'.streak = n /\ ~wake'.dispatching
  BY <1>1, <1>2 DEF Wake
<1> QED BY <1>3, <1>4 DEF n

LEMMA HoldFacts ==
  ASSUME TypeOK, wake' = [wake EXCEPT !.held = TRUE, !.texts = {}]
  PROVE  /\ wake' \in Wake /\ wake'.texts = {}
         /\ wake'.streak = wake.streak /\ (wake'.dispatching <=> wake.dispatching)
<1>1. wake \in Wake
  BY DEF TypeOK
<1>2. [wake EXCEPT !.held = TRUE, !.texts = {}] \in Wake
  BY <1>1, WakeFields, Zenon
<1> QED BY <1>1, <1>2 DEF Wake

LEMMA MarkFacts ==
  ASSUME TypeOK, wake' = [wake EXCEPT !.held = @ \/ wake.current]
  PROVE  /\ wake' \in Wake /\ wake'.texts = wake.texts
         /\ wake'.streak = wake.streak /\ (wake'.dispatching <=> wake.dispatching)
<1> DEFINE b == wake.held \/ wake.current
<1>1. wake \in Wake /\ b \in BOOLEAN
  BY DEF TypeOK, Wake
<1>2. wake' = [wake EXCEPT !.held = b]
  OBVIOUS
<1> HIDE DEF b
<1>3. [wake EXCEPT !.held = b] \in Wake
  BY <1>1, WakeFields, Zenon
<1> QED BY <1>1, <1>2, <1>3 DEF Wake

-----------------------------------------------------------------------------
(* What a step does to the goal. *)

LEMMA GoalTypes ==
  ASSUME TypeOK
  PROVE  /\ goal \in Goal /\ goal.text \in Texts \cup {None} /\ goal.round \in Nat
         /\ goal.nonce \in Nonces \cup {None} /\ goal.revision \in Nat
         /\ goal.runRevision \in Nat /\ goal.roundRun \in Runs \cup {None}
         /\ goal.next \in Runs \cup {None} /\ goal.awaiting \in BOOLEAN
BY DEF TypeOK, Goal

LEMMA AnswerFacts ==
  ASSUME TypeOK, NEW r \in Runs, goal' = [goal EXCEPT !.status = "active", !.awaiting = FALSE, !.roundRun = r, !.runRevision = goal.revision]
  PROVE  /\ goal' \in Goal
         /\ goal'.text = goal.text
         /\ goal'.status = "active"
         /\ ~goal'.awaiting
         /\ goal'.round = goal.round
         /\ goal'.nonce = goal.nonce
         /\ goal'.revision = goal.revision
         /\ goal'.runRevision = goal.revision
         /\ goal'.roundRun = r
         /\ goal'.next = goal.next
<1>1. goal \in Goal
  BY DEF TypeOK
<1>2. [goal EXCEPT !.status = "active", !.awaiting = FALSE, !.roundRun = r, !.runRevision = goal.revision] \in Goal
  BY GoalTypes, GoalFields, Zenon
<1> QED BY <1>1, <1>2 DEF Goal

LEMMA NewGoalFacts ==
  ASSUME TypeOK, NEW t \in Texts, NEW x \in Nonces, NEW r \in Runs, goal' = NewGoal(t, x, r)
  PROVE  /\ goal' \in Goal
         /\ goal'.text = t
         /\ goal'.status = "active"
         /\ ~goal'.awaiting
         /\ goal'.round = 0
         /\ goal'.nonce = x
         /\ goal'.revision = 0
         /\ goal'.runRevision = 0
         /\ goal'.roundRun = r
         /\ goal'.next = None
<1>1. goal \in Goal
  BY DEF TypeOK
<1>2. NewGoal(t, x, r) \in Goal
  BY DEF NewGoal, NoGoal, Goal
<1> QED BY <1>1, <1>2 DEF Goal, NewGoal, NoGoal

LEMMA PauseFacts ==
  ASSUME TypeOK, goal' = [goal EXCEPT !.status = "paused", !.awaiting = FALSE, !.next = None]
  PROVE  /\ goal' \in Goal
         /\ goal'.text = goal.text
         /\ goal'.status = "paused"
         /\ ~goal'.awaiting
         /\ goal'.round = goal.round
         /\ goal'.nonce = goal.nonce
         /\ goal'.revision = goal.revision
         /\ goal'.runRevision = goal.runRevision
         /\ goal'.roundRun = goal.roundRun
         /\ goal'.next = None
<1>1. goal \in Goal
  BY DEF TypeOK
<1>2. [goal EXCEPT !.status = "paused", !.awaiting = FALSE, !.next = None] \in Goal
  BY GoalTypes, GoalFields, Zenon
<1> QED BY <1>1, <1>2 DEF Goal

LEMMA NotDoneFacts ==
  ASSUME TypeOK, goal' = NotDone
  PROVE  /\ goal' \in Goal
         /\ goal'.text = goal.text
         /\ goal'.status = "paused"
         /\ ~goal'.awaiting
         /\ goal'.round = goal.round
         /\ goal'.nonce = goal.nonce
         /\ goal'.revision = goal.revision
         /\ goal'.runRevision = goal.runRevision
         /\ goal'.roundRun = goal.roundRun
         /\ goal'.next = goal.next
<1>1. goal \in Goal
  BY DEF TypeOK
<1>2. NotDone \in Goal
  BY GoalTypes, GoalFields, Zenon DEF NotDone
<1> QED BY <1>1, <1>2 DEF Goal, NotDone

LEMMA NeedsInputFacts ==
  ASSUME TypeOK, goal' = NeedsInput
  PROVE  /\ goal' \in Goal
         /\ goal'.text = goal.text
         /\ goal'.status = "paused"
         /\ goal'.awaiting
         /\ goal'.round = goal.round
         /\ goal'.nonce = goal.nonce
         /\ goal'.revision = goal.revision
         /\ goal'.runRevision = goal.runRevision
         /\ goal'.roundRun = goal.roundRun
         /\ goal'.next = goal.next
<1>1. goal \in Goal
  BY DEF TypeOK
<1>2. NeedsInput \in Goal
  BY GoalTypes, GoalFields, Zenon DEF NeedsInput
<1> QED BY <1>1, <1>2 DEF Goal, NeedsInput

LEMMA MetFacts ==
  ASSUME TypeOK, goal' = Met
  PROVE  /\ goal' \in Goal
         /\ goal'.text = None
         /\ goal'.status = "met"
         /\ ~goal'.awaiting
         /\ goal'.round = 0
         /\ goal'.nonce = None
         /\ goal'.revision = 0
         /\ goal'.runRevision = 0
         /\ goal'.roundRun = None
         /\ goal'.next = None
<1>1. goal \in Goal
  BY DEF TypeOK
<1>2. Met \in Goal
  BY NoGoalType, GoalFields, Zenon DEF Met
<1> QED BY <1>1, <1>2 DEF Goal, Met, NoGoal

LEMMA UpdateFacts ==
  ASSUME TypeOK, NEW t \in Texts, NEW n \in Nat, goal' = [goal EXCEPT !.text = t, !.revision = n]
  PROVE  /\ goal' \in Goal
         /\ goal'.text = t
         /\ goal'.status = goal.status
         /\ goal'.awaiting <=> goal.awaiting
         /\ goal'.round = goal.round
         /\ goal'.nonce = goal.nonce
         /\ goal'.revision = n
         /\ goal'.runRevision = goal.runRevision
         /\ goal'.roundRun = goal.roundRun
         /\ goal'.next = goal.next
<1>1. goal \in Goal
  BY DEF TypeOK
<1>2. [goal EXCEPT !.text = t, !.revision = n] \in Goal
  BY GoalTypes, GoalFields, Zenon
<1> QED BY <1>1, <1>2 DEF Goal

LEMMA NextRoundFacts ==
  ASSUME TypeOK, NEW n \in Nat, NEW r \in Runs \cup {None}, goal' = [goal EXCEPT !.round = n, !.next = r]
  PROVE  /\ goal' \in Goal
         /\ goal'.text = goal.text
         /\ goal'.status = goal.status
         /\ goal'.awaiting <=> goal.awaiting
         /\ goal'.round = n
         /\ goal'.nonce = goal.nonce
         /\ goal'.revision = goal.revision
         /\ goal'.runRevision = goal.runRevision
         /\ goal'.roundRun = goal.roundRun
         /\ goal'.next = r
<1>1. goal \in Goal
  BY DEF TypeOK
<1>2. [goal EXCEPT !.round = n, !.next = r] \in Goal
  BY GoalTypes, GoalFields, Zenon
<1> QED BY <1>1, <1>2 DEF Goal

LEMMA TakenFacts ==
  ASSUME TypeOK, goal' = [goal EXCEPT !.next = None]
  PROVE  /\ goal' \in Goal
         /\ goal'.text = goal.text
         /\ goal'.status = goal.status
         /\ goal'.awaiting <=> goal.awaiting
         /\ goal'.round = goal.round
         /\ goal'.nonce = goal.nonce
         /\ goal'.revision = goal.revision
         /\ goal'.runRevision = goal.runRevision
         /\ goal'.roundRun = goal.roundRun
         /\ goal'.next = None
<1>1. goal \in Goal
  BY DEF TypeOK
<1>2. [goal EXCEPT !.next = None] \in Goal
  BY GoalTypes, GoalFields, Zenon
<1> QED BY <1>1, <1>2 DEF Goal

LEMMA OwnerFacts ==
  ASSUME TypeOK, NEW n \in Nat, NEW r \in Runs \cup {None}, goal' = [goal EXCEPT !.runRevision = n, !.roundRun = r]
  PROVE  /\ goal' \in Goal
         /\ goal'.text = goal.text
         /\ goal'.status = goal.status
         /\ goal'.awaiting <=> goal.awaiting
         /\ goal'.round = goal.round
         /\ goal'.nonce = goal.nonce
         /\ goal'.revision = goal.revision
         /\ goal'.runRevision = n
         /\ goal'.roundRun = r
         /\ goal'.next = goal.next
<1>1. goal \in Goal
  BY DEF TypeOK
<1>2. [goal EXCEPT !.runRevision = n, !.roundRun = r] \in Goal
  BY GoalTypes DEF Goal
<1> QED BY <1>1, <1>2 DEF Goal

LEMMA ForgetFacts ==
  ASSUME TypeOK, NEW r \in Runs \cup {None}, goal' = [goal EXCEPT !.roundRun = r]
  PROVE  /\ goal' \in Goal
         /\ goal'.text = goal.text
         /\ goal'.status = goal.status
         /\ goal'.awaiting <=> goal.awaiting
         /\ goal'.round = goal.round
         /\ goal'.nonce = goal.nonce
         /\ goal'.revision = goal.revision
         /\ goal'.runRevision = goal.runRevision
         /\ goal'.roundRun = r
         /\ goal'.next = goal.next
<1>1. goal \in Goal
  BY DEF TypeOK
<1>2. [goal EXCEPT !.roundRun = r] \in Goal
  BY GoalTypes, GoalFields, Zenon
<1> QED BY <1>1, <1>2 DEF Goal

LEMMA NoGoalFacts ==
  ASSUME TypeOK, goal' = NoGoal
  PROVE  /\ goal' \in Goal
         /\ goal'.text = None
         /\ goal'.status = "none"
         /\ ~goal'.awaiting
         /\ goal'.round = 0
         /\ goal'.nonce = None
         /\ goal'.revision = 0
         /\ goal'.runRevision = 0
         /\ goal'.roundRun = None
         /\ goal'.next = None
<1>1. goal \in Goal
  BY DEF TypeOK
<1>2. NoGoal \in Goal
  BY NoGoalType
<1> QED BY <1>1, <1>2 DEF Goal, NoGoal

LEMMA ReloadFacts ==
  ASSUME TypeOK, NEW t \in Texts \cup {None}, NEW s \in {"none", "paused"}, goal' = [NoGoal EXCEPT !.text = t, !.status = s]
  PROVE  /\ goal' \in Goal
         /\ goal'.text = t
         /\ goal'.status = s
         /\ ~goal'.awaiting
         /\ goal'.round = 0
         /\ goal'.nonce = None
         /\ goal'.revision = 0
         /\ goal'.runRevision = 0
         /\ goal'.roundRun = None
         /\ goal'.next = None
<1>1. goal \in Goal
  BY DEF TypeOK
<1>2. [NoGoal EXCEPT !.text = t, !.status = s] \in Goal
  BY NoGoalType, GoalFields, Zenon
<1> QED BY <1>1, <1>2 DEF Goal, NoGoal

(* The round's outcome: goal' after evaluateGoal of the goal's own round. *)
Outcome(r) ==
  \/ goal' = NotDone
  \/ ForCurrentText /\ goal' = Met
  \/ ForCurrentText /\ goal' = NeedsInput
  \/ goal.round < MaxRounds /\ goal' = [goal EXCEPT !.round = goal.round + 1, !.next = r]

LEMMA OutcomeFacts ==
  ASSUME TypeOK, NEW r \in Runs, EvaluateGoal(r)
  PROVE  IF goal.status = "active" /\ goal.roundRun = r THEN Outcome(r) ELSE goal' = goal
<1>1. goal.round \in Nat
  BY GoalTypes
<1> QED BY <1>1, LimitAssumption DEF EvaluateGoal, Outcome, Unfinished

LEMMA OutcomeType ==
  ASSUME TypeOK, NEW r \in Runs, EvaluateGoal(r)
  PROVE  goal' \in Goal
<1>1. goal.round + 1 \in Nat
  BY GoalTypes
<1>2. CASE goal' = [goal EXCEPT !.round = goal.round + 1, !.next = r]
  BY <1>1, <1>2, NextRoundFacts
<1> QED BY <1>2, OutcomeFacts, NotDoneFacts, MetFacts, NeedsInputFacts, GoalTypes DEF Outcome


-----------------------------------------------------------------------------
(* Types. *)

LEMMA TypeStep ==
  ASSUME TypeOK, OneExecutes, Next
  PROVE  TypeOK'
<1>1. ASSUME NEW n \in Notices, Notify(n) PROVE TypeOK'
  <2>1. CASE TurnRunning
    BY <1>1, <2>1 DEF TypeOK, Notify, sessionVars, goalVars
  <2>2. CASE ~TurnRunning
    BY <1>1, <2>2, QueueType DEF TypeOK, Notify, sessionVars, goalVars
  <2> QED BY <2>1, <2>2
<1>2. ASSUME TaskSettles PROVE TypeOK'
  BY <1>2, BoundAssumption DEF TypeOK, TaskSettles, sessionVars, wakeVars, goalVars, AtMostKicks
<1>3. ASSUME Kick PROVE TypeOK'
  <2>0. (active = None) \in BOOLEAN
    OBVIOUS
  <2>1. (active = None) \in BOOLEAN /\ kicks' \in 0..MaxKicks
    BY <1>3, <2>0, BoundAssumption DEF TypeOK, Kick
  <2> QED BY <1>3, <2>1, DispatchType DEF TypeOK, Kick, sessionVars, goalVars
<1>4. ASSUME WakeConflicts PROVE TypeOK'
  BY <1>4, PutBackFacts, BoundAssumption DEF TypeOK, WakeConflicts, sessionVars, wakeVars, goalVars, AtMostKicks
<1>5. ASSUME WakeRefused PROVE TypeOK'
  BY <1>5, DropFacts DEF TypeOK, WakeRefused, sessionVars, wakeVars, goalVars
<1>6. ASSUME NEW r \in Runs, WakeAccepted(r) PROVE TypeOK'
  <2>1. run' \in [Runs -> Run] /\ active' = r
    BY <1>6, BeginFacts DEF WakeAccepted, Kind
  <2> QED BY <1>6, <2>1, OwnFacts DEF TypeOK, WakeAccepted, goalVars
<1>7. ASSUME TurnTakesNotices PROVE TypeOK'
  BY <1>7 DEF TypeOK, TurnTakesNotices, sessionVars, wakeVars, goalVars
<1>8. ASSUME NEW r \in Runs, TurnBegins(r) PROVE TypeOK'
  <2>1. run' \in [Runs -> Run]
    BY <1>8, MoveFacts DEF TurnBegins, Phase
  <2> QED BY <1>8, <2>1 DEF TypeOK, TurnBegins, wakeVars, goalVars
<1>9. ASSUME NEW r \in Runs, TurnEnds(r) PROVE TypeOK'
  <2>1. run' \in [Runs -> Run]
    BY <1>9, MoveFacts DEF TurnEnds, Phase
  <2> QED BY <1>9, <2>1, QueueType DEF TypeOK, TurnEnds, goalVars
<1>10. ASSUME NEW r \in Runs, EvaluateGoal(r) PROVE TypeOK'
  <2>1. run' \in [Runs -> Run]
    BY <1>10, MoveFacts DEF EvaluateGoal, Phase
  <2> QED BY <1>10, <2>1, OutcomeType DEF TypeOK, EvaluateGoal, wakeVars
<1>11. ASSUME NEW r \in Runs, RunDone(r) PROVE TypeOK'
  <2>1. run' \in [Runs -> Run]
    BY <1>11, MoveFacts DEF RunDone, Phase
  <2> QED BY <1>11, <2>1 DEF TypeOK, RunDone, wakeVars, goalVars
<1>12. ASSUME NEW r \in Runs, TakeRound(r) PROVE TypeOK'
  <2>1. run' \in [Runs -> Run] /\ goal' \in Goal
    BY <1>12, TakeFacts, LeaveFacts, TakenFacts, GoalTypes DEF TakeRound
  <2> QED BY <1>12, <2>1 DEF TypeOK, TakeRound, wakeVars
<1>13. ASSUME NEW r \in Runs, BuildRound(r) PROVE TypeOK'
  <2>1. run' \in [Runs -> Run]
    BY <1>13, BuildFacts, LeaveFacts DEF BuildRound
  <2> QED BY <1>13, <2>1 DEF TypeOK, BuildRound, wakeVars, goalVars
<1>14. ASSUME NEW r \in Runs, RoundStale(r) PROVE TypeOK'
  <2>1. run' \in [Runs -> Run]
    BY <1>14, MoveFacts, LeaveFacts DEF RoundStale, Phase
  <2> QED BY <1>14, <2>1 DEF TypeOK, RoundStale, wakeVars, goalVars
<1>15. ASSUME NEW r \in Runs, RoundRetries(r) PROVE TypeOK'
  <2> QED BY <1>15, RetryFacts DEF TypeOK, RoundRetries, wakeVars, goalVars
<1>16. ASSUME NEW r \in Runs, RoundRefused(r) PROVE TypeOK'
  <2>1. run' \in [Runs -> Run]
    BY <1>16, MoveFacts DEF RoundRefused, Phase
  <2> QED BY <1>16, <2>1 DEF TypeOK, RoundRefused, wakeVars, goalVars
<1>17. ASSUME NEW r \in Runs, GiveUp(r) PROVE TypeOK'
  <2>1. run' \in [Runs -> Run] /\ goal' \in Goal
    BY <1>17, LeaveFacts, NotDoneFacts, GoalTypes DEF GiveUp
  <2> QED BY <1>17, <2>1 DEF TypeOK, GiveUp, wakeVars
<1>18. ASSUME NEW r \in Runs, RunEnds(r) PROVE TypeOK'
  <2> DEFINE o == IF goal.roundRun = r THEN None ELSE goal.roundRun
  <2>1. run' \in [Runs -> Run]
    BY <1>18, EndFacts DEF RunEnds
  <2>2. o \in Runs \cup {None} /\ goal' = [goal EXCEPT !.roundRun = o]
    BY <1>18, GoalTypes DEF RunEnds
  <2>3. goal' \in Goal
    BY <2>2, ForgetFacts
  <2>4. (active = None) \in BOOLEAN
    OBVIOUS
  <2> QED BY <1>18, <2>1, <2>3, <2>4, DispatchType DEF TypeOK, RunEnds
<1>19. ASSUME NEW r \in Runs, CompactFinish(r) PROVE TypeOK'
  <2>1. run' \in [Runs -> Run]
    BY <1>19, EndFacts DEF CompactFinish
  <2> QED BY <1>19, <2>1, DispatchType DEF TypeOK, CompactFinish, goalVars
<1>20. ASSUME NEW r \in Runs, NEW q \in Runs, RoundAccepted(r, q) PROVE TypeOK'
  <2>1. run[r].revision \in Nat
    BY DEF TypeOK, Run
  <2>2. goal' \in Goal
    BY <1>20, <2>1, OwnerFacts DEF RoundAccepted
  <2>3. run' \in [Runs -> Run] /\ active' = q
    BY <1>20, RoundFacts
  <2> QED BY <1>20, <2>2, <2>3, OtherFacts DEF TypeOK, RoundAccepted
<1>21. ASSUME QueueSettle PROVE TypeOK'
  <2>1. queued' \in 0..MaxQueued
    BY <1>21, BoundAssumption DEF TypeOK, QueueSettle, OneExecutes
  <2>2. overlooked' \in BOOLEAN
    BY <1>21 DEF TypeOK, QueueSettle, Emptied
  <2> QED BY <1>21, <2>1, <2>2 DEF TypeOK, QueueSettle, goalVars
<1>22. ASSUME NEW r \in Runs, QueueDispatch(r) PROVE TypeOK'
  <2>1. run' \in [Runs -> Run] /\ active' = r /\ wake' \in Wake
    BY <1>22, BeginFacts, OtherFacts, GoalTypes DEF QueueDispatch, AcceptOther, Kind
  <2> QED BY <1>22, <2>1 DEF TypeOK, QueueDispatch, AcceptOther, goalVars
<1>23. ASSUME NEW r \in Runs, Message(r) PROVE TypeOK'
  <2>1. run' \in [Runs -> Run] /\ active' = r /\ wake' \in Wake
    BY <1>23, BeginFacts, OtherFacts, GoalTypes DEF Message, AcceptOther, Kind
  <2>2. goal' \in Goal
    BY <1>23, AnswerFacts, GoalTypes DEF Message
  <2> QED BY <1>23, <2>1, <2>2 DEF TypeOK, Message, AcceptOther
<1>24. ASSUME NEW r \in Runs, ScheduledRun(r) PROVE TypeOK'
  <2>1. run' \in [Runs -> Run] /\ active' = r /\ wake' \in Wake
    BY <1>24, BeginFacts, OtherFacts, GoalTypes DEF ScheduledRun, AcceptOther, Kind
  <2> QED BY <1>24, <2>1 DEF TypeOK, ScheduledRun, AcceptOther, goalVars
<1>25. ASSUME NEW r \in Runs, Compact(r) PROVE TypeOK'
  <2>1. run' \in [Runs -> Run] /\ active' = r
    BY <1>25, BeginFacts DEF Compact, Kind
  <2> QED BY <1>25, <2>1 DEF TypeOK, Compact, wakeVars, goalVars
<1>26. ASSUME QueueAdd PROVE TypeOK'
  BY <1>26, BoundAssumption DEF TypeOK, QueueAdd, sessionVars, wakeVars, goalVars
<1>27. ASSUME QueueRemove PROVE TypeOK'
  <2>1. queued' \in 0..MaxQueued
    BY <1>27, BoundAssumption DEF TypeOK, QueueRemove
  <2>2. overlooked' \in BOOLEAN
    BY <1>27 DEF TypeOK, QueueRemove, Emptied
  <2> QED BY <1>27, <2>1, <2>2 DEF TypeOK, QueueRemove, goalVars
<1>28. ASSUME CancelRun PROVE TypeOK'
  <2>1. run' \in [Runs -> Run]
    BY <1>28, CancelFacts DEF CancelRun, TypeOK
  <2> QED BY <1>28, <2>1, MarkFacts DEF TypeOK, CancelRun, goalVars
<1>29. ASSUME CloseSession PROVE TypeOK'
  <2>1. run' \in [Runs -> Run]
    BY <1>29, CancelFacts DEF CloseSession, TypeOK
  <2>2. wake' \in Wake /\ wake.texts \in SUBSET Notices
    BY <1>29, HoldFacts DEF CloseSession, TypeOK, Wake
  <2> QED BY <1>29, <2>1, <2>2 DEF TypeOK, CloseSession, goalVars
<1>30. ASSUME DeleteSession PROVE TypeOK'
  <2>2. wake' \in Wake /\ wake.texts \in SUBSET Notices
    BY <1>30, HoldFacts DEF DeleteSession, TypeOK, Wake
  <2> QED BY <1>30, <2>2 DEF TypeOK, DeleteSession, goalVars
<1>31. ASSUME Reload PROVE TypeOK'
  <2> DEFINE s == IF goal.text = None THEN "none" ELSE "paused"
  <2>1. s \in {"none", "paused"} /\ goal' = [NoGoal EXCEPT !.text = goal.text, !.status = s]
    BY <1>31 DEF Reload
  <2>2. goal' \in Goal
    BY <2>1, ReloadFacts, GoalTypes
  <2> QED BY <1>31, <2>2, NoWakeType DEF TypeOK, Reload, sessionVars
<1>32. ASSUME NEW r \in Runs, NEW t \in Texts, NEW x \in Nonces, SetGoal(r, t, x) PROVE TypeOK'
  <2>1. run' \in [Runs -> Run] /\ active' = r /\ wake' \in Wake
    BY <1>32, BeginFacts, OtherFacts, GoalTypes DEF SetGoal, AcceptOther, Kind
  <2>2. goal' \in Goal
    BY <1>32, NewGoalFacts DEF SetGoal
  <2> QED BY <1>32, <2>1, <2>2 DEF TypeOK, SetGoal, AcceptOther
<1>33. ASSUME ResumeGoal PROVE TypeOK'
  BY <1>33, GoalTypes DEF TypeOK, ResumeGoal, sessionVars, wakeVars
<1>34. ASSUME ResumeRefused PROVE TypeOK'
  BY <1>34 DEF TypeOK, ResumeRefused, sessionVars, wakeVars
<1>35. ASSUME NEW r \in Runs, NEW x \in Nonces, ResumeAccepted(r, x) PROVE TypeOK'
  <2>0. resuming \in Texts
    BY <1>35 DEF TypeOK, ResumeAccepted
  <2>1. run' \in [Runs -> Run] /\ active' = r /\ wake' \in Wake
    BY <1>35, <2>0, BeginFacts, OtherFacts DEF ResumeAccepted, AcceptOther, Kind
  <2>2. goal' \in Goal
    BY <1>35, <2>0, NewGoalFacts DEF ResumeAccepted
  <2> QED BY <1>35, <2>1, <2>2 DEF TypeOK, ResumeAccepted, AcceptOther
<1>36. ASSUME PauseGoal PROVE TypeOK'
  <2>1. run' \in [Runs -> Run]
    BY <1>36, CancelFacts DEF PauseGoal, StopOwnRun, GoalOwnsRun, TypeOK
  <2> QED BY <1>36, <2>1, PauseFacts DEF TypeOK, PauseGoal, wakeVars
<1>37. ASSUME ClearGoal PROVE TypeOK'
  <2>1. run' \in [Runs -> Run]
    BY <1>37, CancelFacts DEF ClearGoal, StopOwnRun, GoalOwnsRun, TypeOK
  <2> QED BY <1>37, <2>1, NoGoalFacts DEF TypeOK, ClearGoal, wakeVars
<1>38. ASSUME NEW t \in Texts, UpdateGoal(t) PROVE TypeOK'
  <2>1. goal.revision + 1 \in Nat
    BY GoalTypes
  <2>2. goal' \in Goal
    BY <1>38, <2>1, UpdateFacts DEF UpdateGoal
  <2> QED BY <1>38, <2>2 DEF TypeOK, UpdateGoal, sessionVars, wakeVars
<1> QED BY <1>1, <1>2, <1>3, <1>4, <1>5, <1>6, <1>7, <1>8, <1>9, <1>10,
           <1>11, <1>12, <1>13, <1>14, <1>15, <1>16, <1>17, <1>18, <1>19,
           <1>20, <1>21, <1>22, <1>23, <1>24, <1>25, <1>26, <1>27, <1>28,
           <1>29, <1>30, <1>31, <1>32, <1>33, <1>34, <1>35, <1>36, <1>37,
           <1>38
    DEF Next, Starter, QueueWorker, Clients, Goroutine

-----------------------------------------------------------------------------
(* One goroutine executes. *)

LEMMA OneStep ==
  ASSUME TypeOK, OneExecutes, Next
  PROVE  OneExecutes'
<1>1. ASSUME NEW n \in Notices, Notify(n) PROVE OneExecutes'
  BY <1>1 DEF OneExecutes, Notify, sessionVars
<1>2. ASSUME TaskSettles PROVE OneExecutes'
  BY <1>2 DEF OneExecutes, TaskSettles, sessionVars
<1>3. ASSUME Kick PROVE OneExecutes'
  BY <1>3 DEF OneExecutes, Kick, sessionVars
<1>4. ASSUME WakeConflicts PROVE OneExecutes'
  BY <1>4 DEF OneExecutes, WakeConflicts, sessionVars
<1>5. ASSUME WakeRefused PROVE OneExecutes'
  BY <1>5 DEF OneExecutes, WakeRefused, sessionVars
<1>6. ASSUME NEW r \in Runs, WakeAccepted(r) PROVE OneExecutes'
  <2>1. CanStart("wake") /\ Begin(r, "wake", None)
    BY <1>6 DEF WakeAccepted
  <2> QED BY <1>6, <2>1, NoneAssumption, BeginFacts
       DEF OneExecutes, WakeAccepted, CanStart, Kind, Executing, Same
<1>7. ASSUME TurnTakesNotices PROVE OneExecutes'
  BY <1>7 DEF OneExecutes, TurnTakesNotices, sessionVars
<1>8. ASSUME NEW r \in Runs, TurnBegins(r) PROVE OneExecutes'
  <2>1. /\ run'[r].phase = "turn" /\ \A s \in Runs : s # r => Same(s)
    BY <1>8, MoveFacts DEF TurnBegins, Phase
  <2> QED BY <1>8, <2>1, NoneAssumption DEF OneExecutes, TurnBegins, Executing, Same
<1>9. ASSUME NEW r \in Runs, TurnEnds(r) PROVE OneExecutes'
  <2>1. /\ run'[r].phase = "ended" /\ \A s \in Runs : s # r => Same(s)
    BY <1>9, MoveFacts DEF TurnEnds, Phase
  <2> QED BY <1>9, <2>1, NoneAssumption DEF OneExecutes, TurnEnds, Executing, Same
<1>10. ASSUME NEW r \in Runs, EvaluateGoal(r) PROVE OneExecutes'
  <2>1. /\ run'[r].phase = "evaluated" /\ \A s \in Runs : s # r => Same(s)
    BY <1>10, MoveFacts DEF EvaluateGoal, Phase
  <2> QED BY <1>10, <2>1, NoneAssumption DEF OneExecutes, EvaluateGoal, Executing, Same
<1>11. ASSUME NEW r \in Runs, RunDone(r) PROVE OneExecutes'
  <2>1. /\ run'[r].phase = "tail" /\ \A s \in Runs : s # r => Same(s)
    BY <1>11, MoveFacts DEF RunDone, Phase
  <2> QED BY <1>11, <2>1, NoneAssumption DEF OneExecutes, RunDone, Executing, Same
<1>12. ASSUME NEW r \in Runs, TakeRound(r) PROVE OneExecutes'
  <2>1. /\ run'[r].phase \notin Executing /\ run[r].phase \notin Executing
        /\ \A s \in Runs : s # r => Same(s)
    BY <1>12, TakeFacts, LeaveFacts DEF TakeRound, Phase, Executing, NoRun
  <2> QED BY <1>12, <2>1, NoneAssumption DEF OneExecutes, TakeRound, Same
<1>13. ASSUME NEW r \in Runs, BuildRound(r) PROVE OneExecutes'
  <2>1. /\ run'[r].phase \notin Executing /\ run[r].phase \notin Executing
        /\ \A s \in Runs : s # r => Same(s)
    BY <1>13, BuildFacts, LeaveFacts DEF BuildRound, Phase, Executing, NoRun
  <2> QED BY <1>13, <2>1, NoneAssumption DEF OneExecutes, BuildRound, Same
<1>14. ASSUME NEW r \in Runs, RoundStale(r) PROVE OneExecutes'
  <2>1. /\ run'[r].phase \notin Executing /\ run[r].phase \notin Executing
        /\ \A s \in Runs : s # r => Same(s)
    BY <1>14, MoveFacts, LeaveFacts DEF RoundStale, Phase, Executing, NoRun
  <2> QED BY <1>14, <2>1, NoneAssumption DEF OneExecutes, RoundStale, Same
<1>15. ASSUME NEW r \in Runs, RoundRetries(r) PROVE OneExecutes'
  <2>1. /\ run'[r].phase \notin Executing /\ run[r].phase \notin Executing
        /\ \A s \in Runs : s # r => Same(s)
    BY <1>15, RetryFacts DEF RoundRetries, Phase, Executing, NoRun
  <2> QED BY <1>15, <2>1, NoneAssumption DEF OneExecutes, RoundRetries, Same
<1>16. ASSUME NEW r \in Runs, RoundRefused(r) PROVE OneExecutes'
  <2>1. /\ run'[r].phase = "giveup" /\ \A s \in Runs : s # r => Same(s)
    BY <1>16, MoveFacts DEF RoundRefused, Phase
  <2> QED BY <1>16, <2>1, NoneAssumption DEF OneExecutes, RoundRefused, Executing, Same
<1>17. ASSUME NEW r \in Runs, GiveUp(r) PROVE OneExecutes'
  <2>1. /\ run'[r].phase \notin Executing /\ run[r].phase \notin Executing
        /\ \A s \in Runs : s # r => Same(s)
    BY <1>17, LeaveFacts DEF GiveUp, Phase, Executing, NoRun
  <2> QED BY <1>17, <2>1, NoneAssumption DEF OneExecutes, GiveUp, Same
<1>18. ASSUME NEW r \in Runs, RunEnds(r) PROVE OneExecutes'
  <2>1. /\ run'[r].phase \notin Executing /\ run[r].phase \notin Executing
        /\ \A s \in Runs : s # r => Same(s)
    BY <1>18, EndFacts DEF RunEnds, Phase, Executing, NoRun
  <2> QED BY <1>18, <2>1, NoneAssumption DEF OneExecutes, RunEnds, Same
<1>19. ASSUME NEW r \in Runs, CompactFinish(r) PROVE OneExecutes'
  <2>1. /\ run'[r].phase = "none" /\ \A s \in Runs : s # r => Same(s)
    BY <1>19, EndFacts DEF CompactFinish, NoRun
  <2> QED BY <1>19, <2>1, NoneAssumption DEF OneExecutes, CompactFinish, Executing, Same
<1>20. ASSUME NEW r \in Runs, NEW q \in Runs, RoundAccepted(r, q) PROVE OneExecutes'
  <2>1. active = None /\ run[r].phase = "start" /\ UNCHANGED <<queued, settling>>
    BY <1>20 DEF RoundAccepted, CanStart
  <2> QED BY <1>20, <2>1, RoundFacts, NoneAssumption DEF OneExecutes, Executing, Same
<1>21. ASSUME QueueSettle PROVE OneExecutes'
  BY <1>21 DEF OneExecutes, QueueSettle
<1>22. ASSUME NEW r \in Runs, QueueDispatch(r) PROVE OneExecutes'
  <2>1. active = None /\ Begin(r, "queued", None)
    BY <1>22 DEF QueueDispatch, AcceptOther, CanStart
  <2>2. None \in Texts \cup {None}
    BY GoalTypes
  <2> QED BY <1>22, <2>1, <2>2, NoneAssumption, BeginFacts
       DEF TypeOK, OneExecutes, QueueDispatch, Kind, Executing, Same
<1>23. ASSUME NEW r \in Runs, Message(r) PROVE OneExecutes'
  <2> DEFINE a == IF Awaiting THEN goal.text ELSE None
  <2>1. active = None /\ Begin(r, "message", a)
    BY <1>23 DEF Message, AcceptOther, CanStart
  <2>2. a \in Texts \cup {None}
    BY GoalTypes
  <2> HIDE DEF a
  <2> QED BY <1>23, <2>1, <2>2, NoneAssumption, BeginFacts
       DEF OneExecutes, Message, Kind, Executing, Same
<1>24. ASSUME NEW r \in Runs, ScheduledRun(r) PROVE OneExecutes'
  <2>1. active = None /\ Begin(r, "cron", None)
    BY <1>24 DEF ScheduledRun, AcceptOther, CanStart
  <2>2. None \in Texts \cup {None}
    BY GoalTypes
  <2> QED BY <1>24, <2>1, <2>2, NoneAssumption, BeginFacts
       DEF OneExecutes, ScheduledRun, Kind, Executing, Same
<1>25. ASSUME NEW r \in Runs, Compact(r) PROVE OneExecutes'
  <2>1. active = None /\ Begin(r, "compact", None)
    BY <1>25 DEF Compact, AcceptOther, CanStart
  <2>2. None \in Texts \cup {None}
    BY GoalTypes
  <2> QED BY <1>25, <2>1, <2>2, NoneAssumption, BeginFacts
       DEF OneExecutes, Compact, Kind, Executing, Same
<1>26. ASSUME QueueAdd PROVE OneExecutes'
  BY <1>26 DEF TypeOK, OneExecutes, QueueAdd
<1>27. ASSUME QueueRemove PROVE OneExecutes'
  BY <1>27 DEF OneExecutes, QueueRemove
<1>28. ASSUME CancelRun PROVE OneExecutes'
  <2>1. active \in Runs
    BY <1>28 DEF TypeOK, CancelRun
  <2> QED BY <1>28, <2>1, CancelFacts DEF OneExecutes, CancelRun
<1>29. ASSUME CloseSession PROVE OneExecutes'
  <2>1. UNCHANGED <<active, queued, settling>>
    BY <1>29 DEF CloseSession
  <2>2. run' = run \/ (active \in Runs /\ run' = Cancelled(active))
    BY <1>29 DEF TypeOK, CloseSession
  <2> QED BY <2>1, <2>2, CancelFacts DEF OneExecutes
<1>30. ASSUME DeleteSession PROVE OneExecutes'
  BY <1>30 DEF OneExecutes, DeleteSession, sessionVars
<1>31. ASSUME Reload PROVE OneExecutes'
  BY <1>31 DEF OneExecutes, Reload, sessionVars
<1>32. ASSUME NEW r \in Runs, NEW t \in Texts, NEW x \in Nonces, SetGoal(r, t, x) PROVE OneExecutes'
  <2>1. active = None /\ Begin(r, "goal", t)
    BY <1>32 DEF SetGoal, AcceptOther, CanStart
  <2>2. t \in Texts \cup {None}
    BY GoalTypes
  <2> QED BY <1>32, <2>1, <2>2, NoneAssumption, BeginFacts
       DEF OneExecutes, SetGoal, Kind, Executing, Same
<1>33. ASSUME ResumeGoal PROVE OneExecutes'
  BY <1>33 DEF OneExecutes, ResumeGoal, sessionVars
<1>34. ASSUME ResumeRefused PROVE OneExecutes'
  BY <1>34 DEF OneExecutes, ResumeRefused, sessionVars
<1>35. ASSUME NEW r \in Runs, NEW x \in Nonces, ResumeAccepted(r, x) PROVE OneExecutes'
  <2>1. active = None /\ Begin(r, "goal", resuming)
    BY <1>35 DEF ResumeAccepted, AcceptOther, CanStart
  <2>2. resuming \in Texts \cup {None}
    BY GoalTypes, <1>35 DEF TypeOK, ResumeAccepted
  <2> QED BY <1>35, <2>1, <2>2, NoneAssumption, BeginFacts
       DEF OneExecutes, ResumeAccepted, Kind, Executing, Same
<1>36. ASSUME PauseGoal PROVE OneExecutes'
  <2>1. UNCHANGED <<active, queued, settling>>
    BY <1>36 DEF PauseGoal
  <2>2. run' = run \/ (active \in Runs /\ run' = Cancelled(active))
    BY <1>36 DEF TypeOK, PauseGoal, StopOwnRun, GoalOwnsRun
  <2> QED BY <2>1, <2>2, CancelFacts DEF OneExecutes
<1>37. ASSUME ClearGoal PROVE OneExecutes'
  <2>1. UNCHANGED <<active, queued, settling>>
    BY <1>37 DEF ClearGoal
  <2>2. run' = run \/ (active \in Runs /\ run' = Cancelled(active))
    BY <1>37 DEF TypeOK, ClearGoal, StopOwnRun, GoalOwnsRun
  <2> QED BY <2>1, <2>2, CancelFacts DEF OneExecutes
<1>38. ASSUME NEW t \in Texts, UpdateGoal(t) PROVE OneExecutes'
  BY <1>38 DEF OneExecutes, UpdateGoal, sessionVars
<1> QED BY <1>1, <1>2, <1>3, <1>4, <1>5, <1>6, <1>7, <1>8, <1>9, <1>10,
           <1>11, <1>12, <1>13, <1>14, <1>15, <1>16, <1>17, <1>18, <1>19,
           <1>20, <1>21, <1>22, <1>23, <1>24, <1>25, <1>26, <1>27, <1>28,
           <1>29, <1>30, <1>31, <1>32, <1>33, <1>34, <1>35, <1>36, <1>37,
           <1>38
    DEF Next, Starter, QueueWorker, Clients, Goroutine

-----------------------------------------------------------------------------
(* Notices. *)

LEMMA TurnStays ==
  ASSUME NEW r \in Runs, run[r].phase # "turn" \/ run'[r].phase = "turn",
         \A s \in Runs : s # r => Same(s)
  PROVE  TurnRunning => TurnRunning'
BY DEF TurnRunning, Same

LEMMA CancelStays ==
  ASSUME TypeOK, NEW r \in Runs, run' = Cancelled(r)
  PROVE  TurnRunning => TurnRunning'
BY CancelFacts DEF TurnRunning

LEMMA AccountStays ==
  ASSUME AccountedFor, UNCHANGED <<pending, flight, settled>>, wake'.texts = wake.texts,
         wake'.dispatching <=> wake.dispatching, TurnRunning => TurnRunning'
  PROVE  AccountedFor'
<1> HIDE DEF TurnRunning
<1>1. (pending' # {} => TurnRunning') /\ (flight' # {} => wake'.dispatching)
  BY DEF AccountedFor
<1> QED BY <1>1 DEF AccountedFor

LEMMA DispatchAccounts ==
  ASSUME TypeOK, AccountedFor, NEW idle \in BOOLEAN, DispatchWakes(idle),
         pending' = pending, TurnRunning => TurnRunning'
  PROVE  AccountedFor'
<1>0. wake \in Wake /\ wake.texts \in SUBSET Notices /\ pending \in SUBSET Notices
      /\ flight \in SUBSET Notices /\ settled \in SUBSET Notices
  BY DEF TypeOK, Wake
<1>a. pending' # {} => TurnRunning'
  BY DEF AccountedFor
<1>1. CASE /\ gone /\ wake' = [wake EXCEPT !.texts = {}]
           /\ settled' = settled \cup wake.texts /\ flight' = flight
  <2>1. wake'.texts = {} /\ (wake'.dispatching <=> wake.dispatching)
    BY <1>0, <1>1 DEF Wake
  <2> QED BY <1>0, <1>a, <1>1, <2>1 DEF AccountedFor
<1>2. CASE UNCHANGED <<wake, settled, flight>>
  BY <1>a, <1>2 DEF AccountedFor
<1>3. CASE wake' = [wake EXCEPT !.held = TRUE] /\ UNCHANGED <<settled, flight>>
  <2>1. wake'.texts = wake.texts /\ (wake'.dispatching <=> wake.dispatching)
    BY <1>0, <1>3 DEF Wake
  <2> QED BY <1>a, <1>3, <2>1 DEF AccountedFor
<1>4. CASE /\ Deliverable(idle) /\ flight' = wake.texts /\ UNCHANGED settled
           /\ wake' = [wake EXCEPT !.texts = {}, !.dispatching = TRUE, !.streak = @ + 1]
  <2>1. wake'.texts = {} /\ wake'.dispatching
    BY <1>0, <1>4 DEF Wake
  <2>2. flight = {}
    BY <1>4 DEF AccountedFor, Deliverable
  <2> QED BY <1>0, <1>a, <1>4, <2>1, <2>2 DEF AccountedFor
<1> QED BY <1>1, <1>2, <1>3, <1>4 DEF DispatchWakes

LEMMA QueueAccounts ==
  ASSUME TypeOK, AccountedFor, NEW S \in SUBSET Notices, QueueWakes(S),
         S \cap wake.texts = {}, S \cap flight = {}, flight' = flight,
         pending' = pending \ S, S \subseteq pending \cup settled,
         pending' # {} => TurnRunning'
  PROVE  AccountedFor'
<1>0. wake.texts \in SUBSET Notices /\ pending \in SUBSET Notices
      /\ flight \in SUBSET Notices /\ settled \in SUBSET Notices
  BY DEF TypeOK, Wake
<1> DEFINE T == wake'.texts
<1>1. /\ T \in SUBSET (wake.texts \cup S)
      /\ settled' = (settled \ S) \cup ((wake.texts \cup S) \ T)
      /\ wake'.dispatching <=> wake.dispatching
  BY QueueType
<1>2. flight' # {} => wake'.dispatching
  BY <1>1 DEF AccountedFor
<1>3. /\ pending \cup wake.texts \cup flight = Notices \ settled
      /\ pending \cap wake.texts = {} /\ pending \cap flight = {}
      /\ wake.texts \cap flight = {}
  BY DEF AccountedFor
<1> HIDE DEF T, QueueWakes, TurnRunning
<1>4. pending' \cup T \cup flight' = Notices \ settled'
  BY <1>0, <1>1, <1>3
<1>5. pending' \cap T = {} /\ pending' \cap flight' = {} /\ T \cap flight' = {}
  BY <1>0, <1>1, <1>3
<1> QED BY <1>2, <1>4, <1>5 DEF AccountedFor, T

LEMMA AccountStep ==
  ASSUME TypeOK, OneExecutes, AccountedFor, Next
  PROVE  AccountedFor'
<1>1. ASSUME NEW n \in Notices, Notify(n) PROVE AccountedFor'
  <2>0. wake.texts \in SUBSET Notices /\ pending \in SUBSET Notices
        /\ flight \in SUBSET Notices /\ settled \in SUBSET Notices
    BY DEF TypeOK, Wake
  <2>1. n \in settled /\ flight' = flight /\ run' = run
    BY <1>1 DEF Notify, sessionVars
  <2>2. n \notin wake.texts /\ n \notin flight /\ n \notin pending
    BY <2>0, <2>1 DEF AccountedFor
  <2>3. CASE TurnRunning
    <3>1. pending' = pending \cup {n} /\ settled' = settled \ {n} /\ wake' = wake
      BY <1>1, <2>3 DEF Notify
    <3>2. TurnRunning'
      BY <2>1, <2>3 DEF TurnRunning
    <3> QED BY <2>0, <2>1, <2>2, <3>1, <3>2 DEF AccountedFor
  <2>4. CASE ~TurnRunning
    <3>1. QueueWakes({n}) /\ pending' = pending
      BY <1>1, <2>4 DEF Notify
    <3>2. pending = {}
      BY <2>4 DEF AccountedFor
    <3>3. pending' = pending \ {n} /\ {n} \in SUBSET Notices
      BY <3>1, <3>2
    <3> QED BY <2>1, <2>2, <3>1, <3>2, <3>3, QueueAccounts
  <2> QED BY <2>3, <2>4
<1>2. ASSUME TaskSettles PROVE AccountedFor'
  BY <1>2, AccountStays DEF TaskSettles, TurnRunning, sessionVars, wakeVars
<1>3. ASSUME Kick PROVE AccountedFor'
  <2>1. (active = None) \in BOOLEAN /\ (TurnRunning => TurnRunning')
    BY <1>3 DEF Kick, sessionVars, TurnRunning
  <2> QED BY <1>3, <2>1, DispatchAccounts DEF Kick
<1>4. ASSUME WakeConflicts PROVE AccountedFor'
  <2>1. wake'.texts = flight \cup wake.texts /\ ~wake'.dispatching
    BY <1>4, PutBackFacts DEF WakeConflicts
  <2>2. flight' = {} /\ UNCHANGED <<pending, settled, run>>
    BY <1>4 DEF WakeConflicts, sessionVars
  <2>3. pending' # {} => TurnRunning'
    BY <2>2 DEF AccountedFor, TurnRunning
  <2> QED BY <2>1, <2>2, <2>3 DEF AccountedFor
<1>5. ASSUME WakeRefused PROVE AccountedFor'
  <2>0. wake.texts \in SUBSET Notices /\ pending \in SUBSET Notices
        /\ flight \in SUBSET Notices /\ settled \in SUBSET Notices
    BY DEF TypeOK, Wake
  <2>1. wake'.texts = wake.texts /\ ~wake'.dispatching
    BY <1>5, DropFacts DEF WakeRefused
  <2>2. flight' = {} /\ settled' = settled \cup flight /\ UNCHANGED <<pending, run>>
    BY <1>5 DEF WakeRefused, sessionVars
  <2>3. pending' # {} => TurnRunning'
    BY <2>2 DEF AccountedFor, TurnRunning
  <2> QED BY <2>0, <2>1, <2>2, <2>3 DEF AccountedFor
<1>6. ASSUME NEW r \in Runs, WakeAccepted(r) PROVE AccountedFor'
  <2>0. wake.texts \in SUBSET Notices /\ pending \in SUBSET Notices
        /\ flight \in SUBSET Notices /\ settled \in SUBSET Notices
    BY DEF TypeOK, Wake
  <2>1. wake'.texts = wake.texts /\ ~wake'.dispatching
    BY <1>6, OwnFacts DEF WakeAccepted
  <2>2. flight' = {} /\ settled' = settled \cup flight /\ UNCHANGED pending
    BY <1>6 DEF WakeAccepted
  <2>4. TurnRunning => TurnRunning'
    BY <1>6, BeginFacts, TurnStays DEF WakeAccepted, Kind
  <2>3. pending' # {} => TurnRunning'
    BY <2>2, <2>4 DEF AccountedFor
  <2> QED BY <2>0, <2>1, <2>2, <2>3 DEF AccountedFor
<1>7. ASSUME TurnTakesNotices PROVE AccountedFor'
  <2>1. pending' = {} /\ settled' = settled \cup pending /\ UNCHANGED <<wake, flight>>
    BY <1>7 DEF TurnTakesNotices
  <2> QED BY <2>1 DEF TypeOK, AccountedFor
<1>8. ASSUME NEW r \in Runs, TurnBegins(r) PROVE AccountedFor'
  <2>1. TurnRunning => TurnRunning'
    BY <1>8, TurnStays, MoveFacts DEF TurnBegins, Phase, Kind, NoRun
  <2> QED BY <1>8, <2>1, AccountStays DEF TurnBegins, wakeVars
<1>9. ASSUME NEW r \in Runs, TurnEnds(r) PROVE AccountedFor'
  <2>1. QueueWakes(pending) /\ pending' = {} /\ flight' = flight
    BY <1>9 DEF TurnEnds
  <2>2. pending \in SUBSET Notices /\ pending' = pending \ pending
    BY <2>1 DEF TypeOK
  <2>3. pending \cap wake.texts = {} /\ pending \cap flight = {}
    BY DEF AccountedFor
  <2> QED BY <2>1, <2>2, <2>3, QueueAccounts
<1>10. ASSUME NEW r \in Runs, EvaluateGoal(r) PROVE AccountedFor'
  <2>1. TurnRunning => TurnRunning'
    BY <1>10, TurnStays, MoveFacts DEF EvaluateGoal, Phase, Kind, NoRun
  <2> QED BY <1>10, <2>1, AccountStays DEF EvaluateGoal, wakeVars
<1>11. ASSUME NEW r \in Runs, RunDone(r) PROVE AccountedFor'
  <2>1. TurnRunning => TurnRunning'
    BY <1>11, TurnStays, MoveFacts DEF RunDone, Phase, Kind, NoRun
  <2> QED BY <1>11, <2>1, AccountStays DEF RunDone, wakeVars
<1>12. ASSUME NEW r \in Runs, TakeRound(r) PROVE AccountedFor'
  <2>1. TurnRunning => TurnRunning'
    BY <1>12, TurnStays, TakeFacts, LeaveFacts DEF TakeRound, Phase, Kind, NoRun
  <2> QED BY <1>12, <2>1, AccountStays DEF TakeRound, wakeVars
<1>13. ASSUME NEW r \in Runs, BuildRound(r) PROVE AccountedFor'
  <2>1. TurnRunning => TurnRunning'
    BY <1>13, TurnStays, BuildFacts, LeaveFacts DEF BuildRound, Phase, Kind, NoRun
  <2> QED BY <1>13, <2>1, AccountStays DEF BuildRound, wakeVars
<1>14. ASSUME NEW r \in Runs, RoundStale(r) PROVE AccountedFor'
  <2>1. TurnRunning => TurnRunning'
    BY <1>14, TurnStays, MoveFacts, LeaveFacts DEF RoundStale, Phase, Kind, NoRun
  <2> QED BY <1>14, <2>1, AccountStays DEF RoundStale, wakeVars
<1>15. ASSUME NEW r \in Runs, RoundRetries(r) PROVE AccountedFor'
  <2>1. TurnRunning => TurnRunning'
    BY <1>15, TurnStays, RetryFacts DEF RoundRetries, Phase, Kind, NoRun
  <2> QED BY <1>15, <2>1, AccountStays DEF RoundRetries, wakeVars
<1>16. ASSUME NEW r \in Runs, RoundRefused(r) PROVE AccountedFor'
  <2>1. TurnRunning => TurnRunning'
    BY <1>16, TurnStays, MoveFacts DEF RoundRefused, Phase, Kind, NoRun
  <2> QED BY <1>16, <2>1, AccountStays DEF RoundRefused, wakeVars
<1>17. ASSUME NEW r \in Runs, GiveUp(r) PROVE AccountedFor'
  <2>1. TurnRunning => TurnRunning'
    BY <1>17, TurnStays, LeaveFacts DEF GiveUp, Phase, Kind, NoRun
  <2> QED BY <1>17, <2>1, AccountStays DEF GiveUp, wakeVars
<1>18. ASSUME NEW r \in Runs, RunEnds(r) PROVE AccountedFor'
  <2>1. TurnRunning => TurnRunning'
    BY <1>18, TurnStays, EndFacts DEF RunEnds, Phase, Kind, NoRun
  <2>2. (active = None) \in BOOLEAN
    OBVIOUS
  <2> QED BY <1>18, <2>1, <2>2, DispatchAccounts DEF RunEnds
<1>19. ASSUME NEW r \in Runs, CompactFinish(r) PROVE AccountedFor'
  <2>1. TurnRunning => TurnRunning'
    BY <1>19, TurnStays, EndFacts DEF CompactFinish, Phase, Kind, NoRun
  <2>2. (active = None) \in BOOLEAN
    OBVIOUS
  <2> QED BY <1>19, <2>1, <2>2, DispatchAccounts DEF CompactFinish
<1>20. ASSUME NEW r \in Runs, NEW q \in Runs, RoundAccepted(r, q) PROVE AccountedFor'
  <2>1. TurnRunning => TurnRunning'
    BY <1>20, RoundFacts DEF RoundAccepted, TurnRunning, Same
  <2> QED BY <1>20, <2>1, OtherFacts, AccountStays DEF RoundAccepted
<1>21. ASSUME QueueSettle PROVE AccountedFor'
  BY <1>21, AccountStays DEF QueueSettle, TurnRunning, sessionVars, wakeVars
<1>22. ASSUME NEW r \in Runs, QueueDispatch(r) PROVE AccountedFor'
  <2>1. TurnRunning => TurnRunning'
    BY <1>22, TurnStays, BeginFacts DEF QueueDispatch, Phase, Kind, NoRun, AcceptOther
  <2> QED BY <1>22, <2>1, OtherFacts, AccountStays DEF QueueDispatch, AcceptOther
<1>23. ASSUME NEW r \in Runs, Message(r) PROVE AccountedFor'
  <2> DEFINE a == IF Awaiting THEN goal.text ELSE None
  <2>1. active = None /\ Begin(r, "message", a)
    BY <1>23 DEF Message, AcceptOther, CanStart
  <2>2. a \in Texts \cup {None}
    BY GoalTypes
  <2> HIDE DEF a
  <2>3. TurnRunning => TurnRunning'
    BY <1>23, <2>1, <2>2, TurnStays, BeginFacts DEF Kind
  <2> QED BY <1>23, <2>3, OtherFacts, AccountStays DEF Message, AcceptOther
<1>24. ASSUME NEW r \in Runs, ScheduledRun(r) PROVE AccountedFor'
  <2>1. TurnRunning => TurnRunning'
    BY <1>24, TurnStays, BeginFacts DEF ScheduledRun, Phase, Kind, NoRun, AcceptOther
  <2> QED BY <1>24, <2>1, OtherFacts, AccountStays DEF ScheduledRun, AcceptOther
<1>25. ASSUME NEW r \in Runs, Compact(r) PROVE AccountedFor'
  <2>1. TurnRunning => TurnRunning'
    BY <1>25, TurnStays, BeginFacts DEF Compact, Phase, Kind, NoRun
  <2> QED BY <1>25, <2>1, AccountStays DEF Compact, wakeVars
<1>26. ASSUME QueueAdd PROVE AccountedFor'
  BY <1>26, AccountStays DEF QueueAdd, TurnRunning, sessionVars, wakeVars
<1>27. ASSUME QueueRemove PROVE AccountedFor'
  BY <1>27, AccountStays DEF QueueRemove, TurnRunning, sessionVars, wakeVars
<1>28. ASSUME CancelRun PROVE AccountedFor'
  <2>1. TurnRunning => TurnRunning'
    BY <1>28, CancelStays DEF CancelRun, TypeOK
  <2> QED BY <1>28, <2>1, MarkFacts, AccountStays DEF CancelRun
<1>29. ASSUME CloseSession PROVE AccountedFor'
  <2>1. TurnRunning => TurnRunning'
    BY <1>29, CancelStays DEF CloseSession, TypeOK, TurnRunning
  <2>2. wake'.texts = {} /\ (wake'.dispatching <=> wake.dispatching)
    BY <1>29, HoldFacts DEF CloseSession
  <2>3. wake.texts \in SUBSET Notices /\ settled' = settled \cup wake.texts
        /\ UNCHANGED <<pending, flight>>
    BY <1>29 DEF CloseSession, TypeOK, Wake
  <2>4. (pending' # {} => TurnRunning') /\ (flight' # {} => wake'.dispatching)
    BY <2>1, <2>2, <2>3 DEF AccountedFor
  <2> QED BY <2>2, <2>3, <2>4 DEF AccountedFor, TypeOK
<1>30. ASSUME DeleteSession PROVE AccountedFor'
  <2>1. TurnRunning => TurnRunning'
    BY <1>30 DEF DeleteSession, TypeOK, TurnRunning
  <2>2. wake'.texts = {} /\ (wake'.dispatching <=> wake.dispatching)
    BY <1>30, HoldFacts DEF DeleteSession
  <2>3. wake.texts \in SUBSET Notices /\ settled' = settled \cup wake.texts
        /\ UNCHANGED <<pending, flight>>
    BY <1>30 DEF DeleteSession, TypeOK, Wake
  <2>4. (pending' # {} => TurnRunning') /\ (flight' # {} => wake'.dispatching)
    BY <2>1, <2>2, <2>3 DEF AccountedFor
  <2> QED BY <2>2, <2>3, <2>4 DEF AccountedFor, TypeOK
<1>31. ASSUME Reload PROVE AccountedFor'
  <2>1. wake.texts = {} /\ ~wake.dispatching /\ wake' = NoWake
        /\ UNCHANGED <<pending, flight, settled, run>>
    BY <1>31 DEF Reload, sessionVars
  <2>2. wake'.texts = {} /\ ~wake'.dispatching
    BY <2>1 DEF NoWake
  <2>3. TurnRunning => TurnRunning'
    BY <2>1 DEF TurnRunning
  <2> QED BY <2>1, <2>2, <2>3, AccountStays
<1>32. ASSUME NEW r \in Runs, NEW t \in Texts, NEW x \in Nonces, SetGoal(r, t, x) PROVE AccountedFor'
  <2>1. TurnRunning => TurnRunning'
    BY <1>32, TurnStays, BeginFacts DEF SetGoal, Phase, Kind, NoRun, AcceptOther
  <2> QED BY <1>32, <2>1, OtherFacts, AccountStays DEF SetGoal, AcceptOther
<1>33. ASSUME ResumeGoal PROVE AccountedFor'
  BY <1>33, AccountStays DEF ResumeGoal, TurnRunning, sessionVars, wakeVars
<1>34. ASSUME ResumeRefused PROVE AccountedFor'
  BY <1>34, AccountStays DEF ResumeRefused, TurnRunning, sessionVars, wakeVars
<1>35. ASSUME NEW r \in Runs, NEW x \in Nonces, ResumeAccepted(r, x) PROVE AccountedFor'
  <2>0. resuming \in Texts
    BY <1>35 DEF TypeOK, ResumeAccepted
  <2>1. TurnRunning => TurnRunning'
    BY <1>35, <2>0, TurnStays, BeginFacts DEF ResumeAccepted, AcceptOther, Kind
  <2> QED BY <1>35, <2>1, OtherFacts, AccountStays DEF ResumeAccepted, AcceptOther
<1>36. ASSUME PauseGoal PROVE AccountedFor'
  <2>1. TurnRunning => TurnRunning'
    BY <1>36, CancelStays DEF PauseGoal, TypeOK, TurnRunning, StopOwnRun, GoalOwnsRun
  <2> QED BY <1>36, <2>1, AccountStays DEF PauseGoal, wakeVars
<1>37. ASSUME ClearGoal PROVE AccountedFor'
  <2>1. TurnRunning => TurnRunning'
    BY <1>37, CancelStays DEF ClearGoal, TypeOK, TurnRunning, StopOwnRun, GoalOwnsRun
  <2> QED BY <1>37, <2>1, AccountStays DEF ClearGoal, wakeVars
<1>38. ASSUME NEW t \in Texts, UpdateGoal(t) PROVE AccountedFor'
  BY <1>38, AccountStays DEF UpdateGoal, TurnRunning, sessionVars, wakeVars
<1> QED BY <1>1, <1>2, <1>3, <1>4, <1>5, <1>6, <1>7, <1>8, <1>9, <1>10,
           <1>11, <1>12, <1>13, <1>14, <1>15, <1>16, <1>17, <1>18, <1>19,
           <1>20, <1>21, <1>22, <1>23, <1>24, <1>25, <1>26, <1>27, <1>28,
           <1>29, <1>30, <1>31, <1>32, <1>33, <1>34, <1>35, <1>36, <1>37,
           <1>38
    DEF Next, Starter, QueueWorker, Clients, Goroutine

-----------------------------------------------------------------------------
(* The streak. *)

LEMMA StreakTypes == ASSUME TypeOK PROVE wake \in Wake /\ wake.streak \in Int /\ inRow \in Nat
                                         /\ wake.dispatching \in BOOLEAN
BY DEF TypeOK, Wake

LEMMA StreakStays ==
  ASSUME StreakCounts, wake'.streak = wake.streak,
         wake'.dispatching <=> wake.dispatching, inRow' = inRow
  PROVE  StreakCounts'
<1>1. Starting' = Starting
  BY DEF Starting
<1> QED BY <1>1 DEF StreakCounts

LEMMA OtherCounts ==
  ASSUME TypeOK, StreakCounts, wake' = Other(wake), inRow' = 0
  PROVE  StreakCounts'
BY OtherFacts, LimitAssumption DEF StreakCounts, Starting

LEMMA DispatchCounts ==
  ASSUME TypeOK, StreakCounts, NEW idle \in BOOLEAN, DispatchWakes(idle), inRow' = inRow
  PROVE  StreakCounts'
<1>1. CASE wake' = [wake EXCEPT !.texts = {}] \/ wake' = wake \/ wake' = [wake EXCEPT !.held = TRUE]
  <2>1. wake'.streak = wake.streak /\ (wake'.dispatching <=> wake.dispatching)
    BY <1>1, StreakTypes DEF Wake
  <2> QED BY <2>1, StreakStays
<1>2. CASE /\ Deliverable(idle) /\ wake.streak < MaxWakeStreak
           /\ wake' = [wake EXCEPT !.texts = {}, !.dispatching = TRUE, !.streak = @ + 1]
  <2>1. wake'.streak = wake.streak + 1 /\ wake'.dispatching /\ ~wake.dispatching
    BY <1>2, StreakTypes DEF Wake, Deliverable
  <2>2. wake.streak \in Int /\ inRow \in Nat /\ MaxWakeStreak \in Nat
    BY StreakTypes, LimitAssumption
  <2>3. Starting = 0 /\ Starting' = 1
    BY <2>1 DEF Starting
  <2> QED BY <1>2, <2>1, <2>2, <2>3 DEF StreakCounts
<1> QED BY <1>1, <1>2 DEF DispatchWakes

LEMMA StreakStep ==
  ASSUME TypeOK, StreakCounts, Next
  PROVE  StreakCounts'
<1>1. ASSUME NEW n \in Notices, Notify(n) PROVE StreakCounts'
  <2>1. {n} \in SUBSET Notices
    OBVIOUS
  <2>2. wake'.streak = wake.streak /\ (wake'.dispatching <=> wake.dispatching)
    BY <1>1, <2>1, QueueType DEF Notify
  <2> QED BY <1>1, <2>2, StreakStays DEF Notify
<1>2. ASSUME TaskSettles PROVE StreakCounts'
  BY <1>2, StreakStays DEF TaskSettles, wakeVars
<1>3. ASSUME Kick PROVE StreakCounts'
  <2>1. (active = None) \in BOOLEAN
    OBVIOUS
  <2> QED BY <1>3, <2>1, DispatchCounts DEF Kick
<1>4. ASSUME WakeConflicts PROVE StreakCounts'
  <2>1. wake'.streak = wake.streak - 1 /\ ~wake'.dispatching /\ wake.dispatching /\ inRow' = inRow
    BY <1>4, PutBackFacts DEF WakeConflicts
  <2> QED BY <2>1, StreakTypes, LimitAssumption DEF StreakCounts, Starting
<1>5. ASSUME WakeRefused PROVE StreakCounts'
  <2>1. wake'.streak = wake.streak - 1 /\ ~wake'.dispatching /\ wake.dispatching /\ inRow' = inRow
    BY <1>5, DropFacts DEF WakeRefused
  <2> QED BY <2>1, StreakTypes, LimitAssumption DEF StreakCounts, Starting
<1>6. ASSUME NEW r \in Runs, WakeAccepted(r) PROVE StreakCounts'
  <2>1. /\ wake'.streak = wake.streak /\ ~wake'.dispatching /\ wake.dispatching
        /\ inRow' = inRow + 1
    BY <1>6, OwnFacts DEF WakeAccepted
  <2> QED BY <2>1, StreakTypes, LimitAssumption DEF StreakCounts, Starting
<1>7. ASSUME TurnTakesNotices PROVE StreakCounts'
  BY <1>7, StreakStays DEF TurnTakesNotices, wakeVars
<1>8. ASSUME NEW r \in Runs, TurnBegins(r) PROVE StreakCounts'
  BY <1>8, StreakStays DEF TurnBegins, wakeVars
<1>9. ASSUME NEW r \in Runs, TurnEnds(r) PROVE StreakCounts'
  <2>1. wake'.streak = wake.streak /\ (wake'.dispatching <=> wake.dispatching)
    BY <1>9, QueueType DEF TurnEnds, TypeOK
  <2> QED BY <1>9, <2>1, StreakStays DEF TurnEnds
<1>10. ASSUME NEW r \in Runs, EvaluateGoal(r) PROVE StreakCounts'
  BY <1>10, StreakStays DEF EvaluateGoal, wakeVars
<1>11. ASSUME NEW r \in Runs, RunDone(r) PROVE StreakCounts'
  BY <1>11, StreakStays DEF RunDone, wakeVars
<1>12. ASSUME NEW r \in Runs, TakeRound(r) PROVE StreakCounts'
  BY <1>12, StreakStays DEF TakeRound, wakeVars
<1>13. ASSUME NEW r \in Runs, BuildRound(r) PROVE StreakCounts'
  BY <1>13, StreakStays DEF BuildRound, wakeVars
<1>14. ASSUME NEW r \in Runs, RoundStale(r) PROVE StreakCounts'
  BY <1>14, StreakStays DEF RoundStale, wakeVars
<1>15. ASSUME NEW r \in Runs, RoundRetries(r) PROVE StreakCounts'
  BY <1>15, StreakStays DEF RoundRetries, wakeVars
<1>16. ASSUME NEW r \in Runs, RoundRefused(r) PROVE StreakCounts'
  BY <1>16, StreakStays DEF RoundRefused, wakeVars
<1>17. ASSUME NEW r \in Runs, GiveUp(r) PROVE StreakCounts'
  BY <1>17, StreakStays DEF GiveUp, wakeVars
<1>18. ASSUME NEW r \in Runs, RunEnds(r) PROVE StreakCounts'
  <2>1. (active = None) \in BOOLEAN
    OBVIOUS
  <2> QED BY <1>18, <2>1, DispatchCounts DEF RunEnds
<1>19. ASSUME NEW r \in Runs, CompactFinish(r) PROVE StreakCounts'
  <2>1. (active = None) \in BOOLEAN
    OBVIOUS
  <2> QED BY <1>19, <2>1, DispatchCounts DEF CompactFinish
<1>20. ASSUME NEW r \in Runs, NEW q \in Runs, RoundAccepted(r, q) PROVE StreakCounts'
  BY <1>20, OtherCounts DEF RoundAccepted, AcceptOther
<1>21. ASSUME QueueSettle PROVE StreakCounts'
  BY <1>21, StreakStays DEF QueueSettle, wakeVars
<1>22. ASSUME NEW r \in Runs, QueueDispatch(r) PROVE StreakCounts'
  BY <1>22, OtherCounts DEF QueueDispatch, AcceptOther
<1>23. ASSUME NEW r \in Runs, Message(r) PROVE StreakCounts'
  BY <1>23, OtherCounts DEF Message, AcceptOther
<1>24. ASSUME NEW r \in Runs, ScheduledRun(r) PROVE StreakCounts'
  BY <1>24, OtherCounts DEF ScheduledRun, AcceptOther
<1>25. ASSUME NEW r \in Runs, Compact(r) PROVE StreakCounts'
  BY <1>25, StreakStays DEF Compact, wakeVars
<1>26. ASSUME QueueAdd PROVE StreakCounts'
  BY <1>26, StreakStays DEF QueueAdd, wakeVars
<1>27. ASSUME QueueRemove PROVE StreakCounts'
  BY <1>27, StreakStays DEF QueueRemove, wakeVars
<1>28. ASSUME CancelRun PROVE StreakCounts'
  BY <1>28, MarkFacts, StreakStays DEF CancelRun
<1>29. ASSUME CloseSession PROVE StreakCounts'
  BY <1>29, HoldFacts, StreakStays DEF CloseSession
<1>30. ASSUME DeleteSession PROVE StreakCounts'
  BY <1>30, HoldFacts, StreakStays DEF DeleteSession
<1>31. ASSUME Reload PROVE StreakCounts'
  <2>1. wake'.streak = 0 /\ ~wake'.dispatching /\ inRow' = 0
    BY <1>31 DEF Reload, NoWake
  <2>2. Starting' = 0
    BY <2>1 DEF Starting
  <2>3. /\ wake'.streak <= MaxWakeStreak /\ wake'.streak - Starting' >= -1
        /\ inRow' - (wake'.streak - Starting') = 0
    BY <2>1, <2>2, LimitAssumption
  <2> QED BY <2>3 DEF StreakCounts
<1>32. ASSUME NEW r \in Runs, NEW t \in Texts, NEW x \in Nonces, SetGoal(r, t, x) PROVE StreakCounts'
  BY <1>32, OtherCounts DEF SetGoal, AcceptOther
<1>33. ASSUME ResumeGoal PROVE StreakCounts'
  BY <1>33, StreakStays DEF ResumeGoal, wakeVars
<1>34. ASSUME ResumeRefused PROVE StreakCounts'
  BY <1>34, StreakStays DEF ResumeRefused, wakeVars
<1>35. ASSUME NEW r \in Runs, NEW x \in Nonces, ResumeAccepted(r, x) PROVE StreakCounts'
  BY <1>35, OtherCounts DEF ResumeAccepted, AcceptOther
<1>36. ASSUME PauseGoal PROVE StreakCounts'
  BY <1>36, StreakStays DEF PauseGoal, wakeVars
<1>37. ASSUME ClearGoal PROVE StreakCounts'
  BY <1>37, StreakStays DEF ClearGoal, wakeVars
<1>38. ASSUME NEW t \in Texts, UpdateGoal(t) PROVE StreakCounts'
  BY <1>38, StreakStays DEF UpdateGoal, wakeVars
<1> QED BY <1>1, <1>2, <1>3, <1>4, <1>5, <1>6, <1>7, <1>8, <1>9, <1>10,
           <1>11, <1>12, <1>13, <1>14, <1>15, <1>16, <1>17, <1>18, <1>19,
           <1>20, <1>21, <1>22, <1>23, <1>24, <1>25, <1>26, <1>27, <1>28,
           <1>29, <1>30, <1>31, <1>32, <1>33, <1>34, <1>35, <1>36, <1>37,
           <1>38
    DEF Next, Starter, QueueWorker, Clients, Goroutine

-----------------------------------------------------------------------------
(* The goal and its rounds. *)

GoalInv == RoundIsOwn /\ ActiveIsWorked /\ PromptsAreCurrent
Before == {"accepted", "turn", "ended"}
After == {"evaluated", "tail"}

(* A step that moves a goroutine within one part of its life. *)
Alike(q) ==
  /\ run'[q].kind = run[q].kind /\ run'[q].asked = run[q].asked
  /\ run'[q].nonce = run[q].nonce /\ run'[q].round = run[q].round
  /\ run'[q].phase = "none" <=> run[q].phase = "none"
  /\ run'[q].phase \in Before <=> run[q].phase \in Before
  /\ run'[q].phase \in After <=> run[q].phase \in After
  /\ run'[q].phase \in Continuing <=> run[q].phase \in Continuing
  /\ run'[q].phase \in Executing => run[q].phase \in Executing
  /\ run'[q].phase = "start" => /\ run[q].phase = "start"
                                /\ run'[q].revision = run[q].revision
                                /\ run'[q].text = run[q].text

LEMMA SameAlike == \A q \in Runs : Same(q) => Alike(q)
BY DEF Same, Alike

LEMMA AlikeStays ==
  ASSUME TypeOK, GoalInv, goal' = goal, \A q \in Runs : Alike(q)
  PROVE  GoalInv'
<1>0. goal.roundRun \in Runs \cup {None} /\ goal.next \in Runs \cup {None}
  BY GoalTypes
<1>1. RoundIsOwn'
  BY <1>0 DEF GoalInv, RoundIsOwn, Alike
<1>2. ActiveIsWorked'
  <2>1. RoundRuns => RoundRuns'
    BY <1>0 DEF RoundRuns, Alike, Before
  <2>2. RoundDecided => RoundDecided'
    BY <1>0 DEF RoundDecided, Alike, After
  <2>3. RoundStarts => RoundStarts'
    BY <1>0 DEF RoundStarts, Alike, Moved
  <2> QED BY <2>1, <2>2, <2>3 DEF GoalInv, ActiveIsWorked
<1>3. PromptsAreCurrent'
  BY <1>0 DEF GoalInv, PromptsAreCurrent, Alike, Before
<1> QED BY <1>1, <1>2, <1>3 DEF GoalInv

(* A step that leaves a goal which does not work. *)
LEMMA AlikeRests ==
  ASSUME TypeOK, GoalInv, \A q \in Runs : Alike(q),
         goal'.status # "active", ~goal'.awaiting,
         goal'.roundRun = goal.roundRun, goal'.text = goal.text,
         goal'.nonce = goal.nonce, goal'.revision = goal.revision,
         goal'.runRevision = goal.runRevision
  PROVE  GoalInv'
<1>0. goal.roundRun \in Runs \cup {None}
  BY GoalTypes
<1>1. RoundIsOwn'
  BY <1>0 DEF GoalInv, RoundIsOwn, Alike
<1>3. PromptsAreCurrent'
  BY <1>0 DEF GoalInv, PromptsAreCurrent, Alike, Before
<1> QED BY <1>1, <1>3 DEF GoalInv, ActiveIsWorked

LEMMA NothingRests ==
  ASSUME TypeOK, GoalInv, \A q \in Runs : Alike(q), goal'.status # "active",
         ~goal'.awaiting, goal'.roundRun = None, goal'.nonce = None,
         goal'.runRevision = 0, goal'.revision = 0
  PROVE  GoalInv'
BY DEF GoalInv, RoundIsOwn, ActiveIsWorked, PromptsAreCurrent, Alike

(* A goroutine begins, or one that does not matter to the goal leaves. *)
LEMMA BeginStays ==
  ASSUME TypeOK, GoalInv, goal' = goal, NEW r \in Runs, run[r].phase = "none",
         run'[r].phase = "accepted", run'[r].kind = "compact" => run'[r].asked = None,
         \A q \in Runs : q # r => Same(q)
  PROVE  GoalInv'
<1>0. goal.roundRun \in Runs \cup {None} /\ goal.next \in Runs \cup {None}
      /\ goal.roundRun # r
  BY GoalTypes, NoneAssumption DEF GoalInv, RoundIsOwn
<1>1. RoundIsOwn'
  BY <1>0 DEF GoalInv, RoundIsOwn, Same
<1>2. ActiveIsWorked'
  <2>1. RoundRuns => RoundRuns'
    BY <1>0 DEF RoundRuns, Same
  <2>2. RoundDecided => RoundDecided'
    BY <1>0 DEF RoundDecided, Same
  <2>3. RoundStarts => RoundStarts'
    BY <1>0 DEF RoundStarts, Same, Moved, Continuing
  <2> QED BY <2>1, <2>2, <2>3 DEF GoalInv, ActiveIsWorked
<1>3. PromptsAreCurrent'
  BY <1>0 DEF GoalInv, PromptsAreCurrent, Same
<1> QED BY <1>1, <1>2, <1>3 DEF GoalInv

LEMMA LeaveStays ==
  ASSUME TypeOK, GoalInv, goal' = goal, NEW r \in Runs,
         run[r].phase \notin Before, goal.next = r => run[r].phase \notin After,
         run[r].phase \in Continuing => Moved(r),
         run'[r].phase = "dispatch", run'[r].kind = "none",
         \A q \in Runs : q # r => Same(q)
  PROVE  GoalInv'
<1>0. goal.roundRun \in Runs \cup {None} /\ goal.next \in Runs \cup {None}
  BY GoalTypes
<1>1. RoundIsOwn'
  BY <1>0 DEF GoalInv, RoundIsOwn, Same, Executing
<1>2. ActiveIsWorked'
  <2>1. RoundRuns => RoundRuns'
    BY <1>0 DEF RoundRuns, Same, Before
  <2>2. RoundDecided => RoundDecided'
    BY <1>0 DEF RoundDecided, Same, After
  <2>3. RoundStarts => RoundStarts'
    BY <1>0 DEF RoundStarts, Same, Moved
  <2> QED BY <2>1, <2>2, <2>3 DEF GoalInv, ActiveIsWorked
<1>3. PromptsAreCurrent'
  BY <1>0 DEF GoalInv, PromptsAreCurrent, Same
<1> QED BY <1>1, <1>2, <1>3 DEF GoalInv

(* A goroutine that begins as a round of the goal. *)
LEMMA RoundBegins ==
  ASSUME TypeOK, GoalInv, NEW r \in Runs,
         run'[r].phase = "accepted", run'[r].kind # "compact",
         run'[r].asked = goal'.text, goal'.text # None, goal'.nonce # None,
         goal'.roundRun = r, goal'.runRevision = goal'.revision, goal'.revision \in Nat,
         \A q \in Runs : q # r => (\/ Same(q)
                                   \/ run'[q].phase = "dispatch" /\ run'[q].kind = "none"),
         \A q \in Runs : run[q].phase = "start" =>
           (goal'.nonce = run[q].nonce => /\ goal.nonce = goal'.nonce
                                          /\ goal.revision = goal'.revision
                                          /\ goal.text = goal'.text)
  PROVE  GoalInv'
<1>1. RoundIsOwn'
  <2>1. goal'.roundRun # None => /\ run'[goal'.roundRun].phase # "none"
                                 /\ run'[goal'.roundRun].asked # None
    OBVIOUS
  <2>2. \A q \in Runs : run'[q].kind = "compact" => run'[q].asked = None
    BY DEF GoalInv, RoundIsOwn, Same
  <2> QED BY <2>1, <2>2 DEF RoundIsOwn
<1>2. ActiveIsWorked'
  BY NoneAssumption DEF ActiveIsWorked, RoundRuns
<1>3. PromptsAreCurrent'
  <2>1. \A q \in Runs : run'[q].phase = "start" => run'[q] = run[q]
    BY DEF Same
  <2>2. \A q \in Runs : run'[q].phase = "start" =>
          /\ run'[q].nonce # None
          /\ run'[q].nonce = goal'.nonce => run'[q].revision <= goal'.revision
          /\ run'[q].nonce = goal'.nonce /\ run'[q].revision = goal'.revision =>
               run'[q].text = goal'.text
    BY <2>1 DEF GoalInv, PromptsAreCurrent
  <2> QED BY <2>2 DEF PromptsAreCurrent
<1> QED BY <1>1, <1>2, <1>3 DEF GoalInv

LEMMA GoalStep ==
  ASSUME TypeOK, GoalInv, Next
  PROVE  GoalInv'
<1>1. ASSUME NEW n \in Notices, Notify(n) PROVE GoalInv'
  <2>1. goal' = goal /\ \A s \in Runs : Alike(s)
    BY <1>1, SameAlike DEF Notify, sessionVars, goalVars, Same
  <2> QED BY <2>1, AlikeStays
<1>2. ASSUME TaskSettles PROVE GoalInv'
  <2>1. goal' = goal /\ \A s \in Runs : Alike(s)
    BY <1>2, SameAlike DEF TaskSettles, sessionVars, goalVars, Same
  <2> QED BY <2>1, AlikeStays
<1>3. ASSUME Kick PROVE GoalInv'
  <2>1. goal' = goal /\ \A s \in Runs : Alike(s)
    BY <1>3, SameAlike DEF Kick, sessionVars, goalVars, Same
  <2> QED BY <2>1, AlikeStays
<1>4. ASSUME WakeConflicts PROVE GoalInv'
  <2>1. goal' = goal /\ \A s \in Runs : Alike(s)
    BY <1>4, SameAlike DEF WakeConflicts, sessionVars, goalVars, Same
  <2> QED BY <2>1, AlikeStays
<1>5. ASSUME WakeRefused PROVE GoalInv'
  <2>1. goal' = goal /\ \A s \in Runs : Alike(s)
    BY <1>5, SameAlike DEF WakeRefused, sessionVars, goalVars, Same
  <2> QED BY <2>1, AlikeStays
<1>6. ASSUME NEW r \in Runs, WakeAccepted(r) PROVE GoalInv'
  <2>1. Begin(r, "wake", None) /\ goal' = goal
    BY <1>6 DEF WakeAccepted, goalVars
  <2> QED BY <2>1, BeginFacts, BeginStays, NoneAssumption DEF Kind
<1>7. ASSUME TurnTakesNotices PROVE GoalInv'
  <2>1. goal' = goal /\ \A s \in Runs : Alike(s)
    BY <1>7, SameAlike DEF TurnTakesNotices, sessionVars, goalVars, Same
  <2> QED BY <2>1, AlikeStays
<1>8. ASSUME NEW r \in Runs, TurnBegins(r) PROVE GoalInv'
  <2>1. \A s \in Runs : s # r => Alike(s)
    BY <1>8, MoveFacts, SameAlike DEF TurnBegins, Phase
  <2>2. Alike(r)
    BY <1>8, MoveFacts DEF TurnBegins, Phase, Alike, Before, After, Continuing, Executing
  <2>3. goal' = goal
    BY <1>8 DEF TurnBegins, goalVars
  <2> QED BY <2>1, <2>2, <2>3, AlikeStays
<1>9. ASSUME NEW r \in Runs, TurnEnds(r) PROVE GoalInv'
  <2>1. \A s \in Runs : s # r => Alike(s)
    BY <1>9, MoveFacts, SameAlike DEF TurnEnds, Phase
  <2>2. Alike(r)
    BY <1>9, MoveFacts DEF TurnEnds, Phase, Alike, Before, After, Continuing, Executing
  <2>3. goal' = goal
    BY <1>9 DEF TurnEnds, goalVars
  <2> QED BY <2>1, <2>2, <2>3, AlikeStays
<1>10. ASSUME NEW r \in Runs, EvaluateGoal(r) PROVE GoalInv'
  <2>1. /\ run[r].phase = "ended" /\ run'[r].phase = "evaluated"
        /\ run'[r].kind = run[r].kind /\ run'[r].asked = run[r].asked
        /\ \A s \in Runs : s # r => Same(s)
    BY <1>10, MoveFacts DEF EvaluateGoal, Phase
  <2>2. IF goal.status = "active" /\ goal.roundRun = r THEN Outcome(r) ELSE goal' = goal
    BY <1>10, OutcomeFacts
  <2>a. goal.round + 1 \in Nat /\ goal.roundRun \in Runs \cup {None}
        /\ goal.next \in Runs \cup {None}
    BY GoalTypes
  <2>3. CASE goal' = goal /\ ~(goal.status = "active" /\ goal.roundRun = r)
    <3>1. RoundIsOwn'
      BY <2>a, <2>1, <2>3 DEF GoalInv, RoundIsOwn, Same, Executing
    <3>2. ActiveIsWorked'
      <4>1. ~(goal.roundRun = r) /\ RoundRuns => RoundRuns'
        BY <2>a, <2>1, <2>3 DEF RoundRuns, Same
      <4>2. RoundDecided => RoundDecided'
        BY <2>a, <2>1, <2>3 DEF RoundDecided, Same
      <4>3. RoundStarts => RoundStarts'
        BY <2>a, <2>1, <2>3 DEF RoundStarts, Same, Moved, Continuing
      <4> QED BY <2>3, <4>1, <4>2, <4>3 DEF GoalInv, ActiveIsWorked
    <3>3. PromptsAreCurrent'
      BY <2>a, <2>1, <2>3 DEF GoalInv, PromptsAreCurrent, Same
    <3> QED BY <3>1, <3>2, <3>3 DEF GoalInv
  <2>4. CASE goal' = Met
    <3>1. /\ goal'.status = "met" /\ ~goal'.awaiting /\ goal'.roundRun = None
          /\ goal'.nonce = None /\ goal'.runRevision = 0 /\ goal'.revision = 0
      BY <2>4, MetFacts
    <3>2. \A q \in Runs : run'[q].phase = "start" => run'[q] = run[q]
      BY <2>1 DEF Same
    <3>3. \A q \in Runs : run'[q].kind = "compact" => run'[q].asked = None
      BY <2>1 DEF Same, GoalInv, RoundIsOwn
    <3> QED BY <3>1, <3>2, <3>3 DEF GoalInv, RoundIsOwn, ActiveIsWorked, PromptsAreCurrent
  <2>5. CASE /\ goal.status = "active" /\ goal.roundRun = r
             /\ goal' = NotDone \/ goal' = NeedsInput
    <3>1. /\ goal'.status = "paused" /\ goal'.roundRun = r /\ goal'.nonce = goal.nonce
          /\ goal'.runRevision = goal.runRevision /\ goal'.revision = goal.revision
          /\ goal'.text = goal.text
      BY <2>5, NotDoneFacts, NeedsInputFacts
    <3>2. RoundIsOwn'
      BY <2>1, <2>5, <3>1 DEF GoalInv, RoundIsOwn, Same, Executing
    <3>3. PromptsAreCurrent'
      BY <2>1, <2>5, <3>1 DEF GoalInv, PromptsAreCurrent, Same
    <3> QED BY <3>1, <3>2, <3>3 DEF GoalInv, ActiveIsWorked
  <2>6. CASE /\ goal.status = "active" /\ goal.roundRun = r
             /\ goal' = [goal EXCEPT !.round = goal.round + 1, !.next = r]
    <3>1. /\ goal'.status = goal.status /\ goal'.roundRun = r /\ goal'.nonce = goal.nonce
          /\ goal'.runRevision = goal.runRevision /\ goal'.revision = goal.revision
          /\ goal'.text = goal.text /\ goal'.next = r
      BY <2>a, <2>6, NextRoundFacts
    <3>2. RoundIsOwn'
      BY <2>1, <2>6, <3>1 DEF GoalInv, RoundIsOwn, Same, Executing
    <3>3. PromptsAreCurrent'
      BY <2>1, <2>6, <3>1 DEF GoalInv, PromptsAreCurrent, Same
    <3>4. ActiveIsWorked'
      BY <2>1, <3>1, NoneAssumption DEF ActiveIsWorked, RoundDecided
    <3> QED BY <3>2, <3>3, <3>4 DEF GoalInv
  <2> QED BY <2>2, <2>3, <2>4, <2>5, <2>6 DEF Outcome
<1>11. ASSUME NEW r \in Runs, RunDone(r) PROVE GoalInv'
  <2>1. \A s \in Runs : s # r => Alike(s)
    BY <1>11, MoveFacts, SameAlike DEF RunDone, Phase
  <2>2. Alike(r)
    BY <1>11, MoveFacts DEF RunDone, Phase, Alike, Before, After, Continuing, Executing
  <2>3. goal' = goal
    BY <1>11 DEF RunDone, goalVars
  <2> QED BY <2>1, <2>2, <2>3, AlikeStays
<1>12. ASSUME NEW r \in Runs, TakeRound(r) PROVE GoalInv'
  <2>1. CASE goal.next = r
    <3>1. goal' = [goal EXCEPT !.next = None]
      BY <1>12, <2>1 DEF TakeRound
    <3>2. /\ goal'.status = goal.status /\ goal'.awaiting = goal.awaiting
          /\ goal'.roundRun = goal.roundRun
          /\ goal'.nonce = goal.nonce /\ goal'.round = goal.round
          /\ goal'.runRevision = goal.runRevision /\ goal'.revision = goal.revision
          /\ goal'.text = goal.text
      BY <3>1, TakenFacts
    <3>3. /\ run'[r].phase = "check" /\ run'[r].nonce = goal.nonce
          /\ run'[r].round = goal.round /\ run'[r].kind = "none"
          /\ \A s \in Runs : s # r => Same(s)
      BY <1>12, <2>1, TakeFacts
    <3>4. run[r].phase = "tail"
      BY <1>12 DEF TakeRound
    <3>5. RoundIsOwn'
      BY <3>2, <3>3, GoalTypes DEF GoalInv, RoundIsOwn, Same, Executing
    <3>6. ActiveIsWorked'
      BY <3>2, <3>3 DEF ActiveIsWorked, RoundStarts, Moved, Continuing
    <3>7. PromptsAreCurrent'
      BY <3>2, <3>3, GoalTypes DEF GoalInv, PromptsAreCurrent, Same
    <3> QED BY <3>5, <3>6, <3>7 DEF GoalInv
  <2>2. CASE goal.next # r
    BY <1>12, <2>2, LeaveFacts, LeaveStays DEF TakeRound, Before, Continuing
  <2> QED BY <2>1, <2>2
<1>13. ASSUME NEW r \in Runs, BuildRound(r) PROVE GoalInv'
  <2>1. CASE Moved(r)
    BY <1>13, <2>1, LeaveFacts, LeaveStays DEF BuildRound, goalVars, Before, After
  <2>2. CASE ~Moved(r)
    <3>1. /\ run'[r].phase = "start" /\ run'[r].nonce = run[r].nonce
          /\ run'[r].round = run[r].round /\ run'[r].text = goal.text
          /\ run'[r].revision = goal.revision /\ run'[r].kind = run[r].kind
          /\ run'[r].asked = run[r].asked
          /\ \A s \in Runs : s # r => Same(s)
      BY <1>13, <2>2, BuildFacts
    <3>2. run[r].phase = "check" /\ goal' = goal
      BY <1>13 DEF BuildRound, goalVars
    <3>3. goal.status = "active" /\ goal.nonce = run[r].nonce /\ goal.round = run[r].round
      BY <2>2 DEF Moved
    <3>4. goal.nonce # None
      BY <3>3 DEF GoalInv, RoundIsOwn
    <3>5. RoundIsOwn'
      BY <3>1, <3>2, GoalTypes DEF GoalInv, RoundIsOwn, Same, Executing
    <3>6. ActiveIsWorked'
      BY <3>1, <3>2, <3>3 DEF ActiveIsWorked, RoundStarts, Moved, Continuing
    <3>7. PromptsAreCurrent'
      BY <3>1, <3>2, <3>3, <3>4, GoalTypes DEF GoalInv, PromptsAreCurrent, Same
    <3> QED BY <3>5, <3>6, <3>7 DEF GoalInv
  <2> QED BY <2>1, <2>2
<1>14. ASSUME NEW r \in Runs, RoundStale(r) PROVE GoalInv'
  <2>1. goal' = goal
    BY <1>14 DEF RoundStale, goalVars
  <2>2. CASE Moved(r)
    BY <1>14, <2>1, <2>2, LeaveFacts, LeaveStays DEF RoundStale, Before, After
  <2>3. CASE ~Moved(r)
    <3>1. \A s \in Runs : s # r => Alike(s)
      BY <1>14, <2>3, MoveFacts, SameAlike DEF RoundStale, Phase
    <3>2. Alike(r)
      BY <1>14, <2>3, MoveFacts
         DEF RoundStale, Phase, Alike, Before, After, Continuing, Executing
    <3> QED BY <2>1, <3>1, <3>2, AlikeStays
  <2> QED BY <2>2, <2>3
<1>15. ASSUME NEW r \in Runs, RoundRetries(r) PROVE GoalInv'
  <2>1. \A s \in Runs : s # r => Alike(s)
    BY <1>15, RetryFacts, SameAlike DEF RoundRetries, Phase
  <2>2. Alike(r)
    BY <1>15, RetryFacts DEF RoundRetries, Phase, Alike, Before, After, Continuing, Executing
  <2>3. goal' = goal
    BY <1>15 DEF RoundRetries, goalVars
  <2> QED BY <2>1, <2>2, <2>3, AlikeStays
<1>16. ASSUME NEW r \in Runs, RoundRefused(r) PROVE GoalInv'
  <2>1. \A s \in Runs : s # r => Alike(s)
    BY <1>16, MoveFacts, SameAlike DEF RoundRefused, Phase
  <2>2. Alike(r)
    BY <1>16, MoveFacts DEF RoundRefused, Phase, Alike, Before, After, Continuing, Executing
  <2>3. goal' = goal
    BY <1>16 DEF RoundRefused, goalVars
  <2> QED BY <2>1, <2>2, <2>3, AlikeStays
<1>17. ASSUME NEW r \in Runs, GiveUp(r) PROVE GoalInv'
  <2>1. run[r].phase = "giveup" /\ run' = Leaves(r)
    BY <1>17 DEF GiveUp
  <2>2. /\ run'[r].phase = "dispatch" /\ run'[r].kind = "none"
        /\ \A s \in Runs : s # r => Same(s)
    BY <2>1, LeaveFacts
  <2>3. CASE Moved(r)
    BY <1>17, <2>1, <2>2, <2>3, LeaveStays DEF GiveUp, Before, After
  <2>4. CASE ~Moved(r)
    <3>1. /\ goal'.status = "paused" /\ ~goal'.awaiting
          /\ goal'.roundRun = goal.roundRun /\ goal'.nonce = goal.nonce
          /\ goal'.runRevision = goal.runRevision /\ goal'.revision = goal.revision
          /\ goal'.text = goal.text
      BY <1>17, <2>4, NotDoneFacts DEF GiveUp
    <3>2. RoundIsOwn'
      BY <2>2, <3>1, GoalTypes DEF GoalInv, RoundIsOwn, Same, Executing
    <3>3. PromptsAreCurrent'
      BY <2>2, <3>1, GoalTypes DEF GoalInv, PromptsAreCurrent, Same
    <3> QED BY <3>1, <3>2, <3>3 DEF GoalInv, ActiveIsWorked
  <2> QED BY <2>3, <2>4
<1>18. ASSUME NEW r \in Runs, RunEnds(r) PROVE GoalInv'
  <2> DEFINE o == IF goal.roundRun = r THEN None ELSE goal.roundRun
  <2>1. o \in Runs \cup {None} /\ goal' = [goal EXCEPT !.roundRun = o]
    BY <1>18, GoalTypes DEF RunEnds
  <2>2. /\ goal'.status = goal.status /\ goal'.awaiting = goal.awaiting
        /\ goal'.roundRun = o /\ goal'.nonce = goal.nonce /\ goal'.round = goal.round
        /\ goal'.runRevision = goal.runRevision /\ goal'.revision = goal.revision
        /\ goal'.text = goal.text /\ goal'.next = goal.next
    BY <2>1, ForgetFacts
  <2>3. /\ run[r].phase = "dispatch" /\ run'[r].phase = "none" /\ run'[r].kind = "none"
        /\ \A s \in Runs : s # r => Same(s)
    BY <1>18, EndFacts DEF RunEnds, NoRun
  <2>a. goal.roundRun \in Runs \cup {None} /\ goal.next \in Runs \cup {None}
    BY GoalTypes
  <2>4. RoundIsOwn'
    BY <2>a, <2>2, <2>3 DEF GoalInv, RoundIsOwn, Same
  <2>5. ActiveIsWorked'
    <3>1. RoundRuns => RoundRuns'
      BY <2>a, <2>2, <2>3 DEF RoundRuns, Same
    <3>2. RoundDecided => RoundDecided'
      BY <2>a, <2>2, <2>3 DEF RoundDecided, Same
    <3>3. RoundStarts => RoundStarts'
      BY <2>a, <2>2, <2>3 DEF RoundStarts, Same, Moved, Continuing
    <3> QED BY <2>2, <3>1, <3>2, <3>3 DEF GoalInv, ActiveIsWorked
  <2>6. PromptsAreCurrent'
    BY <2>a, <2>2, <2>3 DEF GoalInv, PromptsAreCurrent, Same
  <2> QED BY <2>4, <2>5, <2>6 DEF GoalInv
<1>19. ASSUME NEW r \in Runs, CompactFinish(r) PROVE GoalInv'
  <2>1. /\ run[r].phase = "accepted" /\ run[r].kind = "compact" /\ goal' = goal
        /\ run'[r].phase = "none" /\ run'[r].kind = "none"
        /\ \A s \in Runs : s # r => Same(s)
    BY <1>19, EndFacts DEF CompactFinish, NoRun, goalVars
  <2>a. goal.roundRun \in Runs \cup {None} /\ goal.next \in Runs \cup {None}
    BY GoalTypes
  <2>2. goal.roundRun # r
    BY <2>1, NoneAssumption DEF GoalInv, RoundIsOwn, Executing
  <2>4. RoundIsOwn'
    BY <2>a, <2>1, <2>2 DEF GoalInv, RoundIsOwn, Same
  <2>5. ActiveIsWorked'
    <3>1. RoundRuns => RoundRuns'
      BY <2>a, <2>1, <2>2 DEF RoundRuns, Same
    <3>2. RoundDecided => RoundDecided'
      BY <2>a, <2>1, <2>2 DEF RoundDecided, Same
    <3>3. RoundStarts => RoundStarts'
      BY <2>a, <2>1, <2>2 DEF RoundStarts, Same, Moved, Continuing
    <3> QED BY <2>1, <3>1, <3>2, <3>3 DEF GoalInv, ActiveIsWorked
  <2>6. PromptsAreCurrent'
    BY <2>a, <2>1, <2>2 DEF GoalInv, PromptsAreCurrent, Same
  <2> QED BY <2>4, <2>5, <2>6 DEF GoalInv
<1>20. ASSUME NEW r \in Runs, NEW q \in Runs, RoundAccepted(r, q) PROVE GoalInv'
  <2>0. run[r].revision \in Nat
    BY DEF TypeOK, Run
  <2>1. ~Stale(r) /\ run[r].phase = "start"
        /\ goal' = [goal EXCEPT !.runRevision = run[r].revision, !.roundRun = q]
    BY <1>20 DEF RoundAccepted
  <2>2. /\ goal'.text = goal.text /\ goal'.nonce = goal.nonce /\ goal'.roundRun = q
        /\ goal'.runRevision = run[r].revision /\ goal'.revision = goal.revision
    BY <2>0, <2>1, OwnerFacts
  <2>3. /\ goal.status = "active" /\ goal.nonce = run[r].nonce
        /\ goal.revision = run[r].revision
    BY <2>1 DEF Stale, Moved
  <2>4. goal.text # None /\ goal.nonce # None /\ run[r].text = goal.text
    BY <2>1, <2>3 DEF GoalInv, RoundIsOwn, PromptsAreCurrent
  <2>5. /\ run'[q].phase = "accepted" /\ run'[q].kind = "goal"
        /\ run'[q].asked = run[r].text
        /\ run'[r].phase = "dispatch" /\ run'[r].kind = "none"
        /\ \A s \in Runs : s \notin {r, q} => Same(s)
    BY <1>20, RoundFacts
  <2>6. \A s \in Runs : s # q => (\/ Same(s)
                                  \/ run'[s].phase = "dispatch" /\ run'[s].kind = "none")
    BY <2>5
  <2> QED BY <2>2, <2>3, <2>4, <2>5, <2>6, GoalTypes, RoundBegins
<1>21. ASSUME QueueSettle PROVE GoalInv'
  <2>1. goal' = goal /\ \A s \in Runs : Alike(s)
    BY <1>21, SameAlike DEF QueueSettle, sessionVars, goalVars, Same
  <2> QED BY <2>1, AlikeStays
<1>22. ASSUME NEW r \in Runs, QueueDispatch(r) PROVE GoalInv'
  <2>1. Begin(r, "queued", None) /\ goal' = goal
    BY <1>22 DEF QueueDispatch, goalVars, AcceptOther
  <2> QED BY <2>1, BeginFacts, BeginStays, NoneAssumption DEF Kind
<1>23. ASSUME NEW r \in Runs, Message(r) PROVE GoalInv'
  <2>1. CASE Awaiting
    <3>0. goal.text # None /\ goal.nonce # None /\ goal.text \in Texts \cup {None}
      BY <2>1, GoalTypes DEF Awaiting, GoalInv, RoundIsOwn
    <3>1. Begin(r, "message", goal.text)
      BY <1>23, <2>1 DEF Message, AcceptOther
    <3>2. goal' = [goal EXCEPT !.status = "active", !.awaiting = FALSE,
                               !.roundRun = r, !.runRevision = goal.revision]
      BY <1>23, <2>1 DEF Message
    <3>3. /\ goal'.text = goal.text /\ goal'.nonce = goal.nonce /\ goal'.roundRun = r
          /\ goal'.runRevision = goal.revision /\ goal'.revision = goal.revision
      BY <3>2, AnswerFacts
    <3>4. /\ run'[r].phase = "accepted" /\ run'[r].kind = "message"
          /\ run'[r].asked = goal.text /\ \A s \in Runs : s # r => Same(s)
      BY <3>0, <3>1, BeginFacts DEF Kind
    <3> QED BY <3>0, <3>3, <3>4, GoalTypes, RoundBegins
  <2>2. CASE ~Awaiting
    <3>1. Begin(r, "message", None) /\ goal' = goal
      BY <1>23, <2>2 DEF Message, AcceptOther
    <3> QED BY <3>1, BeginFacts, BeginStays DEF Kind
  <2> QED BY <2>1, <2>2
<1>24. ASSUME NEW r \in Runs, ScheduledRun(r) PROVE GoalInv'
  <2>1. Begin(r, "cron", None) /\ goal' = goal
    BY <1>24 DEF ScheduledRun, goalVars, AcceptOther
  <2> QED BY <2>1, BeginFacts, BeginStays, NoneAssumption DEF Kind
<1>25. ASSUME NEW r \in Runs, Compact(r) PROVE GoalInv'
  <2>1. Begin(r, "compact", None) /\ goal' = goal
    BY <1>25 DEF Compact, goalVars
  <2> QED BY <2>1, BeginFacts, BeginStays, NoneAssumption DEF Kind
<1>26. ASSUME QueueAdd PROVE GoalInv'
  <2>1. goal' = goal /\ \A s \in Runs : Alike(s)
    BY <1>26, SameAlike DEF QueueAdd, sessionVars, goalVars, Same
  <2> QED BY <2>1, AlikeStays
<1>27. ASSUME QueueRemove PROVE GoalInv'
  <2>1. goal' = goal /\ \A s \in Runs : Alike(s)
    BY <1>27, SameAlike DEF QueueRemove, sessionVars, goalVars, Same
  <2> QED BY <2>1, AlikeStays
<1>28. ASSUME CancelRun PROVE GoalInv'
  <2>1. run' = run \/ (active \in Runs /\ run' = Cancelled(active))
    BY <1>28 DEF TypeOK, CancelRun
  <2>2. \A s \in Runs : Alike(s)
    BY <2>1, CancelFacts, SameAlike DEF Alike, Same
  <2>3. goal' = goal
    BY <1>28 DEF CancelRun, goalVars
  <2> QED BY <2>2, <2>3, AlikeStays
<1>29. ASSUME CloseSession PROVE GoalInv'
  <2>1. run' = run \/ (active \in Runs /\ run' = Cancelled(active))
    BY <1>29 DEF TypeOK, CloseSession
  <2>2. \A s \in Runs : Alike(s)
    BY <2>1, CancelFacts, SameAlike DEF Alike, Same
  <2>3. goal' = goal
    BY <1>29 DEF CloseSession, goalVars
  <2> QED BY <2>2, <2>3, AlikeStays
<1>30. ASSUME DeleteSession PROVE GoalInv'
  <2>1. goal' = goal /\ \A s \in Runs : Alike(s)
    BY <1>30, SameAlike DEF DeleteSession, sessionVars, goalVars, Same
  <2> QED BY <2>1, AlikeStays
<1>31. ASSUME Reload PROVE GoalInv'
  <2> DEFINE s == IF goal.text = None THEN "none" ELSE "paused"
  <2>1. s \in {"none", "paused"} /\ goal' = [NoGoal EXCEPT !.text = goal.text, !.status = s]
    BY <1>31 DEF Reload
  <2>2. \A q \in Runs : Alike(q)
    BY <1>31, SameAlike DEF Reload, sessionVars, Same
  <2> HIDE DEF s
  <2>3. s # "active"
    BY <2>1
  <2> QED BY <2>1, <2>2, <2>3, GoalTypes, ReloadFacts, NothingRests
<1>32. ASSUME NEW r \in Runs, NEW t \in Texts, NEW x \in Nonces, SetGoal(r, t, x) PROVE GoalInv'
  <2>0. t \in Texts
    OBVIOUS
  <2>1. Begin(r, "goal", t) /\ goal' = NewGoal(t, x, r) /\ Fresh(x)
    BY <1>32 DEF SetGoal, AcceptOther
  <2>2. /\ goal'.text = t /\ goal'.nonce = x /\ goal'.roundRun = r
        /\ goal'.runRevision = 0 /\ goal'.revision = 0
    BY <2>0, <2>1, NewGoalFacts
  <2>3. /\ run'[r].phase = "accepted" /\ run'[r].kind = "goal"
        /\ run'[r].asked = t /\ \A s \in Runs : s # r => Same(s)
    BY <2>0, <2>1, BeginFacts DEF Kind
  <2>4. \A s \in Runs : run[s].nonce # x
    BY <2>1 DEF Fresh
  <2> QED BY <2>0, <2>2, <2>3, <2>4, NoneAssumption, RoundBegins
<1>33. ASSUME ResumeGoal PROVE GoalInv'
  <2>1. goal' = goal /\ \A s \in Runs : Alike(s)
    BY <1>33, SameAlike DEF ResumeGoal, sessionVars, goalVars, Same
  <2> QED BY <2>1, AlikeStays
<1>34. ASSUME ResumeRefused PROVE GoalInv'
  <2>1. goal' = goal /\ \A s \in Runs : Alike(s)
    BY <1>34, SameAlike DEF ResumeRefused, sessionVars, goalVars, Same
  <2> QED BY <2>1, AlikeStays
<1>35. ASSUME NEW r \in Runs, NEW x \in Nonces, ResumeAccepted(r, x) PROVE GoalInv'
  <2>0. resuming \in Texts
    BY <1>35 DEF TypeOK, ResumeAccepted
  <2>1. Begin(r, "goal", resuming) /\ goal' = NewGoal(resuming, x, r) /\ Fresh(x)
    BY <1>35 DEF ResumeAccepted, AcceptOther
  <2>2. /\ goal'.text = resuming /\ goal'.nonce = x /\ goal'.roundRun = r
        /\ goal'.runRevision = 0 /\ goal'.revision = 0
    BY <2>0, <2>1, NewGoalFacts
  <2>3. /\ run'[r].phase = "accepted" /\ run'[r].kind = "goal"
        /\ run'[r].asked = resuming /\ \A s \in Runs : s # r => Same(s)
    BY <2>0, <2>1, BeginFacts DEF Kind
  <2>4. \A s \in Runs : run[s].nonce # x
    BY <2>1 DEF Fresh
  <2> QED BY <2>0, <2>2, <2>3, <2>4, NoneAssumption, RoundBegins
<1>36. ASSUME PauseGoal PROVE GoalInv'
  <2>1. run' = run \/ (active \in Runs /\ run' = Cancelled(active))
    BY <1>36 DEF TypeOK, PauseGoal, StopOwnRun, GoalOwnsRun
  <2>2. \A s \in Runs : Alike(s)
    BY <2>1, CancelFacts, SameAlike DEF Alike, Same
  <2>3. goal' = [goal EXCEPT !.status = "paused", !.awaiting = FALSE, !.next = None]
    BY <1>36 DEF PauseGoal
  <2> QED BY <2>2, <2>3, PauseFacts, AlikeRests
<1>37. ASSUME ClearGoal PROVE GoalInv'
  <2>1. run' = run \/ (active \in Runs /\ run' = Cancelled(active))
    BY <1>37 DEF TypeOK, ClearGoal, StopOwnRun, GoalOwnsRun
  <2>2. \A s \in Runs : Alike(s)
    BY <2>1, CancelFacts, SameAlike DEF Alike, Same
  <2>3. goal' = NoGoal
    BY <1>37 DEF ClearGoal
  <2> QED BY <2>2, <2>3, NoGoalFacts, NothingRests
<1>38. ASSUME NEW t \in Texts, UpdateGoal(t) PROVE GoalInv'
  <2>0. goal.revision \in Nat /\ goal.runRevision \in Nat /\ goal.revision + 1 \in Nat
        /\ goal.roundRun \in Runs \cup {None} /\ goal.next \in Runs \cup {None}
    BY GoalTypes
  <2>1. /\ goal'.text = t /\ goal'.revision = goal.revision + 1
        /\ goal'.status = goal.status /\ (goal'.awaiting <=> goal.awaiting)
        /\ goal'.nonce = goal.nonce /\ goal'.round = goal.round
        /\ goal'.roundRun = goal.roundRun /\ goal'.next = goal.next
        /\ goal'.runRevision = goal.runRevision
    BY <1>38, <2>0, UpdateFacts DEF UpdateGoal
  <2>2. run' = run
    BY <1>38 DEF UpdateGoal, sessionVars
  <2>3. RoundIsOwn'
    BY <2>1, <2>2, NoneAssumption DEF GoalInv, RoundIsOwn
  <2>4. ActiveIsWorked'
    BY <2>0, <2>1, <2>2
       DEF GoalInv, ActiveIsWorked, RoundRuns, RoundDecided, RoundStarts, Moved
  <2>5. PromptsAreCurrent'
    <3>1. \A q \in Runs : run[q].revision \in Nat
      BY DEF TypeOK, Run
    <3> QED BY <2>0, <2>1, <2>2, <3>1 DEF GoalInv, PromptsAreCurrent
  <2> QED BY <2>3, <2>4, <2>5 DEF GoalInv
<1> QED BY <1>1, <1>2, <1>3, <1>4, <1>5, <1>6, <1>7, <1>8, <1>9, <1>10,
           <1>11, <1>12, <1>13, <1>14, <1>15, <1>16, <1>17, <1>18, <1>19,
           <1>20, <1>21, <1>22, <1>23, <1>24, <1>25, <1>26, <1>27, <1>28,
           <1>29, <1>30, <1>31, <1>32, <1>33, <1>34, <1>35, <1>36, <1>37,
           <1>38
    DEF Next, Starter, QueueWorker, Clients, Goroutine

-----------------------------------------------------------------------------
(* The theorems. *)

LEMMA InitInv == Init => IInv
<1> SUFFICES ASSUME Init PROVE IInv
  OBVIOUS
<1> USE DEF Init
<1>1. TypeOK
  <2>1. run \in [Runs -> Run] /\ goal \in Goal /\ wake \in Wake
    BY NoRunType, NoGoalType, NoWakeType
  <2>2. queued \in 0..MaxQueued /\ kicks \in 0..MaxKicks /\ inRow \in Nat
    BY BoundAssumption
  <2>3. /\ active \in Runs \cup {None} /\ settling \in BOOLEAN /\ gone \in BOOLEAN
        /\ pending \in SUBSET Notices /\ flight \in SUBSET Notices
        /\ settled \in SUBSET Notices /\ overlooked \in BOOLEAN
        /\ resuming \in Texts \cup {None}
    OBVIOUS
  <2> QED BY <2>1, <2>2, <2>3 DEF TypeOK
<1>2. OneExecutes
  BY NoneAssumption DEF OneExecutes, NoRun, Executing
<1>3. AccountedFor
  BY DEF AccountedFor, NoWake
<1>4. StreakCounts
  BY LimitAssumption DEF StreakCounts, Starting, NoWake
<1>5. ActiveIsWorked
  BY DEF ActiveIsWorked, NoGoal
<1>6. RoundIsOwn
  BY DEF RoundIsOwn, NoGoal, NoRun
<1>7. PromptsAreCurrent
  BY DEF PromptsAreCurrent, NoGoal, NoRun
<1> QED BY <1>1, <1>2, <1>3, <1>4, <1>5, <1>6, <1>7 DEF IInv

LEMMA StutterInv == IInv /\ UNCHANGED vars => IInv'
<1> SUFFICES ASSUME IInv, UNCHANGED vars PROVE IInv'
  OBVIOUS
<1> USE DEF vars, sessionVars, wakeVars, goalVars, IInv
<1>1. TypeOK'
  BY DEF TypeOK
<1>2. OneExecutes'
  BY DEF OneExecutes
<1>3. AccountedFor'
  BY DEF AccountedFor, TurnRunning
<1>4. StreakCounts'
  BY DEF StreakCounts, Starting
<1>5. ActiveIsWorked'
  BY DEF ActiveIsWorked, RoundRuns, RoundDecided, RoundStarts, Moved
<1>6. RoundIsOwn'
  BY DEF RoundIsOwn
<1>7. PromptsAreCurrent'
  BY DEF PromptsAreCurrent
<1> QED BY <1>1, <1>2, <1>3, <1>4, <1>5, <1>6, <1>7

LEMMA NextInv == IInv /\ [Next]_vars => IInv'
<1>1. ASSUME IInv, Next PROVE IInv'
  <2>1. TypeOK' /\ OneExecutes' /\ AccountedFor' /\ StreakCounts'
    BY <1>1, TypeStep, OneStep, AccountStep, StreakStep DEF IInv
  <2>2. GoalInv'
    BY <1>1, GoalStep DEF IInv, GoalInv
  <2> QED BY <2>1, <2>2 DEF IInv, GoalInv
<1> QED BY <1>1, StutterInv

(* The inductive invariant holds in every reachable state. *)
THEOREM InvariantHolds == Spec => []IInv
<1> QED BY InitInv, NextInv, PTL DEF Spec

(* Every variable keeps its type: in particular a starting round is retried  *)
(* at most goalBusyRetries times (continueGoal, goal.go).                    *)
THEOREM TypeCorrect == Spec => []TypeOK
<1>1. IInv => TypeOK
  BY DEF IInv
<1> QED BY <1>1, InvariantHolds, PTL

(* No notice is lost or delivered twice between the turn's mailbox, the      *)
(* backlog and the starter (queueWakeLocked, startWakeRun, wake.go).         *)
THEOREM NoticesAccountedFor == Spec => []AccountedFor
<1>1. IInv => AccountedFor
  BY DEF IInv
<1> QED BY <1>1, InvariantHolds, PTL

(* Without another run, at most maxWakeStreak + 1 wake runs are accepted in  *)
(* a row (dispatchWakesLocked, noteRunAcceptedLocked, wake.go).              *)
THEOREM WakeRunsStop == Spec => []StreakIsBounded
<1>1. IInv => StreakIsBounded
  <2> SUFFICES ASSUME IInv PROVE StreakIsBounded
    OBVIOUS
  <2>1. wake.streak \in Int /\ inRow \in Nat /\ MaxWakeStreak \in Nat
    BY StreakTypes, LimitAssumption DEF IInv
  <2> QED BY <2>1 DEF IInv, StreakCounts, Starting, StreakIsBounded
<1> QED BY <1>1, InvariantHolds, PTL

(* A goal that says it is active has a goroutine that works on it            *)
(* (evaluateGoal, continueGoal, goal.go).                                    *)
THEOREM ActiveGoalIsWorked == Spec => []ActiveIsWorked
<1>1. IInv => ActiveIsWorked
  BY DEF IInv
<1> QED BY <1>1, InvariantHolds, PTL

LEMMA MetStep ==
  ASSUME TypeOK, GoalInv, Next
  PROVE  goal'.status = "met" /\ goal.status # "met" =>
           run[goal.roundRun].asked = goal.text
<1> DEFINE MetRight ==
             goal'.status = "met" /\ goal.status # "met" =>
               run[goal.roundRun].asked = goal.text
<1>1. ASSUME NEW n \in Notices, Notify(n) PROVE MetRight
  BY <1>1 DEF Notify, goalVars
<1>2. ASSUME TaskSettles PROVE MetRight
  BY <1>2 DEF TaskSettles, goalVars
<1>3. ASSUME Kick PROVE MetRight
  BY <1>3 DEF Kick, goalVars
<1>4. ASSUME WakeConflicts PROVE MetRight
  BY <1>4 DEF WakeConflicts, goalVars
<1>5. ASSUME WakeRefused PROVE MetRight
  BY <1>5 DEF WakeRefused, goalVars
<1>6. ASSUME NEW r \in Runs, WakeAccepted(r) PROVE MetRight
  BY <1>6 DEF WakeAccepted, goalVars
<1>7. ASSUME TurnTakesNotices PROVE MetRight
  BY <1>7 DEF TurnTakesNotices, goalVars
<1>8. ASSUME NEW r \in Runs, TurnBegins(r) PROVE MetRight
  BY <1>8 DEF TurnBegins, goalVars
<1>9. ASSUME NEW r \in Runs, TurnEnds(r) PROVE MetRight
  BY <1>9 DEF TurnEnds, goalVars
<1>10. ASSUME NEW r \in Runs, EvaluateGoal(r) PROVE MetRight
  <2>0. goal.round + 1 \in Nat
    BY GoalTypes
  <2>1. CASE goal.status = "active" /\ goal.roundRun = r /\ ForCurrentText
    BY <1>10, <2>1, NoneAssumption DEF EvaluateGoal, ForCurrentText, GoalInv, PromptsAreCurrent
  <2>2. CASE ~(goal.status = "active" /\ goal.roundRun = r)
    BY <1>10, <2>2 DEF EvaluateGoal
  <2>3. CASE goal.status = "active" /\ goal.roundRun = r /\ ~ForCurrentText
    BY <1>10, <2>0, <2>3, OutcomeFacts, NotDoneFacts, NextRoundFacts DEF Outcome
  <2> QED BY <2>1, <2>2, <2>3
<1>11. ASSUME NEW r \in Runs, RunDone(r) PROVE MetRight
  BY <1>11 DEF RunDone, goalVars
<1>12. ASSUME NEW r \in Runs, TakeRound(r) PROVE MetRight
  BY <1>12, TakenFacts DEF TakeRound
<1>13. ASSUME NEW r \in Runs, BuildRound(r) PROVE MetRight
  BY <1>13 DEF BuildRound, goalVars
<1>14. ASSUME NEW r \in Runs, RoundStale(r) PROVE MetRight
  BY <1>14 DEF RoundStale, goalVars
<1>15. ASSUME NEW r \in Runs, RoundRetries(r) PROVE MetRight
  BY <1>15 DEF RoundRetries, goalVars
<1>16. ASSUME NEW r \in Runs, RoundRefused(r) PROVE MetRight
  BY <1>16 DEF RoundRefused, goalVars
<1>17. ASSUME NEW r \in Runs, GiveUp(r) PROVE MetRight
  BY <1>17, NotDoneFacts DEF GiveUp
<1>18. ASSUME NEW r \in Runs, RunEnds(r) PROVE MetRight
  <2> DEFINE o == IF goal.roundRun = r THEN None ELSE goal.roundRun
  <2>1. o \in Runs \cup {None} /\ goal' = [goal EXCEPT !.roundRun = o]
    BY <1>18, GoalTypes DEF RunEnds
  <2>2. /\ goal'.status = goal.status /\ goal'.awaiting = goal.awaiting
        /\ goal'.roundRun = o /\ goal'.nonce = goal.nonce /\ goal'.round = goal.round
        /\ goal'.runRevision = goal.runRevision /\ goal'.revision = goal.revision
        /\ goal'.text = goal.text /\ goal'.next = goal.next
    BY <2>1, ForgetFacts
  <2> QED BY <2>2
<1>19. ASSUME NEW r \in Runs, CompactFinish(r) PROVE MetRight
  BY <1>19 DEF CompactFinish, goalVars
<1>20. ASSUME NEW r \in Runs, NEW q \in Runs, RoundAccepted(r, q) PROVE MetRight
  <2>1. run[r].revision \in Nat
    BY DEF TypeOK, Run
  <2> QED BY <1>20, <2>1, OwnerFacts DEF RoundAccepted
<1>21. ASSUME QueueSettle PROVE MetRight
  BY <1>21 DEF QueueSettle, goalVars
<1>22. ASSUME NEW r \in Runs, QueueDispatch(r) PROVE MetRight
  BY <1>22 DEF QueueDispatch, goalVars
<1>23. ASSUME NEW r \in Runs, Message(r) PROVE MetRight
  BY <1>23, AnswerFacts DEF Message
<1>24. ASSUME NEW r \in Runs, ScheduledRun(r) PROVE MetRight
  BY <1>24 DEF ScheduledRun, goalVars
<1>25. ASSUME NEW r \in Runs, Compact(r) PROVE MetRight
  BY <1>25 DEF Compact, goalVars
<1>26. ASSUME QueueAdd PROVE MetRight
  BY <1>26 DEF QueueAdd, goalVars
<1>27. ASSUME QueueRemove PROVE MetRight
  BY <1>27 DEF QueueRemove, goalVars
<1>28. ASSUME CancelRun PROVE MetRight
  BY <1>28 DEF CancelRun, goalVars
<1>29. ASSUME CloseSession PROVE MetRight
  BY <1>29 DEF CloseSession, goalVars
<1>30. ASSUME DeleteSession PROVE MetRight
  BY <1>30 DEF DeleteSession, goalVars
<1>31. ASSUME Reload PROVE MetRight
  <2> DEFINE s == IF goal.text = None THEN "none" ELSE "paused"
  <2>1. s \in {"none", "paused"} /\ goal' = [NoGoal EXCEPT !.text = goal.text, !.status = s]
    BY <1>31 DEF Reload
  <2> HIDE DEF s
  <2> QED BY <2>1, GoalTypes, ReloadFacts
<1>32. ASSUME NEW r \in Runs, NEW t \in Texts, NEW x \in Nonces, SetGoal(r, t, x) PROVE MetRight
  BY <1>32, NewGoalFacts DEF SetGoal
<1>33. ASSUME ResumeGoal PROVE MetRight
  BY <1>33 DEF ResumeGoal, goalVars
<1>34. ASSUME ResumeRefused PROVE MetRight
  BY <1>34 DEF ResumeRefused, goalVars
<1>35. ASSUME NEW r \in Runs, NEW x \in Nonces, ResumeAccepted(r, x) PROVE MetRight
  <2>0. resuming \in Texts
    BY <1>35 DEF TypeOK, ResumeAccepted
  <2> QED BY <1>35, <2>0, NewGoalFacts DEF ResumeAccepted
<1>36. ASSUME PauseGoal PROVE MetRight
  BY <1>36, PauseFacts DEF PauseGoal
<1>37. ASSUME ClearGoal PROVE MetRight
  BY <1>37, NoGoalFacts DEF ClearGoal
<1>38. ASSUME NEW t \in Texts, UpdateGoal(t) PROVE MetRight
  <2>1. goal.revision + 1 \in Nat
    BY GoalTypes
  <2> QED BY <1>38, <2>1, UpdateFacts DEF UpdateGoal
<1> QED BY <1>1, <1>2, <1>3, <1>4, <1>5, <1>6, <1>7, <1>8, <1>9, <1>10,
           <1>11, <1>12, <1>13, <1>14, <1>15, <1>16, <1>17, <1>18, <1>19,
           <1>20, <1>21, <1>22, <1>23, <1>24, <1>25, <1>26, <1>27, <1>28,
           <1>29, <1>30, <1>31, <1>32, <1>33, <1>34, <1>35, <1>36, <1>37,
           <1>38
    DEF Next, Starter, QueueWorker, Clients, Goroutine

LEMMA StopStep ==
  ASSUME TypeOK, OneExecutes, GoalInv, Next
  PROVE  goal' # goal => \A c \in Runs : run'[c].cancelled /\ ~run[c].cancelled =>
    run[c].asked # None
<1> DEFINE OnlyRounds ==
             goal' # goal => \A c \in Runs : run'[c].cancelled /\ ~run[c].cancelled =>
               run[c].asked # None
<1>1. ASSUME NEW n \in Notices, Notify(n) PROVE OnlyRounds
  BY <1>1 DEF Notify, goalVars
<1>2. ASSUME TaskSettles PROVE OnlyRounds
  BY <1>2 DEF TaskSettles, goalVars
<1>3. ASSUME Kick PROVE OnlyRounds
  BY <1>3 DEF Kick, goalVars
<1>4. ASSUME WakeConflicts PROVE OnlyRounds
  BY <1>4 DEF WakeConflicts, goalVars
<1>5. ASSUME WakeRefused PROVE OnlyRounds
  BY <1>5 DEF WakeRefused, goalVars
<1>6. ASSUME NEW r \in Runs, WakeAccepted(r) PROVE OnlyRounds
  BY <1>6 DEF WakeAccepted, goalVars
<1>7. ASSUME TurnTakesNotices PROVE OnlyRounds
  BY <1>7 DEF TurnTakesNotices, goalVars
<1>8. ASSUME NEW r \in Runs, TurnBegins(r) PROVE OnlyRounds
  BY <1>8 DEF TurnBegins, goalVars
<1>9. ASSUME NEW r \in Runs, TurnEnds(r) PROVE OnlyRounds
  BY <1>9 DEF TurnEnds, goalVars
<1>10. ASSUME NEW r \in Runs, EvaluateGoal(r) PROVE OnlyRounds
  BY <1>10, MoveFacts DEF EvaluateGoal, Phase, Same
<1>11. ASSUME NEW r \in Runs, RunDone(r) PROVE OnlyRounds
  BY <1>11 DEF RunDone, goalVars
<1>12. ASSUME NEW r \in Runs, TakeRound(r) PROVE OnlyRounds
  BY <1>12, TakeFacts, LeaveFacts DEF TakeRound, Same
<1>13. ASSUME NEW r \in Runs, BuildRound(r) PROVE OnlyRounds
  BY <1>13 DEF BuildRound, goalVars
<1>14. ASSUME NEW r \in Runs, RoundStale(r) PROVE OnlyRounds
  BY <1>14 DEF RoundStale, goalVars
<1>15. ASSUME NEW r \in Runs, RoundRetries(r) PROVE OnlyRounds
  BY <1>15 DEF RoundRetries, goalVars
<1>16. ASSUME NEW r \in Runs, RoundRefused(r) PROVE OnlyRounds
  BY <1>16 DEF RoundRefused, goalVars
<1>17. ASSUME NEW r \in Runs, GiveUp(r) PROVE OnlyRounds
  BY <1>17, LeaveFacts DEF GiveUp, Same
<1>18. ASSUME NEW r \in Runs, RunEnds(r) PROVE OnlyRounds
  BY <1>18, EndFacts DEF RunEnds, NoRun, Same
<1>19. ASSUME NEW r \in Runs, CompactFinish(r) PROVE OnlyRounds
  BY <1>19 DEF CompactFinish, goalVars
<1>20. ASSUME NEW r \in Runs, NEW q \in Runs, RoundAccepted(r, q) PROVE OnlyRounds
  BY <1>20, RoundFacts DEF Same
<1>21. ASSUME QueueSettle PROVE OnlyRounds
  BY <1>21 DEF QueueSettle, goalVars
<1>22. ASSUME NEW r \in Runs, QueueDispatch(r) PROVE OnlyRounds
  BY <1>22 DEF QueueDispatch, goalVars
<1>23. ASSUME NEW r \in Runs, Message(r) PROVE OnlyRounds
  <2> DEFINE a == IF Awaiting THEN goal.text ELSE None
  <2>1. active = None /\ Begin(r, "message", a)
    BY <1>23 DEF Message, AcceptOther, CanStart
  <2>2. a \in Texts \cup {None}
    BY GoalTypes
  <2> HIDE DEF a
  <2> QED BY <2>1, <2>2, BeginFacts DEF Kind, Same
<1>24. ASSUME NEW r \in Runs, ScheduledRun(r) PROVE OnlyRounds
  BY <1>24 DEF ScheduledRun, goalVars
<1>25. ASSUME NEW r \in Runs, Compact(r) PROVE OnlyRounds
  BY <1>25 DEF Compact, goalVars
<1>26. ASSUME QueueAdd PROVE OnlyRounds
  BY <1>26 DEF QueueAdd, goalVars
<1>27. ASSUME QueueRemove PROVE OnlyRounds
  BY <1>27 DEF QueueRemove, goalVars
<1>28. ASSUME CancelRun PROVE OnlyRounds
  BY <1>28 DEF CancelRun, goalVars
<1>29. ASSUME CloseSession PROVE OnlyRounds
  BY <1>29 DEF CloseSession, goalVars
<1>30. ASSUME DeleteSession PROVE OnlyRounds
  BY <1>30 DEF DeleteSession, goalVars
<1>31. ASSUME Reload PROVE OnlyRounds
  BY <1>31 DEF Reload, sessionVars
<1>32. ASSUME NEW r \in Runs, NEW t \in Texts, NEW x \in Nonces, SetGoal(r, t, x) PROVE OnlyRounds
  BY <1>32, BeginFacts DEF SetGoal, AcceptOther, Kind, Same
<1>33. ASSUME ResumeGoal PROVE OnlyRounds
  BY <1>33 DEF ResumeGoal, goalVars
<1>34. ASSUME ResumeRefused PROVE OnlyRounds
  BY <1>34 DEF ResumeRefused, goalVars
<1>35. ASSUME NEW r \in Runs, NEW x \in Nonces, ResumeAccepted(r, x) PROVE OnlyRounds
  <2>0. resuming \in Texts
    BY <1>35 DEF TypeOK, ResumeAccepted
  <2> QED BY <1>35, <2>0, BeginFacts DEF ResumeAccepted, AcceptOther, Kind, Same
<1>36. ASSUME PauseGoal PROVE OnlyRounds
  <2>1. \/ run' = run
        \/ /\ active \in Runs /\ goal.roundRun = active /\ goal.roundRun # None
           /\ run' = Cancelled(active)
    BY <1>36 DEF TypeOK, PauseGoal, StopOwnRun, GoalOwnsRun
  <2>2. CASE run' = run
    BY <2>2
  <2>3. CASE /\ active \in Runs /\ goal.roundRun = active /\ goal.roundRun # None
             /\ run' = Cancelled(active)
    <3>1. run[active].asked # None
      BY <2>3 DEF OneExecutes, GoalInv, RoundIsOwn
    <3>2. \A q \in Runs : q # active => Same(q)
      BY <2>3, CancelFacts
    <3> QED BY <3>1, <3>2 DEF Same
  <2> QED BY <2>1, <2>2, <2>3
<1>37. ASSUME ClearGoal PROVE OnlyRounds
  <2>1. \/ run' = run
        \/ /\ active \in Runs /\ goal.roundRun = active /\ goal.roundRun # None
           /\ run' = Cancelled(active)
    BY <1>37 DEF TypeOK, ClearGoal, StopOwnRun, GoalOwnsRun
  <2>2. CASE run' = run
    BY <2>2
  <2>3. CASE /\ active \in Runs /\ goal.roundRun = active /\ goal.roundRun # None
             /\ run' = Cancelled(active)
    <3>1. run[active].asked # None
      BY <2>3 DEF OneExecutes, GoalInv, RoundIsOwn
    <3>2. \A q \in Runs : q # active => Same(q)
      BY <2>3, CancelFacts
    <3> QED BY <3>1, <3>2 DEF Same
  <2> QED BY <2>1, <2>2, <2>3
<1>38. ASSUME NEW t \in Texts, UpdateGoal(t) PROVE OnlyRounds
  BY <1>38 DEF UpdateGoal, sessionVars
<1> QED BY <1>1, <1>2, <1>3, <1>4, <1>5, <1>6, <1>7, <1>8, <1>9, <1>10,
           <1>11, <1>12, <1>13, <1>14, <1>15, <1>16, <1>17, <1>18, <1>19,
           <1>20, <1>21, <1>22, <1>23, <1>24, <1>25, <1>26, <1>27, <1>28,
           <1>29, <1>30, <1>31, <1>32, <1>33, <1>34, <1>35, <1>36, <1>37,
           <1>38
    DEF Next, Starter, QueueWorker, Clients, Goroutine

(* A goal is met only by a round that was asked for its present text         *)
(* (evaluateGoal, updateGoal, goal.go).                                      *)
THEOREM MetByCurrentRound == Spec => MetIsCurrent
<1>1. IInv /\ [Next]_vars => (goal.status # "met" /\ goal'.status = "met"
                                => run[goal.roundRun].asked = goal.text)
  BY MetStep DEF IInv, GoalInv, vars, goalVars
<1>2. IInv /\ [Next]_vars =>
        [goal.status # "met" /\ goal'.status = "met"
           => run[goal.roundRun].asked = goal.text]_vars
  BY <1>1
<1> QED BY <1>2, InitInv, NextInv, PTL DEF Spec, MetIsCurrent

(* Pausing and clearing a goal stop only a round of it (pauseGoal,           *)
(* clearGoal, stopGoalRunLocked, goal.go).                                   *)
THEOREM PauseStopsOwnRun == Spec => GoalStopsOwnRun
<1>1. IInv /\ [Next]_vars =>
        [\A r \in Runs : goal' # goal /\ run'[r].cancelled /\ ~run[r].cancelled
           => run[r].asked # None]_vars
  BY StopStep DEF IInv, GoalInv, vars, goalVars
<1> QED BY <1>1, InitInv, NextInv, PTL DEF Spec, GoalStopsOwnRun

(* A goal is met and stopped only by its own work, whatever its clients do.  *)
THEOREM GoalsEndRight == Spec => GoalEndsRight
  BY MetByCurrentRound, PauseStopsOwnRun DEF GoalEndsRight
=============================================================================
