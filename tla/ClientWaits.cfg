\* Two calls of any kind, two requests that answer, a failing write.
CONSTANTS
  None = None
  Questions = {q1}
  ClientTools = {t1}
  Answers = {x1, x2}
  SessionCalls = {s1, s2}
  RuleCalls = {c1, c2}
  Background = {c2}
  RuleCount = 2
  Handlers = {h1, h2}
  MaxCalls = 2
  MaxFaults = 1
SPECIFICATION FairSpec
INVARIANTS TypeOK AnswersCount GrantCoversAll
PROPERTIES WaitsEnd
\* The run is over and its calls have returned.
CHECK_DEADLOCK FALSE
