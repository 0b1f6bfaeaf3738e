\* A crash and a failing write anywhere; one id used for /queue and /runs.
SPECIFICATION Spec
CONSTANTS
  q1 = q1  q2 = q2  q3 = q3  p1 = p1  c1 = c1  b1 = b1  b2 = b2
  None = None
  QueueIds = {q1}
  PromptIds = {q1}
  CompactIds = {c1}
  Bodies = {b1}
  Outcomes = {"completed"}
  Watched = {q1}
  MaxItems = 2
  MaxReceipts = 3
  MaxRevision = 2
  MaxBoots = 1
  MaxFaults = 1
INVARIANTS
  AcceptedOnce
  AnswersHold
PROPERTIES
  ImplementsLine
\* Bounded client operations end, and the server may be shut down.
CHECK_DEADLOCK FALSE
