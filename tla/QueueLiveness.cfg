\* Turns end when they are cancelled, or by themselves.  A compaction competes with
\* the queue, in behaviours that leave the second request out (OneIntruder).
SPECIFICATION FairSpec
CONSTANTS
  q1 = q1  q2 = q2  q3 = q3  p1 = p1  c1 = c1  b1 = b1  b2 = b2
  None = None
  QueueIds = {q1, q2}
  PromptIds = {p1}
  CompactIds = {c1}
  Bodies = {b1}
  Outcomes = {"completed"}
  Watched = {}
  MaxItems = 2
  MaxReceipts = 3
  MaxRevision = 3
  MaxBoots = 0
  MaxFaults = 0
CONSTRAINT OneIntruder
INVARIANTS
  TypeOK
  ReceiptsMatchQueue
PROPERTIES
  HeadGoesFirst
  InterruptTakesEffect
  CloseReturns
  QueueDrains
\* Bounded client operations end, and the server may be shut down.
CHECK_DEADLOCK FALSE
