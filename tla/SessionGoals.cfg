\* A goal that is set to two texts, with one round and one retry.
CONSTANTS
  None = None
  Notices = {}
  Texts = {t1, t2}
  Runs = {r1, r2}
  Nonces = {x1, x2}
  MaxWakeBacklog = 1
  MaxWakeStreak = 1
  MaxRounds = 1
  BusyRetries = 1
  MaxRevision = 1
  MaxQueued = 1
  MaxKicks = 1
SYMMETRY Interchangeable
SPECIFICATION Spec
INVARIANTS TypeOK ActiveIsWorked
PROPERTIES GoalEndsRight
\* The session may be deleted.
CHECK_DEADLOCK FALSE
