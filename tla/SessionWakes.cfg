\* Two notices against every source of runs.
CONSTANTS
  None = None
  Notices = {n1, n2}
  Texts = {}
  Runs = {r1, r2}
  Nonces = {}
  MaxWakeBacklog = 1
  MaxWakeStreak = 2
  MaxRounds = 0
  BusyRetries = 0
  MaxRevision = 0
  MaxQueued = 1
  MaxKicks = 1
SPECIFICATION FairSpec
INVARIANTS AccountedFor
PROPERTIES NoticesGetThrough
\* The session may be deleted.
CHECK_DEADLOCK FALSE
