\* Scheduled tasks and loops: one of each, but only one of them used in a behaviour
\* (MCSpec), one log entry per task, a crash and a failing write.
CONSTANTS
  None = None
  Tasks = {t1}
  Loops = {l1}
  Limits = {1, 2}
  RunLimit = 1
  MaxRuns = 2
  MaxEdits = 3
  MaxBoots = 1
  MaxFaults = 1
SPECIFICATION MCSpec
INVARIANTS TypeOK RunsSound
PROPERTIES ResultsSound LoopsGoOn
CHECK_DEADLOCK FALSE
