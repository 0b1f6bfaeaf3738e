\* One client, of the session or its subagent; two runs and four events.
SPECIFICATION Spec
CONSTANTS
  Clients = {c1}
  CacheLimit = 2
  Large = {"child"}
  MarkInterval = 2
  TornWrites = TRUE
  MaxSeq = 4
  MaxRuns = 2
INVARIANTS TypeOK JournalSound NothingSkipped StreamsAreTimely WatchersSeeAll
\* Events stop at the bound.
CHECK_DEADLOCK FALSE
