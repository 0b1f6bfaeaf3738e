\* Two items that are called in parallel, failing lookups and retried submissions, through
\* a crash or a shutdown and one reopening.
CONSTANTS
  Items = {i1, i2}
  Outs = {o1}
  MaxAttempts = 2
  MaxQueryFailures = 1
  ConnectionLimit = 2
  MaxStops = 1
  MaxReconciles = 1
SPECIFICATION MCSpec
INVARIANTS TypeOK OncePerItem NeverStuck LeaseCoversWork
PROPERTIES JobSettles
\* A job is over in the end.
CHECK_DEADLOCK FALSE
