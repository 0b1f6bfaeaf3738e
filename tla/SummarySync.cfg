\* Two clients that share one place in line and one snapshot, through a restart.
CONSTANTS
  None = None
  Absent = Absent
  Ids = {i1}
  Projections = {p1, p2}
  Listed = {p1}
  Clients = {c1, c2}
  Snaps = {s1}
  MaxRevision = 2
  MaxChanges = 1
  MaxWaiters = 1
  MaxTombstones = 1
  MaxSnapshots = 1
  MaxEpoch = 2
SPECIFICATION Spec
SYMMETRY Interchangeable
INVARIANTS TypeOK NothingMissed SleepersAreTold
\* The revision may be used up and nothing left to do.
CHECK_DEADLOCK FALSE
