\* One client and two sessions; deletions and changes beyond what is kept.
CONSTANTS
  None = None
  Absent = Absent
  Ids = {i1, i2}
  Projections = {p1}
  Listed = {p1}
  Clients = {c1}
  Snaps = {s1}
  MaxRevision = 2
  MaxChanges = 1
  MaxWaiters = 1
  MaxTombstones = 1
  MaxSnapshots = 1
  MaxEpoch = 1
SPECIFICATION FairSpec
PROPERTIES Converges
\* The revision may be used up and nothing left to do.
CHECK_DEADLOCK FALSE
