\* Loads, work, switches, evictions, deletions and Close.
SPECIFICATION Spec
CONSTANTS
  h1 = h1  h2 = h2  h3 = h3  i1 = i1  i2 = i2  i3 = i3
  m1 = m1  m2 = m2  m3 = m3  m4 = m4
  None = None
  Handlers = {h1, h2}
  Instances = {i1, i2, i3}
  Memories = {m1, m2, m3, m4}
  Kinds = {"use", "switch", "rebuild", "delete", "history", "exists"}
  MaxEvents = 2
  MaxEvictions = 2
SYMMETRY Interchangeable
INVARIANTS
  TypeOK
  LeaseKeepsInstance
  NothingLeaks
PROPERTIES
  DeletedStaysDeleted
\* A switch and a probe may end in a deadlock, which ProbeAgainstSwitch reports.
CHECK_DEADLOCK FALSE
