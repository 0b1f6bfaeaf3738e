\* Expected violation: s.mu then rt.mu against rt.mu then s.mu.
SPECIFICATION FairSpec
CONSTANTS
  h1 = h1  h2 = h2  h3 = h3  i1 = i1  i2 = i2  i3 = i3
  m1 = m1  m2 = m2  m3 = m3  m4 = m4
  None = None
  Handlers = {h1, h2}
  Instances = {i1, i2, i3}
  Memories = {m1, m2, m3}
  Kinds = {"switch", "exists"}
  MaxEvents = 1
  MaxEvictions = 0
PROPERTIES
  ExistsAnswers
\* The two requests end in a deadlock, which the property reports as an unanswered probe.
CHECK_DEADLOCK FALSE
