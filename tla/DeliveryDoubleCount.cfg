CONSTANTS
  m1 = m1
  m2 = m2
  bad = bad
  post = post
  tumbling = tumbling
  sliding = sliding
  Msgs = {m1, bad}
  Malformed = {bad}
  Posts = {}
  StreamOrder <- TwoStreams
  Persistent = {tumbling}
  Dedupe = TRUE
  EventCap = 1
  StreamCap = 1
  MaxFaults = 1
  MaxStops = 0
  None = None
SPECIFICATION Spec
CHECK_DEADLOCK FALSE
INVARIANT CountedOnce
