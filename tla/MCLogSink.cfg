CONSTANTS
  p1 = p1
  p2 = p2
  w1 = w1
  w2 = w2
  Threads = {p1, p2}
  Workers = {w1, w2}
  HourTicks = 2
  MaxTime = 6
  QueueSize = 2
  Nothing = Nothing
SPECIFICATION SinkSpec
INVARIANTS
  PromptRight

  
CHECK_DEADLOCK FALSE
