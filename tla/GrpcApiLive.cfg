\* Nobody waits for ever while the robot can be reached, though calls may be
\* late for some time.
CONSTANTS
  f1 = f1
  f2 = f2
  s1 = s1
  s2 = s2
  p1 = p1
  p2 = p2
  Loop = Loop
  NoTask = NoTask
  FetchTasks <- OneFetchTask
  Senders <- OneSender
  Presses <- OnePress
  Late = TRUE

SPECIFICATION FairSpec

PROPERTIES
  PressServed
  FetchEnds
