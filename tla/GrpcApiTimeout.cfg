\* One call takes longer than 30 s.
CONSTANTS
  f1 = f1
  f2 = f2
  s1 = s1
  s2 = s2
  p1 = p1
  p2 = p2
  Loop = Loop
  NoTask = NoTask
  FetchTasks <- TwoFetchTasks
  Senders <- TwoSenders
  Presses <- TwoPresses
  Late = TRUE

SPECIFICATION Spec

INVARIANTS
  CallsGuarded
