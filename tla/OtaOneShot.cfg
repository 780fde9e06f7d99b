\* What the settings page says of a single check.
CONSTANTS
  Versions = {1, 2}
  Dev = Dev
  None = None
  MaxFails = 3
  MaxTrials = 2
  Chunks = 2
  Limit = 2
  MaxEvents = 4

SPECIFICATION Spec

PROPERTY OneShotUpdates

CHECK_DEADLOCK FALSE
