\* All watchdogs, with a user who may do something every minute.
CONSTANT Limit = 2

SPECIFICATION Spec

PROPERTIES
  OnceADay
  PingRebootJustified
  FetchRebootJustified
  LostRobotReboots
  StuckFetchReboots
