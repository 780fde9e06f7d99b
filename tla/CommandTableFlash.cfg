\* Who may be named what, and what survives a reboot: a beacon and a GPIO
\* button compete for two automatic names.
CONSTANTS
  b1 = b1
  g1 = g1
  c1 = c1
  u1 = u1
  HubName = HubName
  NoName = NoName
  Absent = Absent
  Torn = Torn
  Beacons <- OneBeacon
  M5Buttons = {}
  GpioButtons <- OneGpioButton
  Commands <- OneCommand
  UserNames <- OneUserName
  MaxButtonId = 2

SPECIFICATION Spec

VIEW View

INVARIANTS
  AutoNamesUnique

PROPERTIES
  RestoresStored
  ImplementsDurable
