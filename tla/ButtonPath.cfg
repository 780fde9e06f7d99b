\* Two beacons, one of which may be handled while the other is heard.
CONSTANTS
  Beacons = {b1, b2}
  Idle = Idle
  Ignore = 2
  Burst = 1
  MaxInbox = 2
  MaxQueue = 2
  MaxSet = 1

SPECIFICATION Spec

INVARIANTS
  PressesInOrder

PROPERTIES
  OncePerPress
  EveryPressHandled
