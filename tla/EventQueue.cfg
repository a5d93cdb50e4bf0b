SPECIFICATION FairSpec
CONSTANTS
  Producers = {p1, p2}
  Consumers = {c1, c2}
  Events = {e1, e2}
  Size = 2
  NoThread = NoThread
  NoEvent = NoEvent
  MaxPush = 5
INVARIANTS
  NoSlotRace
PROPERTIES
  RefinesFifo
  AcceptedIsDelivered
