SPECIFICATION FairSpec
CONSTANTS
  s1 = s1
  s2 = s2
  e1 = e1
  e2 = e2
  Sessions = {s1, s2}
  Events = {e1}
  EventOf <- OneEvent
  Ops = {}
  QueueCap = 1
  MaxRetries = 2
  MaxFaults = 3
  MaxCrashes = 1
  MaxTaps = 2
  None = None
  Stop = Stop
PROPERTIES
  StripsAreDelivered
