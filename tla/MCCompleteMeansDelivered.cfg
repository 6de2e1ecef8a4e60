SPECIFICATION Spec
CONSTANTS
  s1 = s1
  s2 = s2
  e1 = e1
  e2 = e2
  Sessions = {s1, s2}
  Events = {e1}
  EventOf <- OneEvent
  Ops = {o1}
  QueueCap = 1
  MaxRetries = 2
  MaxFaults = 0
  MaxCrashes = 0
  MaxTaps = 2
  None = None
  Stop = Stop
INVARIANT
  CompleteMeansDelivered
