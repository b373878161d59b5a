SPECIFICATION Spec
CONSTANTS
  r1 = r1
  r2 = r2
  Requests = {r1, r2}
  Endpoints = {"start", "claim", "stop"}
  Locations = {1}
  StartLocation = 1
  FastForwards = {0}
  XPPerLevel = 2
  OfflineCap = 1
  MaxTime = 2
  MaxStarts = 1
  MaxEvents = 3
  MaxPoints = 2
  MaxFaults = 0
PROPERTIES
  StopLosesNothing
