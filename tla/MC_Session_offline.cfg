SPECIFICATION Spec
CONSTANTS
  r1 = r1
  r2 = r2
  Requests = {r1, r2}
  Endpoints = {"start", "stop", "login"}
  Locations = {1}
  StartLocation = 1
  FastForwards = {0}
  XPPerLevel = 2
  OfflineCap = 1
  MaxTime = 1
  MaxStarts = 1
  MaxEvents = 3
  MaxPoints = 2
  MaxFaults = 0
INVARIANTS
  OfflineRewardOnce
