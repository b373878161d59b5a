SPECIFICATION StreamSpec
CONSTANTS
  r1 = r1
  r2 = r2
  Requests = {r1, r2}
  Watcher = r1
  OtherEndpoints = {"start"}
  ClaimEvery = 2
  LastN = 2
  Endpoints = {"start", "preview", "claim"}
  Locations = {1}
  StartLocation = 1
  FastForwards = {0}
  XPPerLevel = 9
  OfflineCap = 1
  MaxTime = 2
  MaxStarts = 2
  MaxEvents = 2
  MaxPoints = 1
  MaxFaults = 0
PROPERTY
  NewIsSent
