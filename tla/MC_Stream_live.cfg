SPECIFICATION StreamSpec
CONSTANTS
  r1 = r1
  r2 = r2
  Requests = {r1, r2}
  Watcher = r1
  OtherEndpoints = {"start", "claim"}
  ClaimEvery = 2
  LastN = 1
  Endpoints = {"start", "preview", "claim"}
  Locations = {1}
  StartLocation = 1
  FastForwards = {0}
  XPPerLevel = 9
  OfflineCap = 1
  MaxTime = 2
  MaxStarts = 1
  MaxEvents = 2
  MaxPoints = 1
  MaxFaults = 1
INVARIANTS
  StreamTypeOK
  CreditsTileTheAnchor
  ShownOnce
  UnseenIsPaid
PROPERTIES
  WatchedProgress
  StreamEnds
