SPECIFICATION Spec
CONSTANTS
  r1 = r1
  r2 = r2
  Requests = {r1, r2}
  Endpoints = {"start", "claim", "stop", "login"}
  Locations = {1, 2}
  StartLocation = 1
  FastForwards = {1}
  XPPerLevel = 1
  OfflineCap = 1
  MaxTime = 1
  MaxStarts = 2
  MaxEvents = 3
  MaxPoints = 2
  MaxFaults = 1
CONSTRAINT Guarded
SYMMETRY Symmetry
INVARIANTS
  TypeOK
  SessionInv
  AtomicInv
  GuardedNoDoubleCredit
  GuardedLevelFollowsXP
  CacheNeverLeads
PROPERTIES
  GuardedHighestNeverBack
  AnchorNeverBack
  GuardedAtomic
