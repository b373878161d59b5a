SPECIFICATION Spec
CONSTANTS
  old = old
  new = new
  s1 = s1
  p1 = p1
  p2 = p2
  ann = ann
  r1 = r1
  r2 = r2
  NumFiles = 4
  Repeatable = {2}
  Runners = {old, new}
  Ships <- MCShips
  Packs = {1, 2}
  PackOf <- MCPackOf
  Seeds <- MCSeeds
  Servers = {s1}
  ImageOf <- MCImageOf
  Steams = {ann}
  Requests = {r1, r2}
  PlayerIds = {p1, p2}
  NoPlayer = NoPlayer
  Starter = 1
  MaxFaults = 2
SYMMETRY Symmetry
INVARIANTS
  TypeOK
  DeploymentInv
  AppliedOnce
  AppliedInOrder
  RaceHasAWinner
  ServesWhatItShips
  OnePlayerPerAccount
  KitComplete
  TokenNamesPlayer
PROPERTIES
  BootFailsOnNewFish
