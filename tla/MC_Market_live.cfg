SPECIFICATION FairSpec
CONSTANTS
  ann = ann
  bob = bob
  rod = rod
  trophy = trophy
  boots = boots
  r1 = r1
  r2 = r2
  r3 = r3
  Players = {ann, bob}
  Items = {trophy, boots}
  Equipped = {}
  Listings = {1, 2}
  Prices = {2}
  FeeBps = 5000
  Hauls <- MCHauls
  Wealth = 2
  Owner <- MCOwner
  Requests = {r1, r2, r3}
  Endpoints = {"list", "buy"}
  MaxGold = 3
  MaxFaults = 1
PROPERTIES
  RequestsEnd
