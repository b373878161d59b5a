SPECIFICATION Spec
CONSTANTS
  ann = ann
  bob = bob
  rod = rod
  trophy = trophy
  boots = boots
  r1 = r1
  r2 = r2
  r3 = r3
  Players = {ann, bob}
  Items = {rod, trophy, boots}
  Equipped = {rod}
  Listings = {1, 2}
  Prices = {2}
  FeeBps = 5000
  Hauls <- MCHauls
  Wealth = 2
  Owner <- MCOwner
  Requests = {r1, r2}
  Endpoints = {"list", "cancel", "buy", "claim"}
  MaxGold = 3
  MaxFaults = 1
SYMMETRY Symmetry
INVARIANTS
  TypeOK
  Escrow
  MarketInv
  GoldConserved
PROPERTIES
  Serial
