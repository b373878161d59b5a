SPECIFICATION Spec
CONSTANTS
  Draws <- MCDraws
  BasicBite = 2
  Power = 3
  BaitPower = 1
  BrokenDivisor = 3
  Rescue = 1
  StormForce = 1
  Storms = {1}
  SlotLength = 4
  Wear = 1
  MaxDurability = 2
  BaitKinds = {"consumable", "durable"}
  Charges = 1
  BackpackCap = 2
  PetCapacity = 1
  PetInterval = 5
  Longest = 13
  MaxEvents = 3
  MaxTime = 16
INVARIANTS
  ClaimsAdditive
