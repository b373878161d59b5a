------------------------------- MODULE Resolve -------------------------------
(***************************************************************************)
(* The engine of internal/domain/resolve.go: a session is advanced over a  *)
(* window of time, event by event, and an event that does not fit leaves   *)
(* no trace.  The draws of an event depend on <<seed, index>> only, so a   *)
(* seed is the sequence of its draws; a draw is what the random numbers of *)
(* the event come to, the fish of the spawn table included: one when it is *)
(* clear and one when a storm favours the rare.                            *)
(*                                                                         *)
(* A session is resolved in two ways: `kept`, one object resolved again    *)
(* and again, and `row`, saved after each claim and rebuilt for the next,  *)
(* as internal/usecase/fishing.go does.                                    *)
(***************************************************************************)
EXTENDS Integers

CONSTANTS
  Draws,         \* what the draws of an event can come to
  BasicBite,     \* BasicBaitBiteMult
  Power,         \* FishingPower of the build
  BaitPower,     \* what an active bait adds
  BrokenDivisor, \* one over BrokenPowerMult
  Rescue,        \* what luck adds to the power
  StormForce,    \* what a storm adds to the force required
  Storms,        \* the weather slots that are storms
  SlotLength,    \* WeatherSlotSeconds
  Wear,          \* WearPerCatch; a storm doubles it
  MaxDurability,
  BaitKinds,     \* the families of the baits equipped
  Charges,       \* charges of the consumable bait, durability of the durable one
  BackpackCap,
  PetCapacity,
  PetInterval,
  Longest,       \* no event takes longer: one stall, bite and fight
  MaxEvents,     \* bound on the events of a session
  MaxTime        \* bound on the clock

Fish ==
  [category : {"vendor", "material", "rune", "trophy"}, force : Nat, stamina : Nat,
   gold : Nat, xp : Nat, filtered : BOOLEAN]

\* The fish of each weather, the bite time the interval gives, whether the
\* rescue of the luck succeeds, whether the weight makes it a trophy, the double
\* catch, the drop.
ASSUME DrawsAssumption ==
  Draws \subseteq
    [fish : Fish, rare : Fish, bite : Nat \ {0}, luck : BOOLEAN, big : BOOLEAN,
     double : BOOLEAN, drop : {"none", "equipment", "runes"}]
ASSUME BaitAssumption == BaitKinds \subseteq {"consumable", "durable"} /\ Charges \in Nat \ {0}
ASSUME PetAssumption == {PetInterval, PetCapacity, BackpackCap} \subseteq Nat \ {0}
ASSUME PowerAssumption ==
  /\ {Power, BrokenDivisor, BasicBite} \subseteq Nat \ {0}
  /\ {BaitPower, Rescue, StormForce} \subseteq Nat
ASSUME WearAssumption == {Wear, MaxDurability} \subseteq Nat
ASSUME BoundsAssumption == {Longest, MaxEvents, MaxTime} \subseteq Nat

VARIABLES
  seed,      \* the draws of each event
  now,       \* time since the session started
  resolved,  \* the instant the last window ended
  kept,      \* the session that stays in memory
  row        \* the session that is saved and rebuilt

vars == <<seed, now, resolved, kept, row>>

Seeds == [0 .. MaxEvents - 1 -> Draws]

Goods == {"trophies", "materials", "runes", "equipment"}

Fresh(autoRepair, bait) ==
  [autoRepair |-> autoRepair, bait |-> bait, lastIndex |-> 0, elapsed |-> 0,
   durability |-> MaxDurability, broken |-> FALSE, charges |-> Charges, backpack |-> 0,
   hauls |-> 0, gold |-> 0, xp |-> 0, repairs |-> 0, goods |-> [g \in Goods |-> 0]]

Sessions ==
  [autoRepair : BOOLEAN, bait : BaitKinds, lastIndex : 0 .. MaxEvents, elapsed : 0 .. MaxTime,
   durability : 0 .. MaxDurability, broken : BOOLEAN, charges : 0 .. Charges,
   backpack : Nat, hauls : Nat, gold : Nat, xp : Nat, repairs : Nat, goods : [Goods -> Nat]]

TypeOK ==
  /\ seed \in Seeds
  /\ now \in 0 .. MaxTime /\ resolved \in 0 .. now
  /\ kept \in Sessions
  /\ row \in Sessions

-----------------------------------------------------------------------------
(* The pet.                                                                *)

Unload(backpack, trips) ==
  IF backpack <= trips * PetCapacity THEN 0 ELSE backpack - trips * PetCapacity

\* processHauls: the trips due by the instant t free the backpack.
Hauled(s, t) ==
  LET due == t \div PetInterval
  IN  IF due <= s.hauls THEN s
      ELSE [s EXCEPT !.hauls = due, !.backpack = Unload(@, due - s.hauls)]

\* Trips still needed before something fits.
TripsForSpace(backpack) ==
  IF backpack < BackpackCap THEN 0 ELSE (backpack - BackpackCap) \div PetCapacity + 1

\* A session at an instant of its simulation.
Moment(s, t) == [s |-> s, t |-> t]

\* Seeded fault: a catch is put into a backpack that is full.
NoWait(m) == m

\* The stall: a full backpack waits for the pet.
AwaitSpace(m) ==
  LET trips == TripsForSpace(m.s.backpack)
      hauls == m.s.hauls + trips
  IN  IF trips = 0 THEN m
      ELSE Moment([m.s EXCEPT !.hauls = hauls, !.backpack = Unload(@, trips)],
                  hauls * PetInterval)

-----------------------------------------------------------------------------
(* One event.                                                              *)

\* A consumable bait that ran out is the basic one, a durable one is broken.
Spent(s) == s.charges = 0

\* The basic bait bites later; a broken one loses its bonus and not its speed.
BiteTime(s, draw) ==
  IF s.bait = "consumable" /\ Spent(s) THEN draw.bite * BasicBite ELSE draw.bite

Storm(t) == t \div SlotLength \in Storms

\* The draw with the fish that bites at t.
Hooked(draw, t) == IF Storm(t) THEN [draw EXCEPT !.fish = draw.rare] ELSE draw

BuildPower(s) ==
  LET power == Power + IF Spent(s) THEN 0 ELSE BaitPower
  IN  IF s.broken THEN power \div BrokenDivisor ELSE power

Required(draw, t) == draw.fish.force + IF Storm(t) THEN StormForce ELSE 0

\* Luck is drawn when the power falls short.
PowerUsed(s, draw, t) ==
  IF BuildPower(s) < Required(draw, t) /\ draw.luck THEN BuildPower(s) + Rescue ELSE BuildPower(s)

Caught(s, draw, t) == PowerUsed(s, draw, t) >= Required(draw, t)

FightTime(s, draw, t) ==
  LET power == PowerUsed(s, draw, t)
      full == (2 * draw.fish.stamina) \div (IF power = 0 THEN 1 ELSE power)
  IN  IF Caught(s, draw, t) THEN full ELSE full \div 2

\* Longest is what its name says, whatever the gear and the draw: one trip of
\* the pet, one bite, one fight.
Gear == [bait : BaitKinds, charges : 0 .. Charges, broken : BOOLEAN]

ASSUME LongestAssumption ==
  /\ Longest > 0
  /\ \A g \in Gear, d \in Draws, t \in 0 .. MaxTime :
       PetInterval + BiteTime(g, d) + FightTime(g, Hooked(d, t), t) <= Longest

\* Wear, and the repair that AutoRepair pays for.
Worn(s, t) ==
  LET left == s.durability - Wear * (IF Storm(t) THEN 2 ELSE 1)
  IN  IF left > 0 THEN [s EXCEPT !.durability = left]
      ELSE IF s.autoRepair
      THEN [s EXCEPT !.durability = MaxDurability, !.repairs = @ + 1]
      ELSE [s EXCEPT !.durability = 0, !.broken = TRUE]

\* Seeded fault: a bait that is spent is used up too.
BaitUsedBelowZero(s) == [s EXCEPT !.charges = @ - 1]

BaitUsed(s) == [s EXCEPT !.charges = IF Spent(s) THEN 0 ELSE @ - 1]

\* A vendor fish of some size is a trophy, a smaller one is sold at once.
Destination(draw) ==
  CASE draw.fish.category = "vendor" -> IF draw.big THEN "trophies" ELSE "gold"
    [] draw.fish.category = "trophy" -> "trophies"
    [] draw.fish.category = "material" -> "materials"
    [] draw.fish.category = "rune" -> "runes"

\* A filter sells what would go into the backpack.
Occupies(draw) == Destination(draw) # "gold" /\ ~draw.fish.filtered

\* Gold, or a good by way of the backpack, and XP; a double catch adds a
\* quarter of the gold and half of the XP; a drop does not need the backpack.
Stored(s, draw) ==
  LET fish == draw.fish
      worth(d, whole) == IF draw.double THEN whole \div d ELSE 0
      caught(g) == IF Occupies(draw) /\ Destination(draw) = g THEN 1 ELSE 0
      dropped(g) == IF draw.drop = g THEN 1 ELSE 0
  IN  [s EXCEPT !.gold = @ + (IF Occupies(draw) THEN 0 ELSE fish.gold) + worth(4, fish.gold),
                !.xp = @ + fish.xp + worth(2, fish.xp),
                !.goods = [g \in Goods |-> @[g] + caught(g) + dropped(g)],
                !.backpack = IF Occupies(draw) THEN @ + 1 ELSE @]

\* The session after its next event, whenever that ends, and the instant at
\* which it was bitten.  The window only decides whether it is committed:
\* every wait ends before the event does.
NextEvent(s) ==
  LET ready == AwaitSpace(Moment(Hauled(s, s.elapsed), s.elapsed))
      bite == ready.t + BiteTime(s, seed[s.lastIndex])
      draw == Hooked(seed[s.lastIndex], bite)
      bitten == Hauled(ready.s, bite)
      end == bite + FightTime(s, draw, bite)
      landed == IF Occupies(draw) THEN AwaitSpace(Moment(Hauled(bitten, end), end))
                ELSE Moment(bitten, end)
  IN  IF Caught(s, draw, bite)
      THEN Moment(Stored(BaitUsed(Worn(landed.s, bite)), draw), landed.t)
      ELSE Moment(bitten, end)

Commit(m) == [m.s EXCEPT !.elapsed = m.t, !.lastIndex = @ + 1]

\* Seeded fault: the bait of a deferred event is not given back.
DeferredWithoutBait(s, until) ==
  IF s.lastIndex >= MaxEvents THEN s
  ELSE IF NextEvent(s).t <= until THEN Commit(NextEvent(s))
  ELSE [s EXCEPT !.charges = NextEvent(s).s.charges]

\* Committed if it fits into the window, deferred without a trace otherwise.
CommitOrDefer(s, until) ==
  IF s.lastIndex < MaxEvents /\ NextEvent(s).t <= until THEN Commit(NextEvent(s)) ELSE s

ResolveStream(s, until) ==
  LET after[n \in 0 .. MaxEvents] == IF n = 0 THEN s ELSE CommitOrDefer(after[n - 1], until)
  IN  IF until <= s.elapsed THEN s ELSE after[MaxEvents]

-----------------------------------------------------------------------------
(* Saved and rebuilt.                                                      *)

\* Seeded fault: last_time is the clock, and the time of a deferred event is lost.
SavedAtNow(s, until) == [s EXCEPT !.elapsed = until]

\* last_time is where the last event ended.
Saved(s, until) == s

\* Seeded fault: the trips are counted from zero again.
RebuiltWithoutTrips(s) == [s EXCEPT !.hauls = 0]

\* sessionFromRow: the trips made are not a column, they are the elapsed time
\* over the interval.
Rebuilt(s) == [s EXCEPT !.hauls = s.elapsed \div PetInterval]

Init ==
  /\ seed \in Seeds
  /\ now = 0
  /\ resolved = 0
  /\ \E autoRepair \in BOOLEAN, bait \in BaitKinds : kept = Fresh(autoRepair, bait)
  /\ row = kept

Tick == now < MaxTime /\ now' = now + 1 /\ UNCHANGED <<seed, resolved, kept, row>>

ResolveWindow ==
  /\ resolved' = now
  /\ kept' = ResolveStream(kept, now)
  /\ row' = Saved(ResolveStream(Rebuilt(row), now), now)
  /\ UNCHANGED <<seed, now>>

Next == Tick \/ ResolveWindow

Spec == Init /\ [][Next]_vars

-----------------------------------------------------------------------------
\* "Resolve(s, T) produz o mesmo estado final e a soma dos mesmos deltas que
\* Resolve(s, T1) seguido de Resolve(s, T)" (resolve.go:63): however the time
\* was cut into windows, the session is the one a single window gives.
Additive == kept = ResolveStream(Fresh(kept.autoRepair, kept.bait), resolved)

\* The same of the session that is saved and rebuilt between claims, as
\* "online ≡ offline-aberto" (ARCHITECTURE.md:861) says.  The trips that came
\* due during the last fight are counted and never made, and it fails.
ClaimsAdditive ==
  [row EXCEPT !.hauls = 0]
    = [ResolveStream(Fresh(row.autoRepair, row.bait), resolved) EXCEPT !.hauls = 0]

\* A rebuilt session never makes a trip of the pet again.
NoTripTwice == Rebuilt(row).hauls >= row.hauls

\* The backpack never holds more than its capacity, wherever a claim cut a stall.
BackpackBounded == kept.backpack <= BackpackCap /\ row.backpack <= BackpackCap

\* However often a session is claimed it keeps its pace: neither a full
\* backpack nor the cuts of the claims hold an event back for longer than the
\* longest event takes.
PaceKept == row.lastIndex = MaxEvents \/ row.lastIndex >= resolved \div Longest
=============================================================================
