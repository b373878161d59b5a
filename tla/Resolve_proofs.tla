---------------------------- MODULE Resolve_proofs ----------------------------
(***************************************************************************)
(* Proofs about Resolve.  First one event: what NextEvent returns, how long*)
(* it takes, and that it leaves room in the backpack.  Then the loop of    *)
(* ResolveStream: it only goes forward, it ends where nothing more fits,   *)
(* and two windows in a row are one.  Last the two sessions of Spec.       *)
(***************************************************************************)
EXTENDS Resolve, WellFoundedInduction, TLAPS

-----------------------------------------------------------------------------
(* Numbers.                                                                *)

\* The quotient of a division: the only number q with q*b <= a < (q+1)*b.
LEMMA DivNat ==
  ASSUME NEW a \in Nat, NEW b \in Nat \ {0}
  PROVE  /\ a \div b \in Nat
         /\ (a \div b) * b <= a
         /\ a < (a \div b + 1) * b
OBVIOUS

LEMMA DivAtLeast ==
  ASSUME NEW a \in Nat, NEW b \in Nat \ {0}, NEW q \in Nat, q * b <= a
  PROVE  q <= a \div b
<1>1. a \div b \in Nat /\ a < (a \div b + 1) * b
  BY DivNat
<1>2. ASSUME q > a \div b PROVE FALSE
  <2>1. q >= a \div b + 1
    BY <1>1, <1>2
  <2>2. q * b >= (a \div b + 1) * b
    BY <1>1, <2>1
  <2> QED
    BY <1>1, <2>2
<1> QED
  BY <1>1, <1>2

LEMMA DivAtMost ==
  ASSUME NEW a \in Nat, NEW b \in Nat \ {0}, NEW q \in Nat, a < (q + 1) * b
  PROVE  a \div b <= q
<1>1. a \div b \in Nat /\ (a \div b) * b <= a
  BY DivNat
<1>2. ASSUME q < a \div b PROVE FALSE
  <2>1. q + 1 <= a \div b
    BY <1>1, <1>2
  <2>2. (q + 1) * b <= (a \div b) * b
    BY <1>1, <2>1
  <2> QED
    BY <1>1, <2>2
<1> QED
  BY <1>1, <1>2

\* What holds of zero, and of each number up to a bound after the one before,
\* holds up to the bound; said of a set, since the provers cannot instantiate
\* an induction over predicates.
LEMMA Induction ==
  ASSUME NEW m \in Nat, NEW T,
         0 \in T,
         \A n \in 0 .. m : n \in T /\ n < m => n + 1 \in T
  PROVE  \A n \in 0 .. m : n \in T
<1> DEFINE Less == {ss \in Nat \X Nat : ss[1] < ss[2]}
           Left == {n \in 0 .. m : n \notin T}
<1>1. IsWellFoundedOn(Less, Nat)
  BY NatLessThanWellFounded, Zenon DEF OpToRel
<1>2. \A g, f \in Nat : g < f => <<g, f>> \in Less
  OBVIOUS
<1>3. Left \subseteq Nat
  OBVIOUS
<1>4. ASSUME Left # {} PROVE FALSE
  <2> HIDE DEF Less
  <2>1. PICK f \in Left : \A g \in Left : ~ (<<g, f>> \in Less)
    BY <1>1, <1>3, <1>4, WFMin
  <2>2. f \in 0 .. m /\ f \notin T /\ f # 0
    BY <2>1
  <2>3. f - 1 \in 0 .. m /\ f - 1 < m /\ f - 1 < f /\ f - 1 \in Nat /\ f \in Nat
    BY <2>2
  <2>4. f - 1 \in T
    BY <1>2, <2>1, <2>3, Zenon
  <2>5. (f - 1) + 1 \in T
    BY <2>3, <2>4
  <2> QED
    BY <2>2, <2>5
<1> QED
  BY <1>4

-----------------------------------------------------------------------------
(* The pet and the backpack.                                               *)

\* The types of the constants, from the assumptions of Resolve.
LEMMA Constants ==
  /\ PetInterval \in Nat \ {0} /\ PetCapacity \in Nat \ {0} /\ BackpackCap \in Nat \ {0}
  /\ Power \in Nat \ {0} /\ BrokenDivisor \in Nat \ {0} /\ BasicBite \in Nat \ {0}
  /\ BaitPower \in Nat /\ Rescue \in Nat /\ StormForce \in Nat
  /\ Wear \in Nat /\ MaxDurability \in Nat /\ Charges \in Nat \ {0}
  /\ Longest \in Nat \ {0} /\ MaxEvents \in Nat /\ MaxTime \in Nat
  /\ BaitKinds \subseteq {"consumable", "durable"}
BY BaitAssumption, PetAssumption, PowerAssumption, WearAssumption, BoundsAssumption, LongestAssumption

\* A session in the middle of an event, whose clock is not bounded yet.
Bodies ==
  [autoRepair : BOOLEAN, bait : BaitKinds, lastIndex : 0 .. MaxEvents, elapsed : Nat,
   durability : 0 .. MaxDurability, broken : BOOLEAN, charges : 0 .. Charges,
   backpack : Nat, hauls : Nat, gold : Nat, xp : Nat, repairs : Nat, goods : [Goods -> Nat]]

\* The trips of the pet only take things out of the backpack.
LEMMA UnloadFrees ==
  ASSUME NEW backpack \in Nat, NEW trips \in Nat
  PROVE  Unload(backpack, trips) \in Nat /\ Unload(backpack, trips) <= backpack
<1>1. trips * PetCapacity \in Nat
  BY Constants
<1> QED
  BY <1>1 DEF Unload

\* Trips in one go are trips one by one.
LEMMA SpaceAfterTrips ==
  ASSUME NEW backpack \in Nat
  PROVE  /\ TripsForSpace(backpack) \in Nat
         /\ Unload(backpack, TripsForSpace(backpack)) < BackpackCap
         /\ backpack <= BackpackCap => TripsForSpace(backpack) <= 1
         /\ backpack < BackpackCap <=> TripsForSpace(backpack) = 0
<1>1. CASE backpack < BackpackCap
  BY <1>1, Constants DEF TripsForSpace, Unload
<1>2. CASE backpack >= BackpackCap
  <2> DEFINE over == backpack - BackpackCap
             q == over \div PetCapacity
  <2>1. over \in Nat
    BY <1>2, Constants
  <2>2. q \in Nat /\ over < (q + 1) * PetCapacity
    BY <2>1, Constants, DivNat
  <2>3. TripsForSpace(backpack) = q + 1
    BY <1>2, Constants DEF TripsForSpace
  <2>4. (q + 1) * PetCapacity \in Nat
    BY <2>2, Constants
  <2>5. Unload(backpack, q + 1) < BackpackCap
    BY <2>1, <2>2, <2>4, Constants DEF Unload
  <2>6. ASSUME backpack <= BackpackCap PROVE q = 0
    <3>1. over = 0 /\ 0 < (0 + 1) * PetCapacity
      BY <1>2, <2>6, Constants
    <3>2. q <= 0
      BY <2>1, <3>1, Constants, DivAtMost
    <3> QED
      BY <2>2, <3>2
  <2> HIDE DEF over, q
  <2> QED
    BY <1>2, <2>2, <2>3, <2>5, <2>6, Constants
<1> QED
  BY <1>1, <1>2, Constants

\* Only the trips and the backpack differ.
SameButPet(u, s) == u = [s EXCEPT !.hauls = u.hauls, !.backpack = u.backpack]

\* The pet touches its count of trips and the backpack, and nothing else.
LEMMA PetOnly ==
  ASSUME NEW s \in Bodies, NEW h \in Nat, NEW b \in Nat, NEW u,
         u = [s EXCEPT !.hauls = h, !.backpack = b]
  PROVE  u \in Bodies /\ u.hauls = h /\ u.backpack = b /\ SameButPet(u, s)
BY DEF Bodies, SameButPet

LEMMA SameButPetTransitive ==
  ASSUME NEW s \in Bodies, NEW u \in Bodies, NEW v \in Bodies, SameButPet(u, s), SameButPet(v, u)
  PROVE  SameButPet(v, s)
BY DEF Bodies, SameButPet

\* The trips that are due are made.
LEMMA HauledEffect ==
  ASSUME NEW s \in Bodies, NEW t \in Nat, NEW u, u = Hauled(s, t)
  PROVE  /\ u \in Bodies
         /\ SameButPet(u, s)
         /\ u.backpack <= s.backpack
         /\ t < (u.hauls + 1) * PetInterval
         /\ s.hauls * PetInterval <= t => u.hauls * PetInterval <= t
<1> DEFINE due == t \div PetInterval
<1>1. due \in Nat /\ due * PetInterval <= t /\ t < (due + 1) * PetInterval
  BY Constants, DivNat
<1>2. s.hauls \in Nat /\ s.backpack \in Nat
  BY DEF Bodies
<1>3. CASE due <= s.hauls
  <2>1. u = s
    BY <1>3 DEF Hauled
  <2>2. s = [s EXCEPT !.hauls = s.hauls, !.backpack = s.backpack]
    BY DEF Bodies
  <2>3. (due + 1) * PetInterval <= (s.hauls + 1) * PetInterval
    BY <1>1, <1>2, <1>3, Constants
  <2>4. t < (s.hauls + 1) * PetInterval
    BY <1>1, <1>2, <2>3, Constants
  <2> HIDE DEF due
  <2> QED
    BY <1>2, <2>1, <2>2, <2>4 DEF SameButPet
<1>4. CASE due > s.hauls
  <2> DEFINE b == Unload(s.backpack, due - s.hauls)
  <2>1. due - s.hauls \in Nat
    BY <1>1, <1>2, <1>4
  <2>2. b \in Nat /\ b <= s.backpack
    BY <1>2, <2>1, UnloadFrees
  <2>3. u = [s EXCEPT !.hauls = due, !.backpack = b]
    BY <1>1, <1>2, <1>4 DEF Hauled, Bodies
  <2> HIDE DEF due, b
  <2>4. u \in Bodies /\ u.hauls = due /\ u.backpack = b /\ SameButPet(u, s)
    BY <1>1, <2>2, <2>3, PetOnly
  <2> QED
    BY <1>1, <2>2, <2>4
<1> HIDE DEF due
<1> QED
  BY <1>1, <1>2, <1>3, <1>4

\* A stall ends with room in the backpack, when the trip that makes it arrives;
\* if the backpack was not over its capacity it waits for no more than one.
LEMMA AwaitSpaceEffect ==
  ASSUME NEW s \in Bodies, NEW t \in Nat, t < (s.hauls + 1) * PetInterval,
         NEW m, m = AwaitSpace(Moment(s, t))
  PROVE  /\ m.s \in Bodies
         /\ m.t \in Nat
         /\ SameButPet(m.s, s)
         /\ m.s.backpack < BackpackCap
         /\ t <= m.t
         /\ s.hauls * PetInterval <= t => m.s.hauls * PetInterval <= m.t
         /\ s.hauls * PetInterval <= t /\ s.backpack <= BackpackCap => m.t <= t + PetInterval
         /\ s.backpack < BackpackCap => m.t = t
<1> DEFINE trips == TripsForSpace(s.backpack)
           made == s.hauls + trips
<1>1. s.hauls \in Nat /\ s.backpack \in Nat
  BY DEF Bodies
<1>2. /\ trips \in Nat
      /\ Unload(s.backpack, trips) < BackpackCap
      /\ s.backpack <= BackpackCap => trips <= 1
      /\ s.backpack < BackpackCap <=> trips = 0
  BY <1>1, SpaceAfterTrips
<1>3. CASE trips = 0
  <2>1. m.s = s /\ m.t = t
    BY <1>3 DEF AwaitSpace, Moment
  <2>2. SameButPet(s, s)
    BY DEF SameButPet, Bodies
  <2> HIDE DEF trips
  <2> QED
    BY <1>1, <1>2, <1>3, <2>1, <2>2, Constants
<1>4. CASE trips # 0
  <2> DEFINE b == Unload(s.backpack, trips)
  <2>1. m.s = [s EXCEPT !.hauls = made, !.backpack = b] /\ m.t = made * PetInterval
    BY <1>4 DEF AwaitSpace, Moment, Bodies
  <2>2. made \in Nat /\ made >= s.hauls + 1
    BY <1>1, <1>2, <1>4
  <2>3. b \in Nat
    BY <1>1, <1>2, UnloadFrees
  <2>4. made * PetInterval \in Nat /\ made * PetInterval >= (s.hauls + 1) * PetInterval
    BY <1>1, <2>2, Constants
  <2>5. ASSUME s.hauls * PetInterval <= t, s.backpack <= BackpackCap
        PROVE  made * PetInterval <= t + PetInterval
    <3>1. made = s.hauls + 1
      BY <1>1, <1>2, <1>4, <2>5
    <3>2. (s.hauls + 1) * PetInterval = s.hauls * PetInterval + PetInterval
      BY <1>1, Constants
    <3> QED
      BY <1>1, <2>5, <3>1, <3>2, Constants
  <2> HIDE DEF b, trips, made
  <2>5a. ASSUME NEW u, u = [s EXCEPT !.hauls = made, !.backpack = b]
         PROVE  u \in Bodies /\ u.hauls = made /\ u.backpack = b /\ SameButPet(u, s)
    BY <2>2, <2>3, <2>5a DEF Bodies, SameButPet
  <2>6. m.s \in Bodies /\ m.s.hauls = made /\ m.s.backpack = b /\ SameButPet(m.s, s)
    BY <2>1, <2>5a, Zenon
  <2>7. b < BackpackCap /\ ~ (s.backpack < BackpackCap)
    BY <1>2, <1>4 DEF b
  <2>8. (s.hauls + 1) * PetInterval \in Nat
    BY <1>1, Constants
  <2> QED
    BY <2>1, <2>4, <2>5, <2>6, <2>7, <2>8
<1> HIDE DEF trips
<1> QED
  BY <1>3, <1>4

-----------------------------------------------------------------------------
(* One event.                                                              *)

\* A draw brings a fish, of the clear sky or of the storm.
LEMMA DrawTypes ==
  ASSUME NEW d \in Draws, NEW t
  PROVE  /\ d.fish \in Fish
         /\ d.bite \in Nat \ {0}
         /\ Hooked(d, t).fish \in Fish
         /\ Hooked(d, t).double \in BOOLEAN
         /\ Hooked(d, t).bite = d.bite
<1>1. d \in [fish : Fish, rare : Fish, bite : Nat \ {0}, luck : BOOLEAN, big : BOOLEAN,
             double : BOOLEAN, drop : {"none", "equipment", "runes"}]
  BY DrawsAssumption
<1> QED
  BY <1>1 DEF Hooked

\* The bite of an event takes time, and how much depends on the gear alone.
LEMMA BiteTimeEffect ==
  ASSUME NEW s \in Bodies, NEW d \in Draws
  PROVE  BiteTime(s, d) \in Nat \ {0}
<1>1. d.bite \in Nat \ {0}
  BY DrawTypes
<1>2. d.bite * BasicBite \in Nat \ {0}
  BY <1>1, Constants
<1> QED
  BY <1>1, <1>2 DEF BiteTime

\* Power is a number, whatever is broken and whether luck rescues.
LEMMA PowerTypes ==
  ASSUME NEW s \in Bodies, NEW d \in Draws, NEW t, NEW u
  PROVE  PowerUsed(s, Hooked(d, u), t) \in Nat
<1> DEFINE power == Power + IF Spent(s) THEN 0 ELSE BaitPower
<1>1. power \in Nat
  BY Constants
<1>2. power \div BrokenDivisor \in Nat
  BY <1>1, Constants, DivNat
<1>3. BuildPower(s) \in Nat
  BY <1>1, <1>2 DEF BuildPower
<1> QED
  BY <1>3, Constants DEF PowerUsed

\* So is the length of a fight, won or lost.
LEMMA FightTimeType ==
  ASSUME NEW s \in Bodies, NEW d \in Draws, NEW t, NEW u
  PROVE  FightTime(s, Hooked(d, u), t) \in Nat
<1> DEFINE power == PowerUsed(s, Hooked(d, u), t)
           full == (2 * Hooked(d, u).fish.stamina) \div (IF power = 0 THEN 1 ELSE power)
<1>1. power \in Nat
  BY PowerTypes
<1>2. Hooked(d, u).fish.stamina \in Nat
  BY DrawTypes DEF Fish
<1>3. full \in Nat
  <2>1. 2 * Hooked(d, u).fish.stamina \in Nat
    BY <1>2
  <2>2. (IF power = 0 THEN 1 ELSE power) \in Nat \ {0}
    BY <1>1
  <2> HIDE DEF power
  <2> QED
    BY <2>1, <2>2, DivNat
<1>4. full \div 2 \in Nat
  BY <1>3
<1> QED
  BY <1>3, <1>4 DEF FightTime

\* The gear of a session.
GearOf(s) == [bait |-> s.bait, charges |-> s.charges, broken |-> s.broken]

\* Longest is what it says, of any gear that a session can have: a stall, a
\* bite and a fight take no longer together.
LEMMA LongestBounds ==
  ASSUME NEW s \in Bodies, NEW d \in Draws
  PROVE  /\ PetInterval + BiteTime(s, d) <= Longest
         /\ \A t \in 0 .. MaxTime :
              PetInterval + BiteTime(s, d) + FightTime(s, Hooked(d, t), t) <= Longest
<1> DEFINE g == GearOf(s)
<1>1. g \in Gear /\ g.bait = s.bait /\ g.charges = s.charges /\ g.broken = s.broken
  BY DEF GearOf, Gear, Bodies
<1> HIDE DEF g
<1>2. BiteTime(g, d) = BiteTime(s, d)
  BY <1>1 DEF BiteTime, Spent
<1>3. \A t, e : FightTime(g, e, t) = FightTime(s, e, t)
  <2>1. BuildPower(g) = BuildPower(s)
    BY <1>1 DEF BuildPower, Spent
  <2>2. \A t, e : PowerUsed(g, e, t) = PowerUsed(s, e, t)
    BY <2>1 DEF PowerUsed
  <2> QED
    BY <2>2 DEF FightTime, Caught
<1>4. \A t \in 0 .. MaxTime :
        PetInterval + BiteTime(s, d) + FightTime(s, Hooked(d, t), t) <= Longest
  BY <1>1, <1>2, <1>3, LongestAssumption
<1>5. 0 \in 0 .. MaxTime
  BY Constants
<1>6. BiteTime(s, d) \in Nat /\ FightTime(s, Hooked(d, 0), 0) \in Nat
  BY BiteTimeEffect, FightTimeType
<1> QED
  BY <1>4, <1>5, <1>6, Constants

\* What wear, bait and loot leave alone.
SameTrip(u, s) ==
  /\ u.autoRepair = s.autoRepair /\ u.bait = s.bait
  /\ u.lastIndex = s.lastIndex /\ u.elapsed = s.elapsed /\ u.hauls = s.hauls

\* Wear and repair leave the trip and the backpack alone.
LEMMA WornEffect ==
  ASSUME NEW s \in Bodies, NEW t, NEW u, u = Worn(s, t)
  PROVE  u \in Bodies /\ SameTrip(u, s) /\ u.backpack = s.backpack
<1> DEFINE left == s.durability - Wear * (IF Storm(t) THEN 2 ELSE 1)
<1>1. left \in Int /\ left <= MaxDurability
  BY Constants DEF Bodies
<1>2. CASE left > 0
  <2>1. u = [s EXCEPT !.durability = left]
    BY <1>2 DEF Worn
  <2>2. left \in 0 .. MaxDurability
    BY <1>1, <1>2, Constants
  <2> HIDE DEF left
  <2> QED
    BY <2>1, <2>2 DEF Bodies, SameTrip
<1>3. CASE left <= 0 /\ s.autoRepair
  <2>1. u = [s EXCEPT !.durability = MaxDurability, !.repairs = @ + 1]
    BY <1>1, <1>3 DEF Worn
  <2>2. MaxDurability \in 0 .. MaxDurability /\ s.repairs + 1 \in Nat
    BY Constants DEF Bodies
  <2>3. u = [s EXCEPT !.durability = MaxDurability, !.repairs = s.repairs + 1]
    BY <2>1 DEF Bodies
  <2> HIDE DEF left
  <2> QED
    BY <2>2, <2>3 DEF Bodies, SameTrip
<1>4. CASE left <= 0 /\ ~s.autoRepair
  <2>1. u = [s EXCEPT !.durability = 0, !.broken = TRUE]
    BY <1>1, <1>4 DEF Worn
  <2>2. 0 \in 0 .. MaxDurability
    BY Constants
  <2> QED
    BY <2>1, <2>2 DEF Bodies, SameTrip
<1> HIDE DEF left
<1> QED
  BY <1>1, <1>2, <1>3, <1>4

\* So does the bait.
LEMMA BaitUsedEffect ==
  ASSUME NEW s \in Bodies, NEW u, u = BaitUsed(s)
  PROVE  u \in Bodies /\ SameTrip(u, s) /\ u.backpack = s.backpack
<1> DEFINE c == IF Spent(s) THEN 0 ELSE s.charges - 1
<1>1. c \in 0 .. Charges
  BY Constants DEF Bodies, Spent
<1>2. u = [s EXCEPT !.charges = c]
  BY DEF BaitUsed, Bodies
<1> HIDE DEF c
<1> QED
  BY <1>1, <1>2 DEF Bodies, SameTrip

\* A catch takes one place of the backpack, or none.
LEMMA StoredEffect ==
  ASSUME NEW s \in Bodies, NEW d \in Draws, NEW t, NEW u, u = Stored(s, Hooked(d, t))
  PROVE  /\ u \in Bodies
         /\ SameTrip(u, s)
         /\ u.backpack = IF Occupies(Hooked(d, t)) THEN s.backpack + 1 ELSE s.backpack
<1> DEFINE e == Hooked(d, t)
           worth(q, whole) == IF e.double THEN whole \div q ELSE 0
           gold == s.gold + (IF Occupies(e) THEN 0 ELSE e.fish.gold) + worth(4, e.fish.gold)
           xp == s.xp + e.fish.xp + worth(2, e.fish.xp)
           caught(g) == IF Occupies(e) /\ Destination(e) = g THEN 1 ELSE 0
           dropped(g) == IF e.drop = g THEN 1 ELSE 0
           goods == [g \in Goods |-> s.goods[g] + caught(g) + dropped(g)]
           backpack == IF Occupies(e) THEN s.backpack + 1 ELSE s.backpack
<1>1. e.fish.gold \in Nat /\ e.fish.xp \in Nat
  BY DrawTypes DEF Fish
<1>2. s.gold \in Nat /\ s.xp \in Nat /\ s.backpack \in Nat /\ s.goods \in [Goods -> Nat]
  BY DEF Bodies
<1>3. \A q \in {2, 4} : worth(q, e.fish.gold) \in Nat /\ worth(q, e.fish.xp) \in Nat
  BY <1>1
<1>4. gold \in Nat /\ xp \in Nat /\ backpack \in Nat
  BY <1>1, <1>2, <1>3
<1>5. goods \in [Goods -> Nat]
  BY <1>2
<1>6. u = [s EXCEPT !.gold = gold, !.xp = xp, !.goods = goods, !.backpack = backpack]
  BY DEF Stored, Bodies
<1> HIDE DEF gold, xp, goods, backpack
<1>7. u \in Bodies /\ SameTrip(u, s) /\ u.backpack = backpack
  BY <1>4, <1>5, <1>6 DEF Bodies, SameTrip
<1> QED
  BY <1>7 DEF backpack

\* A session between two events: the backpack is not over its capacity and the
\* trips that were made were due.
Good(s) == s.backpack <= BackpackCap /\ s.hauls * PetInterval <= s.elapsed

\* Ready to cast: there is room in the backpack, after one trip at most.
LEMMA ReadyEffect ==
  ASSUME NEW s \in Bodies, Good(s),
         NEW m, m = AwaitSpace(Moment(Hauled(s, s.elapsed), s.elapsed))
  PROVE  /\ m.s \in Bodies
         /\ SameButPet(m.s, s)
         /\ m.s.backpack < BackpackCap
         /\ m.t \in Nat
         /\ s.elapsed <= m.t
         /\ m.t <= s.elapsed + PetInterval
         /\ m.s.hauls * PetInterval <= m.t
<1> DEFINE h == Hauled(s, s.elapsed)
<1>1. s.elapsed \in Nat /\ s.backpack \in Nat
  BY DEF Bodies
<1>2. /\ h \in Bodies /\ SameButPet(h, s) /\ h.backpack <= s.backpack
      /\ s.elapsed < (h.hauls + 1) * PetInterval /\ h.hauls * PetInterval <= s.elapsed
  BY <1>1, HauledEffect DEF Good
<1>3. h.backpack \in Nat /\ h.backpack <= BackpackCap
  BY <1>1, <1>2, Constants DEF Good, Bodies
<1>4. m = AwaitSpace(Moment(h, s.elapsed))
  OBVIOUS
<1> HIDE DEF h
<1>5. /\ m.s \in Bodies /\ m.t \in Nat /\ SameButPet(m.s, h) /\ m.s.backpack < BackpackCap
      /\ s.elapsed <= m.t /\ m.s.hauls * PetInterval <= m.t /\ m.t <= s.elapsed + PetInterval
  BY <1>1, <1>2, <1>3, <1>4, AwaitSpaceEffect
<1>6. SameButPet(m.s, s)
  BY <1>2, <1>5, SameButPetTransitive
<1> QED
  BY <1>5, <1>6

\* What an event keeps of a session.
SameSession(u, s) ==
  /\ u.autoRepair = s.autoRepair /\ u.bait = s.bait
  /\ u.lastIndex = s.lastIndex /\ u.elapsed = s.elapsed

\* An event takes time, no more than the longest one; a session it finds
\* between two events it leaves between two events.
LEMMA NextEventEffect ==
  ASSUME seed \in Seeds, NEW s \in Bodies, Good(s), s.lastIndex < MaxEvents,
         NEW m, m = NextEvent(s)
  PROVE  /\ m.s \in Bodies
         /\ SameSession(m.s, s)
         /\ m.s.backpack <= BackpackCap
         /\ m.t \in Nat
         /\ s.elapsed < m.t
         /\ m.s.hauls * PetInterval <= m.t
         /\ \A u \in 0 .. MaxTime : u < m.t => u < s.elapsed + Longest
<1> DEFINE d == seed[s.lastIndex]
           ready == AwaitSpace(Moment(Hauled(s, s.elapsed), s.elapsed))
           bite == ready.t + BiteTime(s, d)
           draw == Hooked(d, bite)
           bitten == Hauled(ready.s, bite)
           end == bite + FightTime(s, draw, bite)
           hauled == Hauled(bitten, end)
           landed == IF Occupies(draw) THEN AwaitSpace(Moment(hauled, end))
                     ELSE Moment(bitten, end)
           worn == Worn(landed.s, bite)
           used == BaitUsed(worn)
           stored == Stored(used, draw)
<1>1. d \in Draws /\ s.elapsed \in Nat /\ s.backpack \in Nat /\ s.lastIndex \in Nat
  <2>1. s.lastIndex \in 0 .. MaxEvents - 1 /\ s.elapsed \in Nat /\ s.backpack \in Nat
    BY Constants DEF Bodies
  <2> QED
    BY <2>1 DEF Seeds
<1>2. m = IF Caught(s, draw, bite) THEN Moment(stored, landed.t) ELSE Moment(bitten, end)
  BY DEF NextEvent
<1>3. /\ ready.s \in Bodies /\ SameButPet(ready.s, s) /\ ready.s.backpack < BackpackCap
      /\ ready.t \in Nat /\ s.elapsed <= ready.t /\ ready.t <= s.elapsed + PetInterval
      /\ ready.s.hauls * PetInterval <= ready.t
  BY ReadyEffect
<1>4. BiteTime(s, d) \in Nat \ {0} /\ FightTime(s, draw, bite) \in Nat
  BY <1>1, BiteTimeEffect, FightTimeType
<1>5. \A t \in 0 .. MaxTime : PetInterval + BiteTime(s, d) + FightTime(s, Hooked(d, t), t) <= Longest
  BY <1>1, LongestBounds
<1>6. PetInterval + BiteTime(s, d) <= Longest
  BY <1>1, LongestBounds
<1>7. d \in Draws /\ draw = Hooked(d, bite)
  BY <1>1
<1>8. \A u : stored = Stored(used, draw) /\ used = BaitUsed(worn) /\ worn = Worn(landed.s, bite)
  OBVIOUS
<1>9. /\ bite = ready.t + BiteTime(s, d) /\ end = bite + FightTime(s, draw, bite)
      /\ bitten = Hauled(ready.s, bite) /\ hauled = Hauled(bitten, end)
      /\ landed = IF Occupies(draw) THEN AwaitSpace(Moment(hauled, end)) ELSE Moment(bitten, end)
  OBVIOUS
<1> HIDE DEF d, ready, bite, draw, bitten, end, hauled, landed, worn, used, stored
<1>10. /\ bite \in Nat /\ end \in Nat /\ s.elapsed < bite /\ ready.t <= bite /\ bite <= end
       /\ s.elapsed < end
  BY <1>1, <1>3, <1>4, <1>9
<1>11. \A u \in 0 .. MaxTime : u < end => u < s.elapsed + Longest
  <2>1. bite <= s.elapsed + Longest
    BY <1>1, <1>3, <1>4, <1>6, <1>9, Constants
  <2>2. CASE bite <= MaxTime
    <3>1. PetInterval + BiteTime(s, d) + FightTime(s, draw, bite) <= Longest
      BY <1>5, <1>7, <1>10, <2>2, Constants
    <3>2. end <= s.elapsed + Longest
      BY <1>1, <1>3, <1>4, <1>9, <3>1, Constants
    <3> QED
      BY <1>1, <1>10, <3>2, Constants
  <2>3. CASE bite > MaxTime
    BY <1>1, <1>10, <2>1, <2>3, Constants
  <2> QED
    BY <1>10, <2>2, <2>3, Constants
<1>12. /\ ready.s.hauls * PetInterval <= bite /\ ready.s.hauls \in Nat /\ ready.s.backpack \in Nat
  BY <1>3, <1>10, Constants DEF Bodies
<1>13. /\ bitten \in Bodies /\ SameButPet(bitten, ready.s) /\ bitten.backpack <= ready.s.backpack
       /\ bitten.hauls * PetInterval <= bite
  BY <1>3, <1>9, <1>10, <1>12, HauledEffect
<1>14. /\ bitten.backpack < BackpackCap /\ bitten.backpack \in Nat /\ bitten.hauls \in Nat
       /\ bitten.hauls * PetInterval <= end
  BY <1>3, <1>10, <1>12, <1>13, Constants DEF Bodies
<1>15. SameButPet(bitten, s)
  BY <1>3, <1>13, SameButPetTransitive
<1>16. /\ hauled \in Bodies /\ SameButPet(hauled, bitten) /\ hauled.backpack <= bitten.backpack
       /\ hauled.hauls * PetInterval <= end /\ end < (hauled.hauls + 1) * PetInterval
  <2>1. bitten \in Bodies /\ end \in Nat /\ hauled = Hauled(bitten, end)
    BY <1>9, <1>10, <1>13
  <2> QED
    BY <1>14, <2>1, HauledEffect
<1>17. hauled.backpack < BackpackCap
  BY <1>14, <1>16, Constants DEF Bodies
<1>18. /\ landed.s \in Bodies /\ SameButPet(landed.s, s) /\ landed.s.backpack < BackpackCap
       /\ landed.t = end /\ landed.s.hauls * PetInterval <= end
  <2>1. CASE Occupies(draw)
    <3>1. landed = AwaitSpace(Moment(hauled, end))
      BY <1>9, <2>1
    <3>2. /\ landed.s \in Bodies /\ SameButPet(landed.s, hauled)
          /\ landed.s.backpack < BackpackCap /\ landed.t = end
          /\ landed.s.hauls * PetInterval <= landed.t
      BY <1>10, <1>16, <1>17, <3>1, AwaitSpaceEffect
    <3>3. SameButPet(landed.s, bitten)
      BY <1>13, <1>16, <3>2, SameButPetTransitive
    <3>4. SameButPet(landed.s, s)
      BY <1>13, <1>15, <3>2, <3>3, SameButPetTransitive
    <3> QED
      BY <3>2, <3>4
  <2>2. CASE ~Occupies(draw)
    BY <1>9, <1>13, <1>14, <1>15, <2>2 DEF Moment
  <2> QED
    BY <2>1, <2>2
<1>19. /\ stored \in Bodies /\ SameTrip(stored, landed.s) /\ stored.backpack <= BackpackCap
  <2>1. worn \in Bodies /\ SameTrip(worn, landed.s) /\ worn.backpack = landed.s.backpack
    BY <1>8, <1>18, WornEffect
  <2>2. used \in Bodies /\ SameTrip(used, worn) /\ used.backpack = worn.backpack
    BY <1>8, <2>1, BaitUsedEffect
  <2>3. /\ stored \in Bodies /\ SameTrip(stored, used)
        /\ stored.backpack = IF Occupies(draw) THEN used.backpack + 1 ELSE used.backpack
    BY <1>7, <1>8, <2>2, StoredEffect
  <2>4. landed.s.backpack \in Nat
    BY <1>18 DEF Bodies
  <2> QED
    BY <1>18, <2>1, <2>2, <2>3, <2>4, Constants DEF SameTrip
<1>20. SameSession(bitten, s) /\ SameSession(landed.s, s)
  BY <1>15, <1>18 DEF SameButPet, SameSession, Bodies
<1>21. SameSession(stored, s) /\ stored.hauls = landed.s.hauls
  BY <1>19, <1>20 DEF SameSession, SameTrip
<1>22. CASE Caught(s, draw, bite)
  <2>1. m.s = stored /\ m.t = end
    BY <1>2, <1>18, <1>22 DEF Moment
  <2> QED
    BY <1>10, <1>11, <1>18, <1>19, <1>21, <2>1
<1>23. CASE ~Caught(s, draw, bite)
  <2>1. m.s = bitten /\ m.t = end
    BY <1>2, <1>23 DEF Moment
  <2> QED
    BY <1>10, <1>11, <1>13, <1>14, <1>20, <2>1, Constants
<1> QED
  BY <1>22, <1>23

-----------------------------------------------------------------------------
(* The loop of ResolveStream.                                              *)

\* Nothing more fits into the window.
Settled(s, until) == s.lastIndex >= MaxEvents \/ until < NextEvent(s).t

\* A turn of the loop commits the next event, which ends in the window, or it
\* changes nothing, and then nothing fits.
LEMMA CommitOrDeferEffect ==
  ASSUME seed \in Seeds, NEW s \in Bodies, Good(s), NEW until \in Nat,
         NEW v, v = CommitOrDefer(s, until)
  PROVE  \/ v = s /\ Settled(s, until)
         \/ /\ v \in Bodies /\ Good(v)
            /\ v.autoRepair = s.autoRepair /\ v.bait = s.bait
            /\ v.lastIndex = s.lastIndex + 1
            /\ s.lastIndex < MaxEvents
            /\ s.elapsed < v.elapsed
            /\ v.elapsed <= until
            /\ v.elapsed = NextEvent(s).t
            /\ until <= MaxTime => v.elapsed <= s.elapsed + Longest
<1> DEFINE m == NextEvent(s)
<1>1. s.lastIndex \in 0 .. MaxEvents /\ s.elapsed \in Nat
  BY DEF Bodies
<1>2. CASE s.lastIndex < MaxEvents /\ m.t <= until
  <2>1. v = [m.s EXCEPT !.elapsed = m.t, !.lastIndex = @ + 1]
    BY <1>2 DEF CommitOrDefer, Commit
  <2>2. /\ m.s \in Bodies /\ SameSession(m.s, s) /\ m.s.backpack <= BackpackCap
        /\ m.t \in Nat /\ s.elapsed < m.t /\ m.s.hauls * PetInterval <= m.t
        /\ \A u \in 0 .. MaxTime : u < m.t => u < s.elapsed + Longest
    BY <1>2, NextEventEffect
  <2>3. ASSUME until <= MaxTime PROVE m.t <= s.elapsed + Longest
    <3>1. m.t - 1 \in 0 .. MaxTime /\ m.t - 1 < m.t
      BY <1>1, <1>2, <2>2, <2>3, Constants
    <3>2. m.t - 1 < s.elapsed + Longest
      BY <2>2, <3>1, Zenon
    <3> QED
      BY <1>1, <2>2, <3>2, Constants
  <2>4. v.elapsed = m.t
    BY <2>1, <2>2 DEF Bodies
  <2> HIDE DEF m
  <2>5. m.s.lastIndex + 1 \in 0 .. MaxEvents /\ m.s.lastIndex = s.lastIndex
    BY <1>1, <1>2, <2>2, Constants DEF SameSession
  <2>6. v = [m.s EXCEPT !.elapsed = m.t, !.lastIndex = m.s.lastIndex + 1]
    BY <2>1, <2>2 DEF Bodies
  <2>7. /\ v \in Bodies /\ v.autoRepair = m.s.autoRepair /\ v.bait = m.s.bait
        /\ v.lastIndex = m.s.lastIndex + 1
        /\ v.backpack = m.s.backpack /\ v.hauls = m.s.hauls
    BY <2>2, <2>5, <2>6 DEF Bodies
  <2>8. Good(v)
    BY <2>2, <2>4, <2>7 DEF Good
  <2>9. v.autoRepair = s.autoRepair /\ v.bait = s.bait /\ v.lastIndex = s.lastIndex + 1
    BY <2>2, <2>5, <2>7 DEF SameSession
  <2>10. v.elapsed = NextEvent(s).t
    BY <2>4 DEF m
  <2> QED
    BY <1>2, <2>2, <2>3, <2>4, <2>7, <2>8, <2>9, <2>10
<1>3. CASE ~ (s.lastIndex < MaxEvents /\ m.t <= until)
  <2>1. v = s
    BY <1>3 DEF CommitOrDefer
  <2>2. CASE s.lastIndex < MaxEvents
    <3>1. m.t \in Nat
      BY <2>2, NextEventEffect
    <3> QED
      BY <1>3, <2>1, <2>2, <3>1 DEF Settled
  <2>3. CASE s.lastIndex >= MaxEvents
    BY <2>1, <2>3 DEF Settled
  <2> QED
    BY <1>1, <2>2, <2>3, Constants
<1> QED
  BY <1>2, <1>3

\* Where nothing fits the loop stays.
LEMMA SettledStays ==
  ASSUME seed \in Seeds, NEW s \in Bodies, Good(s), NEW until \in Nat, Settled(s, until)
  PROVE  CommitOrDefer(s, until) = s
<1>1. s.lastIndex \in 0 .. MaxEvents
  BY DEF Bodies
<1>2. CASE s.lastIndex >= MaxEvents
  BY <1>1, <1>2, Constants DEF CommitOrDefer
<1>3. CASE s.lastIndex < MaxEvents
  <2>1. NextEvent(s).t \in Nat
    BY <1>3, NextEventEffect
  <2>2. until < NextEvent(s).t
    BY <1>1, <1>3, Constants DEF Settled
  <2> QED
    BY <2>1, <2>2 DEF CommitOrDefer
<1> QED
  BY <1>1, <1>2, <1>3, Constants

\* The local function of ResolveStream, after each turn.
After(s, until) ==
  CHOOSE after :
    after = [n \in 0 .. MaxEvents |->
               IF n = 0 THEN s ELSE CommitOrDefer(after[n - 1], until)]

\* Turn by turn it exists.
LEMMA AfterDef ==
  ASSUME NEW s, NEW until
  PROVE  /\ After(s, until)[0] = s
         /\ \A n \in 1 .. MaxEvents :
              After(s, until)[n] = CommitOrDefer(After(s, until)[n - 1], until)
<1> DEFINE Turns(g, k) ==
             g = [n \in 0 .. k |-> IF n = 0 THEN s ELSE CommitOrDefer(g[n - 1], until)]
           T == {k \in 0 .. MaxEvents : \E g : Turns(g, k)}
<1>1. 0 \in T
  <2>1. Turns([n \in 0 .. 0 |-> s], 0)
    OBVIOUS
  <2>2. 0 \in 0 .. MaxEvents
    BY Constants
  <2> HIDE DEF Turns
  <2> QED
    BY <2>1, <2>2
<1>2. ASSUME NEW k \in 0 .. MaxEvents, k \in T, k < MaxEvents PROVE k + 1 \in T
  <2>1. PICK g : Turns(g, k)
    BY <1>2
  <2> DEFINE h == [n \in 0 .. k + 1 |-> IF n <= k THEN g[n] ELSE CommitOrDefer(g[k], until)]
  <2>2. ASSUME NEW n \in 0 .. k + 1
        PROVE  h[n] = IF n = 0 THEN s ELSE CommitOrDefer(h[n - 1], until)
    <3>1. CASE n = 0
      BY <2>1, <3>1
    <3>2. CASE n # 0 /\ n <= k
      <4>1. n \in 0 .. k /\ n - 1 \in 0 .. k + 1 /\ n - 1 <= k
        BY <3>2
      <4>2. h[n] = g[n] /\ h[n - 1] = g[n - 1]
        BY <3>2, <4>1
      <4>3. g[n] = CommitOrDefer(g[n - 1], until)
        BY <2>1, <3>2, <4>1
      <4> QED
        BY <3>2, <4>2, <4>3
    <3>3. CASE n = k + 1
      <4>1. ~ (n <= k) /\ n - 1 = k /\ k \in 0 .. k + 1 /\ k <= k /\ n # 0
        BY <3>3
      <4>2. h[n] = CommitOrDefer(g[k], until) /\ h[n - 1] = g[k]
        BY <4>1
      <4> QED
        BY <4>1, <4>2
    <3> QED
      BY <3>1, <3>2, <3>3
  <2>3. Turns(h, k + 1)
    <3>1. h = [n \in 0 .. k + 1 |-> h[n]]
      OBVIOUS
    <3> HIDE DEF h
    <3> QED
      BY <2>2, <3>1, Zenon
  <2> HIDE DEF h, Turns
  <2>4. k + 1 \in 0 .. MaxEvents
    BY <1>2, Constants
  <2> QED
    BY <2>3, <2>4
<1>3. MaxEvents \in T
  <2> HIDE DEF T
  <2>1. \A n \in 0 .. MaxEvents : n \in T
    BY <1>1, <1>2, Constants, Induction
  <2> QED
    BY <2>1, Constants
<1>4. PICK g : Turns(g, MaxEvents)
  BY <1>3
<1> DEFINE a == After(s, until)
<1>5. a = [n \in 0 .. MaxEvents |-> IF n = 0 THEN s ELSE CommitOrDefer(a[n - 1], until)]
  BY <1>4, Zenon DEF After
<1> HIDE DEF a
<1>6. a[0] = s
  BY <1>5, Constants
<1>7. \A n \in 1 .. MaxEvents : a[n] = CommitOrDefer(a[n - 1], until)
  BY <1>5, Constants
<1> QED
  BY <1>6, <1>7 DEF a

\* ResolveStream in terms of its turns.
LEMMA ResolveStreamDef ==
  ASSUME NEW s, NEW until
  PROVE  ResolveStream(s, until) = IF until <= s.elapsed THEN s ELSE After(s, until)[MaxEvents]
BY DEF ResolveStream, After

\* Turn by turn: a session between two events, that goes forward and not past
\* the window, that keeps pace, and that the next turn moves until nothing fits.
LEMMA AfterEffect ==
  ASSUME seed \in Seeds, NEW s \in Bodies, Good(s), NEW until \in Nat, s.elapsed <= until
  PROVE  \A n \in 0 .. MaxEvents :
           LET v == After(s, until)[n]
           IN  /\ v \in Bodies /\ Good(v)
               /\ v.autoRepair = s.autoRepair /\ v.bait = s.bait
               /\ s.elapsed <= v.elapsed /\ v.elapsed <= until
               /\ Settled(v, until) \/ v.lastIndex >= n
               /\ until <= MaxTime /\ s.elapsed <= s.lastIndex * Longest
                    => v.elapsed <= v.lastIndex * Longest
<1> DEFINE a == After(s, until)
           Fine(v, n) ==
             /\ v \in Bodies /\ Good(v)
             /\ v.autoRepair = s.autoRepair /\ v.bait = s.bait
             /\ s.elapsed <= v.elapsed /\ v.elapsed <= until
             /\ Settled(v, until) \/ v.lastIndex >= n
             /\ until <= MaxTime /\ s.elapsed <= s.lastIndex * Longest
                  => v.elapsed <= v.lastIndex * Longest
           T == {n \in 0 .. MaxEvents : Fine(a[n], n)}
<1>1. a[0] = s /\ \A n \in 1 .. MaxEvents : a[n] = CommitOrDefer(a[n - 1], until)
  BY AfterDef
<1> HIDE DEF a
<1>2. 0 \in T
  <2>1. s.elapsed \in Nat /\ s.lastIndex \in Nat /\ 0 \in 0 .. MaxEvents
    BY Constants DEF Bodies
  <2>2. Fine(s, 0)
    BY <2>1
  <2> HIDE DEF Fine
  <2> QED
    BY <1>1, <2>1, <2>2
<1>3. ASSUME NEW n \in 0 .. MaxEvents, n \in T, n < MaxEvents PROVE n + 1 \in T
  <2> DEFINE v == a[n]
             w == a[n + 1]
  <2>1. n + 1 \in 1 .. MaxEvents /\ (n + 1) - 1 = n
    BY <1>3, Constants
  <2>2. w = CommitOrDefer(v, until)
    BY <1>1, <2>1
  <2>3. Fine(v, n)
    BY <1>3
  <2> HIDE DEF v, w
  <2>4. v.elapsed \in Nat /\ v.lastIndex \in Nat /\ s.elapsed \in Nat
    BY <2>3 DEF Bodies
  <2>5. ASSUME w = v /\ Settled(v, until) PROVE Fine(w, n + 1)
    BY <2>3, <2>5
  <2>6. ASSUME /\ w \in Bodies /\ Good(w)
               /\ w.autoRepair = v.autoRepair /\ w.bait = v.bait
               /\ w.lastIndex = v.lastIndex + 1
               /\ v.lastIndex < MaxEvents
               /\ v.elapsed < w.elapsed /\ w.elapsed <= until
               /\ w.elapsed = NextEvent(v).t
               /\ until <= MaxTime => w.elapsed <= v.elapsed + Longest
        PROVE  Fine(w, n + 1)
    <3>1. w.elapsed \in Nat
      BY <2>6 DEF Bodies
    <3>2. s.elapsed <= w.elapsed
      BY <2>3, <2>4, <2>6, <3>1
    <3>3. Settled(w, until) \/ w.lastIndex >= n + 1
      <4>1. CASE v.lastIndex >= n
        BY <2>1, <2>4, <2>6, <4>1
      <4>2. CASE Settled(v, until)
        <5>1. until < w.elapsed
          BY <2>4, <2>6, <4>2, Constants DEF Settled
        <5> QED
          BY <2>6, <3>1, <5>1
      <4> QED
        BY <2>3, <4>1, <4>2
    <3>4. ASSUME until <= MaxTime, s.elapsed <= s.lastIndex * Longest
          PROVE  w.elapsed <= w.lastIndex * Longest
      <4>1. v.elapsed <= v.lastIndex * Longest
        BY <2>3, <3>4
      <4>2. (v.lastIndex + 1) * Longest = v.lastIndex * Longest + Longest
        BY <2>4, Constants
      <4>3. v.lastIndex * Longest \in Nat
        BY <2>4, Constants
      <4> QED
        BY <2>4, <2>6, <3>1, <3>4, <4>1, <4>2, <4>3, Constants
    <3> QED
      BY <2>3, <2>6, <3>2, <3>3, <3>4
  <2>7. Fine(w, n + 1)
    <3> HIDE DEF Fine
    <3>1. v \in Bodies /\ Good(v)
      BY <2>3 DEF Fine
    <3> QED
      BY <2>2, <2>5, <2>6, <3>1, CommitOrDeferEffect
  <2> HIDE DEF Fine
  <2> QED
    BY <2>1, <2>7 DEF w
<1>4. \A n \in 0 .. MaxEvents : n \in T
  <2> HIDE DEF T
  <2> QED
    BY <1>2, <1>3, Constants, Induction
<1> QED
  BY <1>4 DEF a

\* A window that is not behind the session is the whole loop, and settles it.
LEMMA ResolveStreamEffect ==
  ASSUME seed \in Seeds, NEW s \in Bodies, Good(s), NEW until \in Nat, s.elapsed <= until,
         NEW v, v = ResolveStream(s, until)
  PROVE  /\ v = After(s, until)[MaxEvents]
         /\ v \in Bodies /\ Good(v)
         /\ v.autoRepair = s.autoRepair /\ v.bait = s.bait
         /\ v.elapsed <= until
         /\ Settled(v, until)
         /\ until <= MaxTime /\ s.elapsed <= s.lastIndex * Longest
              => v.elapsed <= v.lastIndex * Longest
<1> DEFINE a == After(s, until)
           last == a[MaxEvents]
<1>1. a[0] = s /\ \A n \in 1 .. MaxEvents : a[n] = CommitOrDefer(a[n - 1], until)
  BY AfterDef
<1>2. v = IF until <= s.elapsed THEN s ELSE last
  BY ResolveStreamDef
<1>3. MaxEvents \in 0 .. MaxEvents /\ s.elapsed \in Nat
  BY Constants DEF Bodies
<1>4. /\ last \in Bodies /\ Good(last)
      /\ last.autoRepair = s.autoRepair /\ last.bait = s.bait
      /\ last.elapsed <= until
      /\ Settled(last, until) \/ last.lastIndex >= MaxEvents
      /\ until <= MaxTime /\ s.elapsed <= s.lastIndex * Longest
           => last.elapsed <= last.lastIndex * Longest
  BY <1>3, AfterEffect
<1>5. Settled(last, until)
  BY <1>4 DEF Settled
<1>6. ASSUME until <= s.elapsed PROVE last = s
  <2> DEFINE T == {n \in 0 .. MaxEvents : a[n] = s}
  <2> HIDE DEF a
  <2>1. Settled(s, until)
    <3>1. CASE s.lastIndex < MaxEvents
      <4>1. NextEvent(s).t \in Nat /\ s.elapsed < NextEvent(s).t
        BY <3>1, NextEventEffect
      <4> QED
        BY <1>3, <1>6, <4>1 DEF Settled
    <3>2. CASE s.lastIndex >= MaxEvents
      BY <3>2 DEF Settled
    <3>3. s.lastIndex \in Nat
      BY DEF Bodies
    <3> QED
      BY <3>1, <3>2, <3>3, Constants
  <2>2. CommitOrDefer(s, until) = s
    BY <2>1, SettledStays
  <2>3. 0 \in T
    BY <1>1, Constants
  <2>4. ASSUME NEW n \in 0 .. MaxEvents, n \in T, n < MaxEvents PROVE n + 1 \in T
    <3>1. n + 1 \in 1 .. MaxEvents /\ (n + 1) - 1 = n /\ n + 1 \in 0 .. MaxEvents
      BY <2>4, Constants
    <3>2. a[n + 1] = CommitOrDefer(a[n], until)
      BY <1>1, <3>1
    <3>3. a[n + 1] = s
      BY <2>2, <2>4, <3>2
    <3> QED
      BY <3>1, <3>3
  <2>5. \A n \in 0 .. MaxEvents : n \in T
    <3> HIDE DEF T
    <3> QED
      BY <2>3, <2>4, Constants, Induction
  <2> QED
    BY <1>3, <2>5
<1> HIDE DEF last
<1>7. v = last
  BY <1>2, <1>6
<1> QED
  BY <1>4, <1>5, <1>7 DEF last

-----------------------------------------------------------------------------
(* Two windows in a row are one.                                           *)

\* The first turn may as well be made before the window.
LEMMA TurnFirst ==
  ASSUME seed \in Seeds, NEW s \in Bodies, Good(s), NEW until \in Nat, s.elapsed <= until
  PROVE  ResolveStream(CommitOrDefer(s, until), until) = ResolveStream(s, until)
<1> DEFINE v == CommitOrDefer(s, until)
           a == After(s, until)
           b == After(v, until)
           T == {n \in 0 .. MaxEvents : n < MaxEvents => b[n] = a[n + 1]}
<1>1. CASE v = s
  BY <1>1
<1>2. CASE v # s
  <2>1. v \in Bodies /\ Good(v) /\ v.elapsed <= until /\ s.lastIndex < MaxEvents
    BY <1>2, CommitOrDeferEffect
  <2>2. s.lastIndex \in Nat /\ MaxEvents \in Nat \ {0}
    BY <2>1, Constants DEF Bodies
  <2>3. a[0] = s /\ \A n \in 1 .. MaxEvents : a[n] = CommitOrDefer(a[n - 1], until)
    BY AfterDef
  <2>4. b[0] = v /\ \A n \in 1 .. MaxEvents : b[n] = CommitOrDefer(b[n - 1], until)
    BY AfterDef
  <2>5. ResolveStream(s, until) = a[MaxEvents]
    BY ResolveStreamEffect
  <2>6. ResolveStream(v, until) = b[MaxEvents]
    BY <2>1, ResolveStreamEffect
  <2>7. a[MaxEvents] \in Bodies /\ Good(a[MaxEvents]) /\ Settled(a[MaxEvents], until)
    BY <2>5, ResolveStreamEffect
  <2>8. v = CommitOrDefer(s, until)
    OBVIOUS
  <2> HIDE DEF a, b, v
  <2>9. 0 \in T
    <3>1. 1 \in 1 .. MaxEvents /\ 0 \in 0 .. MaxEvents /\ 1 - 1 = 0 /\ 0 + 1 = 1
      BY <2>2
    <3>2. a[1] = CommitOrDefer(a[0], until)
      BY <2>3, <3>1
    <3> QED
      BY <2>3, <2>4, <2>8, <3>1, <3>2
  <2>10. ASSUME NEW n \in 0 .. MaxEvents, n \in T, n < MaxEvents PROVE n + 1 \in T
    <3>1. SUFFICES ASSUME n + 1 < MaxEvents PROVE b[n + 1] = a[(n + 1) + 1]
      BY <2>2, <2>10
    <3>2. /\ n + 1 \in 1 .. MaxEvents /\ (n + 1) - 1 = n
          /\ (n + 1) + 1 \in 1 .. MaxEvents /\ ((n + 1) + 1) - 1 = n + 1
      BY <2>2, <2>10, <3>1
    <3>3. b[n + 1] = CommitOrDefer(b[n], until)
      BY <2>4, <3>2
    <3>4. a[(n + 1) + 1] = CommitOrDefer(a[n + 1], until)
      BY <2>3, <3>2
    <3>5. b[n] = a[n + 1]
      BY <2>10
    <3> QED
      BY <3>3, <3>4, <3>5
  <2>11. \A n \in 0 .. MaxEvents : n \in T
    <3> HIDE DEF T
    <3> QED
      BY <2>2, <2>9, <2>10, Induction
  <2>12. /\ MaxEvents - 1 \in 0 .. MaxEvents /\ MaxEvents - 1 < MaxEvents
         /\ (MaxEvents - 1) + 1 = MaxEvents /\ MaxEvents \in 1 .. MaxEvents
    BY <2>2
  <2>13. b[MaxEvents - 1] = a[MaxEvents]
    BY <2>11, <2>12
  <2>14. b[MaxEvents] = CommitOrDefer(a[MaxEvents], until)
    BY <2>4, <2>12, <2>13
  <2>15. b[MaxEvents] = a[MaxEvents]
    BY <2>7, <2>14, SettledStays
  <2> QED
    BY <2>5, <2>6, <2>15 DEF v
<1> QED
  BY <1>1, <1>2

\* Resolve(s, T1) and then Resolve(s, T2) is Resolve(s, T2).
LEMMA ResolveStreamAdds ==
  ASSUME seed \in Seeds, NEW s \in Bodies, Good(s),
         NEW first \in Nat, NEW until \in Nat, s.elapsed <= first, first <= until
  PROVE  ResolveStream(ResolveStream(s, first), until) = ResolveStream(s, until)
<1> DEFINE a == After(s, first)
           T == {n \in 0 .. MaxEvents : ResolveStream(a[n], until) = ResolveStream(s, until)}
<1>1. a[0] = s /\ \A n \in 1 .. MaxEvents : a[n] = CommitOrDefer(a[n - 1], first)
  BY AfterDef
<1>2. \A n \in 0 .. MaxEvents : a[n] \in Bodies /\ Good(a[n]) /\ a[n].elapsed <= first
  BY AfterEffect
<1>3. ResolveStream(s, first) = a[MaxEvents]
  BY ResolveStreamEffect
<1> HIDE DEF a
<1>4. 0 \in T
  BY <1>1, Constants
<1>5. ASSUME NEW n \in 0 .. MaxEvents, n \in T, n < MaxEvents PROVE n + 1 \in T
  <2> DEFINE v == a[n]
             w == a[n + 1]
  <2>1. n + 1 \in 1 .. MaxEvents /\ (n + 1) - 1 = n /\ n + 1 \in 0 .. MaxEvents
    BY <1>5, Constants
  <2>2. w = CommitOrDefer(v, first)
    BY <1>1, <2>1
  <2>3. v \in Bodies /\ Good(v) /\ v.elapsed <= first /\ v.elapsed \in Nat
    BY <1>2 DEF Bodies
  <2>4. ResolveStream(v, until) = ResolveStream(s, until)
    BY <1>5
  <2> HIDE DEF v, w
  <2>5. v.elapsed <= until
    BY <2>3
  <2>6. w = v \/ w = CommitOrDefer(v, until)
    <3>1. ASSUME v.lastIndex < MaxEvents PROVE NextEvent(v).t \in Nat
      BY <2>3, <3>1, NextEventEffect
    <3> QED
      BY <2>2, <3>1 DEF CommitOrDefer
  <2>7. ResolveStream(w, until) = ResolveStream(v, until)
    BY <2>3, <2>5, <2>6, TurnFirst
  <2> QED
    BY <2>1, <2>4, <2>7 DEF w
<1>6. \A n \in 0 .. MaxEvents : n \in T
  <2> HIDE DEF T
  <2> QED
    BY <1>4, <1>5, Constants, Induction
<1>7. MaxEvents \in 0 .. MaxEvents
  BY Constants
<1> QED
  BY <1>3, <1>6, <1>7

-----------------------------------------------------------------------------
(* The two sessions.                                                       *)

\* The session that stays in memory is what one window gives; the one that is
\* rebuilt has the pace of the clock: its last event is not far behind, and it
\* has not had fewer events than its time can hold.
Windows ==
  /\ Good(kept)
  /\ kept.elapsed <= resolved
  /\ Additive
  /\ Good(row)
  /\ row.elapsed <= resolved
  /\ row.elapsed <= row.lastIndex * Longest
  /\ row.lastIndex = MaxEvents \/ resolved < row.elapsed + Longest

IInv == TypeOK /\ Windows

\* A session as StartFishing makes it.
LEMMA FreshEffect ==
  ASSUME NEW a \in BOOLEAN, NEW b \in BaitKinds
  PROVE  /\ Fresh(a, b) \in Sessions /\ Good(Fresh(a, b))
         /\ Fresh(a, b).autoRepair = a /\ Fresh(a, b).bait = b
         /\ Fresh(a, b).elapsed = 0 /\ Fresh(a, b).lastIndex = 0
<1>1. [g \in Goods |-> 0] \in [Goods -> Nat]
  OBVIOUS
<1>2. 0 \in 0 .. MaxEvents /\ 0 \in 0 .. MaxTime /\ MaxDurability \in 0 .. MaxDurability
      /\ Charges \in 0 .. Charges
  BY Constants
<1>3. Fresh(a, b) \in Sessions
  BY <1>1, <1>2 DEF Fresh, Sessions
<1> QED
  BY <1>3, Constants DEF Fresh, Good

\* A body whose clock is bounded is a session.
LEMMA BodiesAndSessions ==
  /\ Sessions \subseteq Bodies
  /\ \A s \in Bodies, until \in 0 .. MaxTime : s.elapsed <= until => s \in Sessions
<1>1. ASSUME NEW s \in Sessions PROVE s \in Bodies
  BY Constants DEF Sessions, Bodies
<1>2. ASSUME NEW s \in Bodies, NEW until \in 0 .. MaxTime, s.elapsed <= until PROVE s \in Sessions
  <2>1. s.elapsed \in 0 .. MaxTime
    BY <1>2, Constants DEF Bodies
  <2> QED
    BY <2>1 DEF Sessions, Bodies
<1> QED
  BY <1>1, <1>2

\* A rebuilt session has the trips that its time allows: those it made and no fewer.
LEMMA RebuiltEffect ==
  ASSUME NEW s \in Bodies, Good(s), NEW v, v = Rebuilt(s)
  PROVE  /\ v \in Bodies /\ Good(v)
         /\ v.elapsed = s.elapsed /\ v.lastIndex = s.lastIndex
         /\ v.hauls >= s.hauls
<1> DEFINE hauls == s.elapsed \div PetInterval
<1>1. s.elapsed \in Nat /\ s.hauls \in Nat /\ s.backpack \in Nat
  BY DEF Bodies
<1>2. hauls \in Nat /\ hauls * PetInterval <= s.elapsed
  BY <1>1, Constants, DivNat
<1>3. s.hauls <= hauls
  BY <1>1, Constants, DivAtLeast DEF Good
<1>4. v = [s EXCEPT !.hauls = hauls]
  BY DEF Rebuilt
<1> HIDE DEF hauls
<1>5. /\ v \in Bodies /\ v.hauls = hauls /\ v.elapsed = s.elapsed /\ v.lastIndex = s.lastIndex
      /\ v.backpack = s.backpack
  BY <1>2, <1>4 DEF Bodies
<1> QED
  BY <1>2, <1>3, <1>5 DEF Good

LEMMA InitHolds == Init => IInv
<1> SUFFICES ASSUME Init PROVE IInv
  OBVIOUS
<1>1. PICK a \in BOOLEAN, b \in BaitKinds : kept = Fresh(a, b)
  BY DEF Init
<1>2. kept \in Sessions /\ Good(kept) /\ kept.autoRepair = a /\ kept.bait = b
      /\ kept.elapsed = 0 /\ kept.lastIndex = 0
  BY <1>1, FreshEffect
<1>3. resolved = 0 /\ now = 0 /\ row = kept /\ seed \in Seeds
  BY DEF Init
<1>4. TypeOK
  BY <1>2, <1>3, Constants DEF TypeOK
<1>5. Additive
  <2>1. ResolveStream(kept, 0) = kept
    BY <1>2, ResolveStreamDef
  <2> QED
    BY <1>1, <1>2, <1>3, <2>1 DEF Additive
<1>6. /\ kept.elapsed <= resolved /\ row.elapsed <= resolved
      /\ row.elapsed <= row.lastIndex * Longest /\ resolved < row.elapsed + Longest
  BY <1>2, <1>3, Constants
<1> QED
  BY <1>2, <1>3, <1>4, <1>5, <1>6 DEF IInv, Windows

\* The loop is what its turns say, in every state; so it does not change
\* where the turns do not.
Loops ==
  \A s, until :
    /\ ResolveStream(s, until) = IF until <= s.elapsed THEN s ELSE After(s, until)[MaxEvents]
    /\ After(s, until)[0] = s
    /\ \A n \in 1 .. MaxEvents :
         After(s, until)[n] = CommitOrDefer(After(s, until)[n - 1], until)

\* That is a fact, so it may be used of the next state too.
LEMMA LoopsHolds == Loops
BY AfterDef, ResolveStreamDef DEF Loops

\* ResolveStream depends on the seed alone, which no step changes.
LEMMA SeedDecides ==
  ASSUME seed' = seed
  PROVE  \A s, until : ResolveStream(s, until)' = ResolveStream(s, until)
<1>1. \A s : NextEvent(s)' = NextEvent(s)
  BY DEF NextEvent
<1>2. \A s, until : CommitOrDefer(s, until)' = CommitOrDefer(s, until)
  BY <1>1 DEF CommitOrDefer
<1>3. Loops'
  BY LoopsHolds, PTL
<1>4. ASSUME NEW s, NEW until
      PROVE  ResolveStream(s, until)' = ResolveStream(s, until)
  <2> DEFINE T == {n \in 0 .. MaxEvents : After(s, until)'[n] = After(s, until)[n]}
  <2>1. 0 \in T
    BY <1>3, LoopsHolds, Constants DEF Loops
  <2>2. ASSUME NEW n \in 0 .. MaxEvents, n \in T, n < MaxEvents PROVE n + 1 \in T
    <3>1. n + 1 \in 1 .. MaxEvents /\ (n + 1) - 1 = n /\ n + 1 \in 0 .. MaxEvents
      BY <2>2, Constants
    <3>2. After(s, until)[n + 1] = CommitOrDefer(After(s, until)[n], until)
      BY <3>1, LoopsHolds DEF Loops
    <3>3. After(s, until)'[n + 1] = CommitOrDefer(After(s, until)[n], until)'
      BY <1>3, <3>1 DEF Loops
    <3>4. CommitOrDefer(After(s, until)[n], until)' = CommitOrDefer(After(s, until)'[n], until)
      BY <1>2
    <3>5. After(s, until)'[n] = After(s, until)[n]
      BY <2>2
    <3> QED
      BY <3>1, <3>2, <3>3, <3>4, <3>5
  <2>3. \A n \in 0 .. MaxEvents : n \in T
    <3> HIDE DEF T
    <3> QED
      BY <2>1, <2>2, Constants, Induction
  <2>4. After(s, until)'[MaxEvents] = After(s, until)[MaxEvents]
    BY <2>3, Constants
  <2> QED
    BY <1>3, <2>4, LoopsHolds DEF Loops
<1> QED
  BY <1>4

LEMMA TickKeeps == IInv /\ Tick => IInv'
<1> SUFFICES ASSUME IInv, Tick PROVE IInv'
  OBVIOUS
<1>1. TypeOK'
  <2>1. now \in Nat /\ resolved \in 0 .. now /\ now' = now + 1 /\ now < MaxTime
    BY Constants DEF IInv, TypeOK, Tick
  <2>2. now' \in 0 .. MaxTime /\ resolved \in 0 .. now'
    BY <2>1, Constants
  <2> QED
    BY <2>2 DEF IInv, TypeOK, Tick
<1>2. Additive'
  <2>1. seed' = seed /\ kept' = kept /\ resolved' = resolved
    BY DEF Tick
  <2>4. \A s, u : ResolveStream(s, u)' = ResolveStream(s, u)
    BY <2>1, SeedDecides
  <2>5. Additive
    BY DEF IInv, Windows
  <2> QED
    BY <2>1, <2>4, <2>5 DEF Additive
<1>3. (Good(kept) /\ Good(row) /\ kept.elapsed <= resolved /\ row.elapsed <= resolved)'
  BY DEF IInv, Windows, Good, Tick
<1>4. (row.lastIndex = MaxEvents \/ resolved < row.elapsed + Longest)'
      /\ (row.elapsed <= row.lastIndex * Longest)'
  BY DEF IInv, Windows, Tick
<1> QED
  BY <1>1, <1>2, <1>3, <1>4 DEF IInv, Windows

LEMMA ResolveWindowKeeps == IInv /\ ResolveWindow => IInv'
<1> SUFFICES ASSUME IInv, ResolveWindow PROVE IInv'
  OBVIOUS
<1>1. seed \in Seeds /\ now \in 0 .. MaxTime /\ resolved \in 0 .. now
      /\ kept \in Sessions /\ row \in Sessions
  BY DEF IInv, TypeOK
<1>2. kept \in Bodies /\ row \in Bodies /\ now \in Nat /\ now <= MaxTime /\ resolved \in Nat
      /\ resolved <= now
  BY <1>1, BodiesAndSessions, Constants
<1>3. Good(kept) /\ Good(row) /\ Additive /\ row.elapsed <= row.lastIndex * Longest
  BY DEF IInv, Windows
<1>4. seed' = seed /\ now' = now /\ resolved' = now /\ kept' = ResolveStream(kept, now)
      /\ row' = ResolveStream(Rebuilt(row), now)
  BY DEF ResolveWindow, Saved
<1>5. \A s, until : ResolveStream(s, until)' = ResolveStream(s, until)
  BY <1>4, SeedDecides
<1> DEFINE fresh == Fresh(kept.autoRepair, kept.bait)
           rebuilt == Rebuilt(row)
<1>6. /\ fresh \in Bodies /\ Good(fresh) /\ fresh.elapsed = 0
      /\ fresh.autoRepair = kept.autoRepair /\ fresh.bait = kept.bait
  BY <1>1, FreshEffect, BodiesAndSessions DEF Sessions
<1>7. kept = ResolveStream(fresh, resolved)
  BY <1>3 DEF Additive
<1>8. /\ rebuilt \in Bodies /\ Good(rebuilt)
      /\ rebuilt.elapsed = row.elapsed /\ rebuilt.lastIndex = row.lastIndex
  BY <1>2, <1>3, RebuiltEffect
<1>9. kept.elapsed <= now /\ row.elapsed <= now
  BY <1>1, <1>2, Constants DEF IInv, Windows, Sessions
<1>10. kept' = ResolveStream(fresh, now)
  BY <1>1, <1>2, <1>4, <1>6, <1>7, ResolveStreamAdds
<1>11. /\ kept' \in Bodies /\ Good(kept') /\ kept'.elapsed <= now
       /\ kept'.autoRepair = kept.autoRepair /\ kept'.bait = kept.bait
  BY <1>1, <1>2, <1>3, <1>4, <1>9, ResolveStreamEffect
<1>12. /\ row' \in Bodies /\ Good(row') /\ row'.elapsed <= now
       /\ Settled(row', now)
       /\ row'.elapsed <= row'.lastIndex * Longest
  BY <1>1, <1>2, <1>3, <1>4, <1>8, <1>9, ResolveStreamEffect
<1>13. TypeOK'
  <2>1. kept' \in Sessions /\ row' \in Sessions
    BY <1>1, <1>11, <1>12, BodiesAndSessions
  <2>2. now \in 0 .. now
    BY <1>2
  <2> QED
    BY <1>1, <1>4, <2>1, <2>2 DEF TypeOK
<1>14. Additive'
  <2>1. Fresh(kept'.autoRepair, kept'.bait) = fresh
    BY <1>11
  <2> HIDE DEF fresh
  <2> QED
    BY <1>4, <1>5, <1>10, <2>1 DEF Additive
<1>15. row'.lastIndex = MaxEvents \/ now < row'.elapsed + Longest
  <2>1. row'.lastIndex \in 0 .. MaxEvents
    BY <1>12 DEF Bodies
  <2>2. ASSUME row'.lastIndex < MaxEvents PROVE now < row'.elapsed + Longest
    <3>1. \A u \in 0 .. MaxTime : u < NextEvent(row').t => u < row'.elapsed + Longest
      BY <1>1, <1>12, <2>2, NextEventEffect
    <3>2. now < NextEvent(row').t
      BY <1>12, <2>1, <2>2, Constants DEF Settled
    <3> QED
      BY <1>1, <3>1, <3>2, Zenon
  <2> QED
    BY <2>1, <2>2, Constants
<1>16. Windows'
  BY <1>4, <1>11, <1>12, <1>14, <1>15 DEF Windows, Good
<1> QED
  BY <1>13, <1>16 DEF IInv

LEMMA StutterKeeps == IInv /\ UNCHANGED vars => IInv'
<1> SUFFICES ASSUME IInv, UNCHANGED vars PROVE IInv'
  OBVIOUS
<1>1. seed' = seed /\ now' = now /\ resolved' = resolved /\ kept' = kept /\ row' = row
  BY DEF vars
<1>2. \A s, until : ResolveStream(s, until)' = ResolveStream(s, until)
  BY <1>1, SeedDecides
<1>3. TypeOK'
  BY <1>1 DEF IInv, TypeOK
<1>4. Additive'
  BY <1>1, <1>2 DEF IInv, Windows, Additive
<1> QED
  BY <1>1, <1>3, <1>4 DEF IInv, Windows, Good

-----------------------------------------------------------------------------
(* What is proved of Spec.                                                 *)

\* The inductive invariant: the kept session is what one window gives
\* (resolve.go:63), and the saved one, rebuilt for each claim, is good and is
\* less than one event behind the instant to which it was resolved.
THEOREM WindowsCorrect == Spec => []IInv
<1>1. IInv /\ [Next]_vars => IInv'
  BY TickKeeps, ResolveWindowKeeps, StutterKeeps DEF Next
<1> QED
  BY InitHolds, <1>1, PTL DEF Spec

\* Type correctness: no durability, charge or backpack count goes below zero.
THEOREM TypeCorrect == Spec => []TypeOK
<1>1. IInv => TypeOK
  BY DEF IInv
<1> QED
  BY <1>1, WindowsCorrect, PTL

\* "Resolve(s, T) produz o mesmo estado final ... que Resolve(s, T1) seguido de
\* Resolve(s, T)" (resolve.go:63), for every seed, gear and sequence of windows.
THEOREM AdditiveCorrect == Spec => []Additive
<1>1. IInv => Additive
  BY DEF IInv, Windows
<1> QED
  BY <1>1, WindowsCorrect, PTL

\* The stall of resolve.go keeps the backpack within its capacity, in memory
\* and when the session is saved and rebuilt at any instant.
THEOREM BackpackBoundedCorrect == Spec => []BackpackBounded
<1>1. IInv => BackpackBounded
  BY DEF IInv, Windows, Good, BackpackBounded
<1> QED
  BY <1>1, WindowsCorrect, PTL

\* sessionFromRow counts the trips of the pet from the elapsed time: never
\* fewer than were made, so that none is made twice.
THEOREM NoTripTwiceCorrect == Spec => []NoTripTwice
<1>1. ASSUME IInv PROVE NoTripTwice
  <2>1. row \in Bodies /\ Good(row)
    BY <1>1, BodiesAndSessions DEF IInv, Windows, TypeOK
  <2> QED
    BY <2>1, RebuiltEffect DEF NoTripTwice
<1> QED
  BY <1>1, WindowsCorrect, PTL

\* However the claims cut its time, a session has had as many events as the
\* time holds of the longest one.
THEOREM PaceKeptCorrect == Spec => []PaceKept
<1>1. ASSUME IInv PROVE PaceKept
  <2>1. row \in Bodies /\ resolved \in Nat
    BY <1>1, BodiesAndSessions, Constants DEF IInv, TypeOK
  <2>2. row.lastIndex \in Nat /\ row.elapsed \in Nat
    BY <2>1 DEF Bodies
  <2>3. CASE row.lastIndex = MaxEvents
    BY <2>3 DEF PaceKept
  <2>4. CASE resolved < row.elapsed + Longest
    <3>1. row.elapsed <= row.lastIndex * Longest
      BY <1>1 DEF IInv, Windows
    <3>2. (row.lastIndex + 1) * Longest = row.lastIndex * Longest + Longest
      BY <2>2, Constants
    <3>3. row.lastIndex * Longest \in Nat
      BY <2>2, Constants
    <3>4. resolved < (row.lastIndex + 1) * Longest
      BY <2>1, <2>2, <2>4, <3>1, <3>2, <3>3, Constants
    <3>5. resolved \div Longest <= row.lastIndex /\ resolved \div Longest \in Nat
      BY <2>1, <2>2, <3>4, Constants, DivAtMost, DivNat
    <3> QED
      BY <2>2, <3>5 DEF PaceKept
  <2> QED
    BY <1>1, <2>3, <2>4 DEF IInv, Windows
<1> QED
  BY <1>1, WindowsCorrect, PTL
=============================================================================
