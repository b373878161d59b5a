--------------------------- MODULE FishingSession ---------------------------
(***************************************************************************)
(* One player's fishing session, kept in three places: the players row and *)
(* the fishing_session row of Postgres, and the hot copy of both in Redis. *)
(* Every HTTP handler and every WebSocket stream works on them from its    *)
(* own goroutine and holds no lock between two calls, so the module runs   *)
(* any number of requests of internal/usecase against the three stores,    *)
(* one store call per action.                                              *)
(*                                                                         *)
(* The clock counts fishing events: one event takes one unit of time and   *)
(* pays one unit of XP (gold, materials and trophies ride in the same      *)
(* transaction).  The event stream of a session is a function of its seed, *)
(* so an event is named by <<seed, index>>.                                *)
(***************************************************************************)
EXTENDS Integers, FiniteSets

CONSTANTS
  Requests,      \* goroutines serving this player
  Endpoints,     \* the operations the clients of an instance call
  Locations,     \* the fishing locations, each by its level
  StartLocation, \* StarterKit.StartLocation
  FastForwards,  \* the ff argument, in events; {0} outside DevMode
  XPPerLevel,    \* BalanceConfig.XPPerLevel
  OfflineCap,    \* BalanceConfig.OfflineCapSeconds, in events
  MaxTime,       \* bound on the clock
  MaxStarts,     \* bound on the sessions ever started
  MaxEvents,     \* bound on the index of an event
  MaxPoints,     \* bound on the skill points: no claim arrives beyond it
  MaxFaults      \* bound on failed calls

ASSUME RequestsAssumption == Requests # {}
ASSUME EndpointsAssumption ==
  Endpoints \subseteq {"start", "preview", "claim", "stop", "login"}
ASSUME LocationsAssumption == Locations \subseteq Nat /\ StartLocation \in Locations
ASSUME FastForwardsAssumption == FastForwards \subseteq Nat
ASSUME XPPerLevelAssumption == XPPerLevel \in Nat \ {0}
ASSUME BoundsAssumption ==
  /\ OfflineCap \in Nat
  /\ MaxTime \in Nat
  /\ MaxStarts \in Nat
  /\ MaxEvents \in Nat
  /\ MaxPoints \in Nat
  /\ MaxFaults \in Nat

VARIABLES
  now,        \* the clock
  player,     \* the players row
  row,        \* the fishing_session row, NoRow when there is none
  cache,      \* the Redis key of the session, NoHot on a miss
  req,        \* the local state of each request
  starts,     \* seeds drawn so far
  faults,     \* calls that failed so far
  ledger,     \* history: how often SaveResolve, on the row of one seed,
              \*   credited an event of a session
  payouts,    \* history: offline rewards paid since the last TouchLogout
  unguarded   \* history: requests overlapped in a way last_index cannot see

store == <<player, row, cache>>
history == <<ledger, payouts>>
vars == <<now, player, row, cache, req, starts, faults, ledger, payouts, unguarded>>

NoLogout == -1     \* last_logout IS NULL
Seeds == 1 .. MaxStarts
Events == 0 .. MaxEvents - 1

Rows == [seed : 0 .. MaxStarts, loc : Nat, startTime : Nat, lastIndex : Nat, lastTime : Nat]
NoRow == [seed |-> 0, loc |-> 0, startTime |-> 0, lastIndex |-> 0, lastTime |-> 0]

Players == [xp : Nat, level : Nat, points : Nat, highest : Nat, logout : Int]

\* The columns the resolve loop needs; the cached last_logout is never read.
Baselines == [xp : Nat, level : Nat, points : Nat, highest : Nat]
BaselineOf(p) == [xp |-> p.xp, level |-> p.level, points |-> p.points, highest |-> p.highest]
NoBaseline == [xp |-> 0, level |-> 0, points |-> 0, highest |-> 0]

HotSessions == [row : Rows, base : Baselines]
NoHot == [row |-> NoRow, base |-> NoBaseline]

Ops == {"none", "start", "preview", "claim", "stop", "login"}
Labels == {"idle", "startSession", "cacheStart", "getSession", "getBaseline", "fill",
           "resolve", "save", "cacheAfter", "cacheDel", "deleteSession", "uncache",
           "touchLogout", "checkSession", "readPlayer", "applyReward", "uncacheReward"}
RequestStates == [pc : Labels, op : Ops, hot : HotSessions, n : Nat, began : Nat]
Idle == [pc |-> "idle", op |-> "none", hot |-> NoHot, n |-> 0, began |-> 0]

-----------------------------------------------------------------------------
(* The formulas of the domain.                                             *)

LevelForXP(xp) == xp \div XPPerLevel + 1

SkillPointsForLevel(level) == IF level <= 1 THEN 0 ELSE level - 1

\* Seeded fault: the levels are swapped, and the difference is not clamped.
AddedPointsSwapped(old, new) == SkillPointsForLevel(old) - SkillPointsForLevel(new)

\* The points runResolve and applyOffline add when the level moves.
AddedPoints(old, new) ==
  LET diff == SkillPointsForLevel(new) - SkillPointsForLevel(old)
  IN  IF diff < 0 THEN 0 ELSE diff

OfflineReward(away) ==
  IF away <= 0 THEN 0 ELSE IF away < OfflineCap THEN away ELSE OfflineCap

\* ResolveStream: every event that ends by `until` is committed, in order.
Resolved(r, ff) ==
  LET realDelta == IF now > r.lastTime THEN now - r.lastTime ELSE 0
  IN  realDelta + ff

\* The row that SaveResolve writes and the baseline the cache is given.
After(r, n) == [r EXCEPT !.lastIndex = @ + n, !.lastTime = @ + n]

\* The columns SaveResolve writes; seed and location_id are not among them.
Advance(r, after) ==
  [r EXCEPT !.startTime = after.startTime, !.lastIndex = after.lastIndex,
            !.lastTime = after.lastTime]

\* Seeded fault: any location is taken for the best one.
AnyLocation(hot) == hot.row.loc > 0

\* newHighest # "": the location of the session beats the best one known.
BetterLocation(hot) == hot.row.loc > hot.base.highest

\* Seeded fault: the cached baseline keeps its level and points.
BaselineAfterSameLevel(hot, n) == [hot.base EXCEPT !.xp = @ + n]

BaselineAfter(hot, n) ==
  LET level == LevelForXP(hot.base.xp + n)
  IN  [hot.base EXCEPT !.xp = @ + n, !.level = level,
                       !.points = @ + AddedPoints(hot.base.level, level),
                       !.highest = IF BetterLocation(hot) THEN hot.row.loc ELSE @]

\* What SaveResolve does to the players row: XP and points are increments,
\* level and highest_location_id come from the baseline that was resolved.
Credit(p, hot, n) ==
  LET level == LevelForXP(hot.base.xp + n)
  IN  [p EXCEPT !.xp = @ + n, !.level = level,
                !.points = @ + AddedPoints(hot.base.level, level),
                !.highest = IF BetterLocation(hot) THEN hot.row.loc ELSE @]

-----------------------------------------------------------------------------
TypeOK ==
  /\ now \in Nat
  /\ player \in Players
  /\ row \in Rows
  /\ cache \in HotSessions
  /\ req \in [Requests -> RequestStates]
  /\ starts \in 0 .. MaxStarts
  /\ faults \in Nat
  /\ ledger \in [Seeds -> [Seeds -> [Events -> Nat]]]
  /\ payouts \in Nat
  /\ unguarded \in BOOLEAN

Init ==
  /\ now = 0
  /\ player = [xp |-> 0, level |-> 1, points |-> 0, highest |-> StartLocation,
                logout |-> NoLogout]
  /\ row = NoRow
  /\ cache = NoHot
  /\ req = [r \in Requests |-> Idle]
  /\ starts = 0
  /\ faults = 0
  /\ ledger = [p \in Seeds |-> [s \in Seeds |-> [i \in Events |-> 0]]]
  /\ payouts = 0
  /\ unguarded = FALSE

-----------------------------------------------------------------------------
(* Bookkeeping of the requests.                                            *)

Active(r) == req[r].pc # "idle"

At(r, label) == req[r].pc = label

Goto(r, label) == req' = [req EXCEPT ![r].pc = label]

Return(r) == req' = [req EXCEPT ![r] = Idle]

\* The optimistic guard compares last_index, which every start sets back to
\* zero, and the offline reward has no guard: overlaps with a start and
\* overlaps of two logins are the ones nothing detects.
Overlap(r, op) ==
  \E q \in Requests \ {r} :
    /\ Active(q)
    /\ op = "start" \/ req[q].op = "start" \/ {op, req[q].op} = {"login"}

Begin(r, op, label, hot, t) ==
  /\ op \in Endpoints
  /\ At(r, "idle")
  /\ req' = [req EXCEPT ![r] = [pc |-> label, op |-> op, hot |-> hot, n |-> 0, began |-> t]]
  /\ unguarded' = (unguarded \/ Overlap(r, op))
  /\ UNCHANGED <<now, store, history>>

Fault == faults < MaxFaults /\ faults' = faults + 1

Tick ==
  /\ now < MaxTime
  /\ now' = now + 1
  /\ UNCHANGED <<store, req, starts, faults, history, unguarded>>

-----------------------------------------------------------------------------
(* StartFishing: read the player and build the row, upsert it, cache it.   *)

StartFishing(r, loc) ==
  /\ starts < MaxStarts
  /\ starts' = starts + 1
  /\ Begin(r, "start", "startSession",
           [row |-> [seed |-> starts + 1, loc |-> loc, startTime |-> now,
                     lastIndex |-> 0, lastTime |-> now],
            base |-> BaselineOf(player)], 0)
  /\ UNCHANGED faults

StartSession(r) ==
  /\ At(r, "startSession")
  /\ row' = req[r].hot.row
  /\ Goto(r, "cacheStart")
  /\ UNCHANGED <<now, player, cache, starts, faults, history, unguarded>>

CacheStart(r) ==
  /\ At(r, "cacheStart")
  /\ cache' = req[r].hot
  /\ Return(r)
  /\ UNCHANGED <<now, player, row, starts, faults, history, unguarded>>

-----------------------------------------------------------------------------
(* hotSession and runResolve, shared by preview, claim and stop.           *)

\* CacheGetSession answers first; a Redis error counts as a miss.
BeginResolve(r, op) ==
  LET began == IF op = "stop" THEN now ELSE 0
  IN  /\ op = "preview" \/ player.points <= MaxPoints
      /\ \/ Begin(r, op, IF cache = NoHot THEN "getSession" ELSE "resolve", cache, began)
            /\ UNCHANGED faults
         \/ cache # NoHot /\ Fault /\ Begin(r, op, "getSession", NoHot, began)
      /\ UNCHANGED starts

PreviewFishing(r) == BeginResolve(r, "preview")
ClaimFishing(r) == BeginResolve(r, "claim")
StopFishing(r) == BeginResolve(r, "stop")

GetSession(r) ==
  /\ At(r, "getSession")
  /\ IF row = NoRow
     THEN Return(r)  \* ErrNoSession
     ELSE req' = [req EXCEPT ![r].hot.row = row, ![r].pc = "getBaseline"]
  /\ UNCHANGED <<now, store, starts, faults, history, unguarded>>

GetPlayerBaseline(r) ==
  /\ At(r, "getBaseline")
  /\ req' = [req EXCEPT ![r].hot.base = BaselineOf(player), ![r].pc = "fill"]
  /\ UNCHANGED <<now, store, starts, faults, history, unguarded>>

FillCache(r) ==
  /\ At(r, "fill")
  /\ cache' = req[r].hot
  /\ Goto(r, "resolve")
  /\ UNCHANGED <<now, player, row, starts, faults, history, unguarded>>

\* Seeded fault: the key is given the new anchor before the save.
ResolveCachesFirst(r, ff) ==
  /\ At(r, "resolve")
  /\ LET n == Resolved(req[r].hot.row, ff)
     IN  /\ req[r].hot.row.lastIndex + n <= MaxEvents
         /\ IF req[r].op = "preview"
            THEN Return(r) /\ UNCHANGED cache
            ELSE /\ req' = [req EXCEPT ![r].n = n, ![r].pc = "save"]
                 /\ cache' = [req[r].hot EXCEPT !.row = After(@, n)]
  /\ UNCHANGED <<now, player, row, starts, faults, history, unguarded>>

Resolve(r, ff) ==
  /\ At(r, "resolve")
  /\ LET n == Resolved(req[r].hot.row, ff)
     IN  /\ req[r].hot.row.lastIndex + n <= MaxEvents
         /\ IF req[r].op = "preview"
            THEN Return(r)
            ELSE req' = [req EXCEPT ![r].n = n, ![r].pc = "save"]
  /\ UNCHANGED <<now, store, starts, faults, history, unguarded>>

\* Seeded fault: the update of fishing_session has no AND last_index = $10.
AnyAnchor(r) == row # NoRow

\* AND last_index = $10, on whatever row the player has now.
AnchorMatches(r) == row # NoRow /\ row.lastIndex = req[r].hot.row.lastIndex

SaveResolve(r) ==
  LET hot == req[r].hot
      n == req[r].n
      paid == hot.row.lastIndex .. hot.row.lastIndex + n - 1
  IN
  /\ At(r, "save")
  /\ AnchorMatches(r)
  /\ player' = Credit(player, hot, n)
  /\ row' = Advance(row, After(hot.row, n))
  /\ ledger' = [ledger EXCEPT ![row.seed][hot.row.seed] =
                  [i \in Events |-> IF i \in paid THEN @[i] + 1 ELSE @[i]]]
  /\ Goto(r, "cacheAfter")
  /\ UNCHANGED <<now, cache, starts, faults, payouts, unguarded>>

\* Seeded fault: the new snapshot is cached although the save was rolled back.
StaleClaimCached(r) ==
  /\ At(r, "save")
  /\ ~AnchorMatches(r)
  /\ Goto(r, "cacheAfter")
  /\ UNCHANGED <<now, store, starts, faults, history, unguarded>>

\* RowsAffected() = 0: the transaction is rolled back with ErrStaleClaim.
StaleClaim(r) ==
  /\ At(r, "save")
  /\ ~AnchorMatches(r)
  /\ Goto(r, "cacheDel")
  /\ UNCHANGED <<now, store, starts, faults, history, unguarded>>

\* A claim answers here; a stop goes on to close the session.
Finish(r) == IF req[r].op = "stop" THEN Goto(r, "deleteSession") ELSE Return(r)

CacheAfter(r) ==
  /\ At(r, "cacheAfter")
  /\ cache' = [row |-> After(req[r].hot.row, req[r].n),
               base |-> BaselineAfter(req[r].hot, req[r].n)]
  /\ Finish(r)
  /\ UNCHANGED <<now, player, row, starts, faults, history, unguarded>>

\* Seeded fault: a stale claim leaves the obsolete key where it is.
CacheDelStaleSkipped(r) ==
  /\ At(r, "cacheDel")
  /\ Finish(r)
  /\ UNCHANGED <<now, store, starts, faults, history, unguarded>>

CacheDelStale(r) ==
  /\ At(r, "cacheDel")
  /\ cache' = NoHot
  /\ Finish(r)
  /\ UNCHANGED <<now, player, row, starts, faults, history, unguarded>>

-----------------------------------------------------------------------------
(* The rest of StopFishing, the same after a claim that was stale.         *)

DeleteSession(r) ==
  /\ At(r, "deleteSession")
  /\ row' = NoRow
  /\ Goto(r, "uncache")
  /\ UNCHANGED <<now, player, cache, starts, faults, history, unguarded>>

CacheDelStop(r) ==
  /\ At(r, "uncache")
  /\ cache' = NoHot
  /\ Goto(r, "touchLogout")
  /\ UNCHANGED <<now, player, row, starts, faults, history, unguarded>>

TouchLogout(r) ==
  /\ At(r, "touchLogout")
  /\ player' = [player EXCEPT !.logout = now]
  /\ payouts' = 0
  /\ Return(r)
  /\ UNCHANGED <<now, row, cache, starts, faults, ledger, unguarded>>

-----------------------------------------------------------------------------
(* LoginSteam: applyOffline for a player that exists.                      *)

LoginSteam(r) ==
  /\ Begin(r, "login", "checkSession", NoHot, 0)
  /\ UNCHANGED <<starts, faults>>

\* Seeded fault: a player with a session is given the offline reward too.
CheckSessionSkipped(r) ==
  /\ At(r, "checkSession")
  /\ Goto(r, "readPlayer")
  /\ UNCHANGED <<now, store, starts, faults, history, unguarded>>

CheckSession(r) ==
  /\ At(r, "checkSession")
  /\ IF row # NoRow THEN Return(r) ELSE Goto(r, "readPlayer")
  /\ UNCHANGED <<now, store, starts, faults, history, unguarded>>

ReadPlayer(r) ==
  LET reward == OfflineReward(now - player.logout)
  IN
  /\ At(r, "readPlayer")
  /\ IF player.logout = NoLogout \/ reward = 0
     THEN Return(r)
     ELSE req' = [req EXCEPT ![r].hot.base = BaselineOf(player), ![r].n = reward, ![r].pc = "applyReward"]
  /\ UNCHANGED <<now, store, starts, faults, history, unguarded>>

ApplyOfflineReward(r) ==
  LET level == LevelForXP(req[r].hot.base.xp + req[r].n)
  IN
  /\ At(r, "applyReward")
  /\ player' = [player EXCEPT !.xp = @ + req[r].n, !.level = level,
                              !.points = @ + AddedPoints(req[r].hot.base.level, level),
                              !.logout = NoLogout]
  /\ payouts' = payouts + 1
  /\ Goto(r, "uncacheReward")
  /\ UNCHANGED <<now, row, cache, starts, faults, ledger, unguarded>>

CacheDelReward(r) ==
  /\ At(r, "uncacheReward")
  /\ cache' = NoHot
  /\ Return(r)
  /\ UNCHANGED <<now, player, row, starts, faults, history, unguarded>>

-----------------------------------------------------------------------------
(* Failures.  A request ends at any point: its context is cancelled, a     *)
(* store answers with an error, the process dies.  Redis errors are        *)
(* ignored by the code, which goes on as if the call had succeeded, and    *)
(* Redis may drop the key (TTL, restart, a market purchase).               *)

GivesUp(r) ==
  /\ Active(r)
  /\ Return(r)
  /\ unguarded' = (unguarded \/ At(r, "cacheStart"))
  /\ UNCHANGED <<now, store, starts, history>>

Abort(r) == GivesUp(r) /\ Fault

RedisFails(r) ==
  /\ Fault
  /\ \/ At(r, "fill") /\ Goto(r, "resolve")
     \/ At(r, "cacheAfter") /\ Finish(r)
     \/ At(r, "cacheDel") /\ Finish(r)
     \/ At(r, "uncache") /\ Goto(r, "touchLogout")
     \/ At(r, "cacheStart") /\ Return(r)
     \/ At(r, "uncacheReward") /\ Return(r)
  /\ unguarded' = (unguarded \/ At(r, "cacheStart"))
  /\ UNCHANGED <<now, store, starts, history>>

CacheLost ==
  /\ cache # NoHot
  /\ cache' = NoHot
  /\ UNCHANGED <<now, player, row, req, starts, faults, history, unguarded>>

-----------------------------------------------------------------------------
RequestStep(r) ==
  \/ StartSession(r) \/ CacheStart(r)
  \/ GetSession(r) \/ GetPlayerBaseline(r) \/ FillCache(r)
  \/ \E ff \in FastForwards : Resolve(r, ff)
  \/ SaveResolve(r) \/ StaleClaim(r) \/ CacheAfter(r) \/ CacheDelStale(r)
  \/ DeleteSession(r) \/ CacheDelStop(r) \/ TouchLogout(r)
  \/ CheckSession(r) \/ ReadPlayer(r) \/ ApplyOfflineReward(r) \/ CacheDelReward(r)

Arrival(r) ==
  \/ \E loc \in Locations : StartFishing(r, loc)
  \/ PreviewFishing(r) \/ ClaimFishing(r) \/ StopFishing(r) \/ LoginSteam(r)

Next ==
  \/ Tick
  \/ CacheLost
  \/ \E r \in Requests : Arrival(r) \/ RequestStep(r) \/ Abort(r) \/ RedisFails(r)

Spec == Init /\ [][Next]_vars

-----------------------------------------------------------------------------
(* Properties.                                                             *)

Unpaid(q, i) == \A s \in Seeds : ledger[q][s][i] = 0

PaidOnce(q, i) ==
  \E s \in Seeds : ledger[q][s][i] = 1 /\ \A t \in Seeds \ {s} : ledger[q][t][i] = 0

\* SaveResolve moves the credit and the anchor in one transaction: the events
\* paid on the row of a seed are those below its last_index, each paid once,
\* whichever requests saved them, in whatever order, and whatever failed.
CreditsTileTheAnchor ==
  row # NoRow =>
    \A i \in Events : IF i < row.lastIndex THEN PaidOnce(row.seed, i) ELSE Unpaid(row.seed, i)

\* "Evita double-credit quando dois claims do mesmo jogador correm em paralelo"
\* (session.go:19): no event of a session is credited twice, on one row or on
\* two.  A start that sets last_index back to zero under a claim refutes it.
NoDoubleCredit ==
  \A s \in Seeds, i \in Events, p, q \in Seeds :
    /\ ledger[p][s][i] <= 1
    /\ ledger[p][s][i] > 0 /\ ledger[q][s][i] > 0 => p = q

\* The guard on last_index keeps parallel previews, claims and stops from
\* crediting twice, as long as no start and no second login overlapped them.
GuardedNoDoubleCredit == ~unguarded => NoDoubleCredit

\* "Subir de nível concede pontos de Skill Tree" (GAMEPLAY.md:190): level and
\* skill points are those of the XP, although every claim writes the level that
\* its own baseline gives.
LevelFollowsXP ==
  /\ player.level = LevelForXP(player.xp)
  /\ player.points = SkillPointsForLevel(player.level)

\* No claim was ever credited on the row of another session.
OwnCredits == \A p \in Seeds, s \in Seeds, i \in Events : ledger[p][s][i] > 0 => p = s

\* "Subir de nível concede pontos de Skill Tree" (GAMEPLAY.md:190) where the
\* guard has kept every claim on its own session.  A start caches the player it
\* read before its upsert; a claim that was credited in between refutes it.
OwnCreditsLevelFollowsXP == OwnCredits => LevelFollowsXP

\* LevelFollowsXP of parallel previews, claims, stops and logins that no start
\* and no second login overlapped: their baseline is as old as the anchor they match.
GuardedLevelFollowsXP == ~unguarded => LevelFollowsXP

\* Postgres is the source of truth: the cached anchor of the current session
\* may lag behind the row and is never ahead of it.
CacheNeverLeads ==
  cache.row.seed = row.seed => cache.row.lastIndex <= row.lastIndex

\* The anchor of a session row never moves back.
AnchorNeverBack ==
  [][row # NoRow /\ row'.seed = row.seed => row'.lastIndex >= row.lastIndex]_vars

\* The best location of a player never gets worse, although every claim on a
\* better location than its baseline knows of writes it outright.
GuardedHighestNeverBack == [][~unguarded' => player'.highest >= player.highest]_vars

\* While requests overlap in no other way than one the guard on last_index
\* detects, players and fishing_session change as if each request ran alone:
\* a claim pays due events at the level, points and best location of the row
\* it meets, whatever it read before, and a login rewards one logout once.
Atomic ==
  INSTANCE AtomicSession WITH session <- row, overlapped <- unguarded

GuardedAtomic == Atomic!Spec

-----------------------------------------------------------------------------
(* What comments of the code and the documents say, and the code does not  *)
(* do: each is refuted by a run, as NoDoubleCredit is and the level that   *)
(* is to follow the XP.                                                    *)

\* "Outro claim concorrente já persistiu o progresso; só encerra"
\* (fishing.go:133): when a stop deletes the session, the row is anchored at
\* or after the instant at which the stop began.
StopLosesNothing ==
  [][\A r \in Requests :
       DeleteSession(r) /\ row # NoRow => row.lastTime >= req[r].began]_vars

\* "credita a recompensa de catch-up e consome o last_logout" (players.go:185):
\* one logout is rewarded once.
OfflineRewardOnce == payouts <= 1

-----------------------------------------------------------------------------
(* The inductive invariants behind CreditsTileTheAnchor and                *)
(* GuardedNoDoubleCredit.                                                  *)

\* The labels at which a request holds a session it read.
Holding == {"getBaseline", "fill", "resolve", "save", "cacheAfter"}

\* On every row there ever was, an index is paid for at most one session.
LedgerInv ==
  /\ \A q \in Seeds, i \in Events : Unpaid(q, i) \/ PaidOnce(q, i)
  /\ \A q \in Seeds, i \in Events : q > starts => Unpaid(q, i)

RowInv ==
  /\ row # NoRow => row.seed \in 1 .. starts
  /\ CreditsTileTheAnchor
  /\ cache # NoHot => cache.row.seed \in Seeds

\* A start that has not upserted its row yet owns a seed nobody was paid on.
PendingStart(r) ==
  /\ req[r].op = "start"
  /\ req[r].hot.row.seed \in 1 .. starts
  /\ req[r].hot.row.seed # row.seed
  /\ req[r].hot.row.lastIndex = 0
  /\ \A i \in Events : Unpaid(req[r].hot.row.seed, i)
  /\ \A q \in Requests \ {r} :
       At(q, "startSession") => req[q].hot.row.seed # req[r].hot.row.seed

RequestInv(r) ==
  /\ At(r, "startSession") => PendingStart(r)
  /\ At(r, "cacheStart") => req[r].op = "start" /\ req[r].hot.row.seed \in Seeds
  /\ req[r].pc \in Holding => req[r].hot.row.seed \in Seeds
  /\ At(r, "save") => req[r].hot.row.lastIndex + req[r].n <= MaxEvents

AnchorInv == LedgerInv /\ RowInv /\ \A r \in Requests : RequestInv(r)

\* While no start overlapped anything, a start runs alone and every copy of
\* the session is a copy of the current one.
Alone == \A r \in Requests : Active(r) /\ req[r].op = "start" =>
           \A q \in Requests \ {r} : ~Active(q)

OneSession ==
  /\ Alone
  /\ OwnCredits
  /\ \A r \in Requests :
       /\ At(r, "cacheStart") => row = req[r].hot.row
       /\ row # NoRow /\ req[r].pc \in Holding => req[r].hot.row.seed = row.seed
  /\ row # NoRow /\ cache # NoHot /\ (\A r \in Requests : ~At(r, "cacheStart"))
       => cache.row.seed = row.seed

SessionInv == AnchorInv /\ (~unguarded => OneSession)

-----------------------------------------------------------------------------
(* The inductive invariants behind CacheNeverLeads, GuardedLevelFollowsXP, *)
(* GuardedHighestNeverBack and GuardedAtomic.                              *)

\* Where the copy that a request holds leaves off.
Anchor(r) == req[r].hot.row.lastIndex + (IF At(r, "cacheAfter") THEN req[r].n ELSE 0)

\* A copy of a session never leads its row, and nobody has a copy of a session
\* whose row is still to be upserted.
CopyInv ==
  /\ CacheNeverLeads
  /\ cache # NoHot => cache.row.seed <= starts
  /\ \A r \in Requests :
       req[r].pc \in Holding \union {"cacheStart"} =>
         /\ req[r].hot.row.seed <= starts
         /\ req[r].hot.row.seed = row.seed => Anchor(r) <= row.lastIndex
  /\ \A r \in Requests :
       At(r, "startSession") =>
         /\ cache.row.seed # req[r].hot.row.seed
         /\ \A q \in Requests :
              req[q].pc \in Holding \union {"cacheStart"} => req[q].hot.row.seed # req[r].hot.row.seed

CopyOf(copy, session) ==
  /\ copy.loc = session.loc
  /\ copy.startTime = session.startTime
  /\ copy.lastTime = copy.startTime + copy.lastIndex

\* A baseline is as old as the anchor it came with: with the anchor of now comes
\* the player of now, but for a best location that saving would reach again.
UpToDate(hot, session, p) ==
  hot.row.lastIndex = session.lastIndex =>
    /\ hot.base.xp = p.xp
    /\ hot.base.level = p.level
    /\ hot.base.highest <= p.highest
    /\ p.highest <= IF BetterLocation(hot) THEN hot.row.loc ELSE hot.base.highest

HotAfter(r) == [row |-> After(req[r].hot.row, req[r].n), base |-> BaselineAfter(req[r].hot, req[r].n)]

StartInv(r) ==
  req[r].pc \in {"startSession", "cacheStart"} =>
    /\ req[r].hot.base = BaselineOf(player)
    /\ req[r].hot.row.loc \in Locations
    /\ req[r].hot.row.startTime <= now
    /\ req[r].hot.row.lastTime = req[r].hot.row.startTime
    /\ req[r].hot.row.lastIndex = 0

ResolveInv(r) ==
  /\ row # NoRow =>
       /\ req[r].pc \in Holding => CopyOf(req[r].hot.row, row)
       /\ req[r].pc \in {"fill", "resolve", "save"} => UpToDate(req[r].hot, row, player)
       /\ At(r, "cacheAfter") => UpToDate(HotAfter(r), row, player)
  /\ At(r, "save") => \E ff \in FastForwards : req[r].n <= Resolved(req[r].hot.row, ff)

LoginInv(r) ==
  /\ req[r].pc \in {"checkSession", "readPlayer", "applyReward", "uncacheReward"} => req[r].op = "login"
  /\ req[r].pc \in {"readPlayer", "applyReward"} => row = NoRow
  /\ At(r, "applyReward") =>
       /\ req[r].hot.base = BaselineOf(player)
       /\ req[r].n \in 1 .. OfflineCap
       /\ player.logout # NoLogout

AgreeInv ==
  /\ LevelFollowsXP
  /\ row # NoRow => row.lastTime = row.startTime + row.lastIndex
  /\ \A q, r \in Requests :
       Active(q) /\ req[q].op = "login" /\ Active(r) /\ req[r].op = "login" => q = r
  /\ \A r \in Requests : StartInv(r) /\ ResolveInv(r) /\ LoginInv(r)
  /\ row # NoRow /\ cache # NoHot /\ (\A r \in Requests : ~At(r, "cacheStart"))
       => CopyOf(cache.row, row) /\ UpToDate(cache, row, player)

AtomicInv == CopyInv /\ (~unguarded => AgreeInv)

=============================================================================
