----------------------- MODULE FishingSession_proofs -----------------------
(***************************************************************************)
(* Proofs about FishingSession, for every number of requests, sessions,    *)
(* events and failures.                                                    *)
(***************************************************************************)
EXTENDS FishingSession, TLAPS

-----------------------------------------------------------------------------
\* The steps of Next, whatever budget their failures are charged to: a request
\* that gives up need not be a fault, and a fault need not concern a request.
Still == faults' \in Nat /\ UNCHANGED <<now, store, req, starts, history, unguarded>>

Moves ==
  \/ Tick
  \/ CacheLost
  \/ \E r \in Requests :
       Arrival(r) \/ RequestStep(r) \/ (GivesUp(r) /\ faults' \in Nat) \/ RedisFails(r)
  \/ Still

LEMMA NextMoves ==
  ASSUME TypeOK, [Next]_vars
  PROVE  Moves
BY DEF Moves, Still, Next, vars, store, history, Abort, Fault, TypeOK

-----------------------------------------------------------------------------
(* The formulas of the domain stay within the naturals.                    *)

LEMMA LevelType ==
  ASSUME NEW xp \in Nat
  PROVE  LevelForXP(xp) \in Nat
BY XPPerLevelAssumption DEF LevelForXP

LEMMA PointsType ==
  ASSUME NEW old \in Nat, NEW new \in Nat
  PROVE  AddedPoints(old, new) \in Nat
BY DEF AddedPoints, SkillPointsForLevel

LEMMA RewardType ==
  ASSUME NEW away \in Int
  PROVE  OfflineReward(away) \in Nat
BY BoundsAssumption DEF OfflineReward

LEMMA ResolvedType ==
  ASSUME NEW r \in Rows, NEW ff \in FastForwards, now \in Nat
  PROVE  Resolved(r, ff) \in Nat
BY FastForwardsAssumption DEF Resolved, Rows

LEMMA AfterType ==
  ASSUME NEW r \in Rows, NEW n \in Nat
  PROVE  After(r, n) \in Rows
<1> DEFINE index == r.lastIndex + n
           time == r.lastTime + n
<1>1. index \in Nat /\ time \in Nat
  BY DEF Rows
<1>2. After(r, n) = [r EXCEPT !.lastIndex = index, !.lastTime = time]
  BY DEF After
<1> HIDE DEF index, time
<1> QED
  BY <1>1, <1>2 DEF Rows

LEMMA AdvanceType ==
  ASSUME NEW r \in Rows, NEW after \in Rows
  PROVE  Advance(r, after) \in Rows
BY DEF Advance, Rows

\* The seed of a row survives both, and SaveResolve writes the new anchor.
LEMMA AnchorFields ==
  ASSUME NEW r \in Rows, NEW s \in Rows, NEW n \in Nat
  PROVE  /\ After(s, n).seed = s.seed
         /\ After(s, n).lastIndex = s.lastIndex + n
         /\ Advance(r, After(s, n)).seed = r.seed
         /\ Advance(r, After(s, n)).lastIndex = s.lastIndex + n
BY DEF After, Advance, Rows

LEMMA BaselineAfterType ==
  ASSUME NEW hot \in HotSessions, NEW n \in Nat
  PROVE  BaselineAfter(hot, n) \in Baselines
<1> DEFINE xp == hot.base.xp + n
           level == LevelForXP(xp)
           added == AddedPoints(hot.base.level, level)
           points == hot.base.points + added
           highest == IF BetterLocation(hot) THEN hot.row.loc ELSE hot.base.highest
<1>1. hot.base \in Baselines /\ hot.row \in Rows
  BY DEF HotSessions
<1>2. xp \in Nat /\ highest \in Nat
  BY <1>1 DEF Baselines, Rows
<1>3. level \in Nat
  BY <1>2, LevelType
<1>4. added \in Nat
  <2>1. \A l \in Nat : AddedPoints(hot.base.level, l) \in Nat
    BY <1>1, PointsType DEF Baselines
  <2> QED
    BY <1>3, <2>1
<1>5. points \in Nat
  <2> HIDE DEF added
  <2> QED
    BY <1>1, <1>4 DEF Baselines
<1>6. BaselineAfter(hot, n) = [hot.base EXCEPT !.xp = xp, !.level = level,
                                               !.points = points, !.highest = highest]
  BY DEF BaselineAfter
<1> HIDE DEF xp, level, points, highest
<1> QED
  BY <1>1, <1>2, <1>3, <1>5, <1>6 DEF Baselines

LEMMA CreditType ==
  ASSUME NEW p \in Players, NEW hot \in HotSessions, NEW n \in Nat
  PROVE  Credit(p, hot, n) \in Players
<1> DEFINE xp == p.xp + n
           level == LevelForXP(hot.base.xp + n)
           added == AddedPoints(hot.base.level, level)
           points == p.points + added
           highest == IF BetterLocation(hot) THEN hot.row.loc ELSE p.highest
<1>1. hot.base \in Baselines /\ hot.row \in Rows
  BY DEF HotSessions
<1>2. xp \in Nat /\ highest \in Nat
  BY <1>1 DEF Players, Rows
<1>3. level \in Nat
  BY <1>1, LevelType DEF Baselines
<1>4. added \in Nat
  <2>1. \A l \in Nat : AddedPoints(hot.base.level, l) \in Nat
    BY <1>1, PointsType DEF Baselines
  <2> QED
    BY <1>3, <2>1
<1>5. points \in Nat
  <2> HIDE DEF added
  <2> QED
    BY <1>1, <1>4 DEF Baselines, Players
<1>6. Credit(p, hot, n) = [p EXCEPT !.xp = xp, !.level = level,
                                    !.points = points, !.highest = highest]
  BY DEF Credit
<1> HIDE DEF xp, level, points, highest
<1> QED
  BY <1>2, <1>3, <1>5, <1>6 DEF Players

-----------------------------------------------------------------------------
(* Type correctness.                                                       *)

LEMMA RequestTypes ==
  ASSUME TypeOK, NEW r \in Requests
  PROVE  /\ req[r] \in RequestStates
         /\ req[r].hot \in HotSessions /\ req[r].hot.row \in Rows /\ req[r].hot.base \in Baselines
         /\ req[r].n \in Nat /\ req[r].began \in Nat /\ req[r].pc \in Labels /\ req[r].op \in Ops
BY DEF TypeOK, RequestStates, HotSessions

LEMMA EmptyTypes == NoRow \in Rows /\ NoHot \in HotSessions /\ Idle \in RequestStates
<1>1. NoRow \in Rows
  BY BoundsAssumption DEF NoRow, Rows
<1>2. NoHot \in HotSessions
  BY <1>1 DEF NoHot, HotSessions, NoBaseline, Baselines
<1> QED
  BY <1>1, <1>2 DEF Idle, RequestStates, Labels, Ops

LEMMA GotoType ==
  ASSUME TypeOK, NEW r \in Requests, NEW label \in Labels, Goto(r, label)
  PROVE  req' \in [Requests -> RequestStates]
<1>1. [req[r] EXCEPT !.pc = label] \in RequestStates
  BY DEF TypeOK, RequestStates
<1>2. req' = [req EXCEPT ![r] = [req[r] EXCEPT !.pc = label]]
  BY DEF Goto
<1> QED
  BY <1>1, <1>2 DEF TypeOK

LEMMA ReturnType ==
  ASSUME TypeOK, NEW r \in Requests, Return(r)
  PROVE  req' \in [Requests -> RequestStates]
BY EmptyTypes DEF Return, TypeOK

LEMMA FinishType ==
  ASSUME TypeOK, NEW r \in Requests, Finish(r)
  PROVE  req' \in [Requests -> RequestStates]
BY ReturnType, GotoType DEF Finish, Labels

LEMMA BeginType ==
  ASSUME TypeOK, NEW r \in Requests, NEW op, NEW label \in Labels, NEW hot \in HotSessions,
         NEW t \in Nat, Begin(r, op, label, hot, t)
  PROVE  /\ req' \in [Requests -> RequestStates]
         /\ unguarded' \in BOOLEAN
         /\ UNCHANGED <<now, player, row, cache, ledger, payouts>>
<1>1. op \in Ops
  BY EndpointsAssumption DEF Begin, Ops
<1>2. [pc |-> label, op |-> op, hot |-> hot, n |-> 0, began |-> t] \in RequestStates
  BY <1>1 DEF RequestStates
<1>3. req' \in [Requests -> RequestStates]
  BY <1>2 DEF Begin, TypeOK
<1>4. unguarded' \in BOOLEAN
  BY DEF Begin, Overlap, TypeOK
<1> QED
  BY <1>3, <1>4 DEF Begin, store, history

LEMMA LedgerType ==
  ASSUME TypeOK, NEW p, NEW s, NEW paid,
         ledger' = [ledger EXCEPT ![p][s] = [i \in Events |-> IF i \in paid THEN @[i] + 1 ELSE @[i]]]
  PROVE  ledger' \in [Seeds -> [Seeds -> [Events -> Nat]]]
<1> DEFINE new == [i \in Events |-> IF i \in paid THEN ledger[p][s][i] + 1 ELSE ledger[p][s][i]]
<1>1. ASSUME p \in Seeds, s \in Seeds
      PROVE  new \in [Events -> Nat]
  BY <1>1 DEF TypeOK
<1>2. ledger' = [ledger EXCEPT ![p] = [ledger[p] EXCEPT ![s] = new]]
  OBVIOUS
<1> HIDE DEF new
<1>3. ASSUME p \in Seeds
      PROVE  [ledger[p] EXCEPT ![s] = new] \in [Seeds -> [Events -> Nat]]
  BY <1>1, <1>3 DEF TypeOK
<1> QED
  BY <1>2, <1>3 DEF TypeOK

LEMMA InitType == Init => TypeOK
<1> SUFFICES ASSUME Init PROVE TypeOK
  OBVIOUS
<1>1. player \in Players
  BY LocationsAssumption DEF Init, Players, NoLogout
<1>2. req \in [Requests -> RequestStates]
  BY EmptyTypes DEF Init
<1>3. ledger \in [Seeds -> [Seeds -> [Events -> Nat]]]
  BY DEF Init
<1>4. now \in Nat /\ faults \in Nat /\ payouts \in Nat /\ starts \in 0 .. MaxStarts
  BY BoundsAssumption DEF Init
<1>5. row \in Rows /\ cache \in HotSessions /\ unguarded \in BOOLEAN
  BY EmptyTypes DEF Init
<1> QED
  BY <1>1, <1>2, <1>3, <1>4, <1>5 DEF TypeOK

\* The arrivals.
LEMMA ArrivalType ==
  ASSUME TypeOK, NEW r \in Requests, Arrival(r)
  PROVE  TypeOK'
<1>1. ASSUME NEW loc \in Locations, StartFishing(r, loc)
      PROVE  TypeOK'
  <2> DEFINE new == [seed |-> starts + 1, loc |-> loc, startTime |-> now,
                     lastIndex |-> 0, lastTime |-> now]
  <2>1. starts + 1 \in 0 .. MaxStarts
    BY <1>1, BoundsAssumption DEF StartFishing, TypeOK
  <2>2. new \in Rows
    BY <2>1, LocationsAssumption DEF TypeOK, Rows
  <2>3. BaselineOf(player) \in Baselines
    BY DEF TypeOK, BaselineOf, Players, Baselines
  <2>4. [row |-> new, base |-> BaselineOf(player)] \in HotSessions
    BY <2>2, <2>3 DEF HotSessions
  <2>5. /\ req' \in [Requests -> RequestStates]
        /\ unguarded' \in BOOLEAN
        /\ UNCHANGED <<now, player, row, cache, ledger, payouts>>
    <3> HIDE DEF new
    <3> QED
      BY <1>1, <2>4, BeginType DEF StartFishing, Labels, new
  <2> QED
    BY <1>1, <2>1, <2>5 DEF StartFishing, TypeOK
<1>2. ASSUME NEW op, BeginResolve(r, op)
      PROVE  TypeOK'
  <2> DEFINE began == IF op = "stop" THEN now ELSE 0
             label == IF cache = NoHot THEN "getSession" ELSE "resolve"
  <2>1. began \in Nat /\ label \in Labels /\ "getSession" \in Labels
    BY DEF TypeOK, Labels
  <2>2. /\ req' \in [Requests -> RequestStates]
        /\ unguarded' \in BOOLEAN
        /\ UNCHANGED <<now, player, row, cache, ledger, payouts>>
    <3>1. CASE Begin(r, op, label, cache, began)
      <4> HIDE DEF began, label
      <4> QED
        BY <2>1, <3>1, BeginType DEF TypeOK
    <3>2. CASE Begin(r, op, "getSession", NoHot, began)
      <4> HIDE DEF began, label
      <4> QED
        BY <2>1, <3>2, BeginType, EmptyTypes
    <3> QED
      BY <1>2, <3>1, <3>2 DEF BeginResolve
  <2>3. starts' = starts /\ faults' \in Nat
    BY <1>2 DEF BeginResolve, Fault, TypeOK
  <2> QED
    BY <2>2, <2>3 DEF TypeOK
<1>3. CASE LoginSteam(r)
  <2>1. /\ req' \in [Requests -> RequestStates]
        /\ unguarded' \in BOOLEAN
        /\ UNCHANGED <<now, player, row, cache, ledger, payouts>>
    BY <1>3, EmptyTypes, BeginType DEF LoginSteam, Labels
  <2> QED
    BY <1>3, <2>1 DEF LoginSteam, TypeOK
<1> QED
  BY <1>1, <1>2, <1>3 DEF Arrival, PreviewFishing, ClaimFishing, StopFishing

\* The steps of a request.
LEMMA StepType ==
  ASSUME TypeOK, NEW r \in Requests, RequestStep(r)
  PROVE  TypeOK'
<1> USE DEF store, history
<1>1. CASE StartSession(r)
  BY <1>1, RequestTypes, GotoType DEF StartSession, TypeOK, Labels
<1>2. CASE CacheStart(r)
  BY <1>2, RequestTypes, ReturnType DEF CacheStart, TypeOK
<1>3. CASE GetSession(r)
  <2>1. CASE row = NoRow
    BY <1>3, <2>1, ReturnType DEF GetSession, TypeOK
  <2>2. CASE row # NoRow
    <3>1. [req[r].hot EXCEPT !.row = row] \in HotSessions
      BY RequestTypes DEF TypeOK, HotSessions
    <3>2. [[req[r] EXCEPT !.hot = [req[r].hot EXCEPT !.row = row]] EXCEPT !.pc = "getBaseline"]
            \in RequestStates
      BY <3>1, RequestTypes DEF RequestStates, Labels
    <3> QED
      BY <1>3, <2>2, <3>2 DEF GetSession, TypeOK
  <2> QED
    BY <2>1, <2>2
<1>4. CASE GetPlayerBaseline(r)
  <2>1. BaselineOf(player) \in Baselines
    BY DEF TypeOK, BaselineOf, Players, Baselines
  <2>2. [req[r].hot EXCEPT !.base = BaselineOf(player)] \in HotSessions
    BY <2>1, RequestTypes DEF HotSessions
  <2>3. [[req[r] EXCEPT !.hot = [req[r].hot EXCEPT !.base = BaselineOf(player)]] EXCEPT !.pc = "fill"]
          \in RequestStates
    BY <2>2, RequestTypes DEF RequestStates, Labels
  <2> QED
    BY <1>4, <2>3 DEF GetPlayerBaseline, TypeOK
<1>5. CASE FillCache(r)
  BY <1>5, RequestTypes, GotoType DEF FillCache, TypeOK, Labels
<1>6. ASSUME NEW ff \in FastForwards, Resolve(r, ff)
      PROVE  TypeOK'
  <2> DEFINE n == Resolved(req[r].hot.row, ff)
  <2>1. n \in Nat
    BY RequestTypes, ResolvedType DEF TypeOK
  <2>2. [[req[r] EXCEPT !.n = n] EXCEPT !.pc = "save"] \in RequestStates
    <3> HIDE DEF n
    <3> QED
      BY <2>1, RequestTypes DEF RequestStates, Labels
  <2>3. req' \in [Requests -> RequestStates]
    <3>1. CASE req[r].op = "preview"
      BY <1>6, <3>1, ReturnType DEF Resolve
    <3>2. CASE req[r].op # "preview"
      BY <1>6, <2>2, <3>2 DEF Resolve, TypeOK
    <3> QED
      BY <3>1, <3>2
  <2> QED
    BY <1>6, <2>3 DEF Resolve, TypeOK
<1>7. CASE SaveResolve(r)
  <2>1. player' \in Players
    BY <1>7, RequestTypes, CreditType DEF SaveResolve, TypeOK
  <2>2. row' \in Rows
    BY <1>7, RequestTypes, AfterType, AdvanceType DEF SaveResolve, TypeOK
  <2>3. ledger' \in [Seeds -> [Seeds -> [Events -> Nat]]]
    BY <1>7, LedgerType DEF SaveResolve
  <2>4. req' \in [Requests -> RequestStates]
    BY <1>7, GotoType DEF SaveResolve, Labels
  <2> QED
    BY <1>7, <2>1, <2>2, <2>3, <2>4 DEF SaveResolve, TypeOK
<1>8. CASE StaleClaim(r)
  BY <1>8, GotoType DEF StaleClaim, TypeOK, Labels
<1>9. CASE CacheAfter(r)
  <2>1. cache' \in HotSessions
    BY <1>9, RequestTypes, AfterType, BaselineAfterType DEF CacheAfter, HotSessions
  <2>2. req' \in [Requests -> RequestStates]
    BY <1>9, FinishType DEF CacheAfter
  <2> QED
    BY <1>9, <2>1, <2>2 DEF CacheAfter, TypeOK
<1>10. CASE CacheDelStale(r)
  BY <1>10, EmptyTypes, FinishType DEF CacheDelStale, TypeOK
<1>11. CASE DeleteSession(r)
  BY <1>11, EmptyTypes, GotoType DEF DeleteSession, TypeOK, Labels
<1>12. CASE CacheDelStop(r)
  BY <1>12, EmptyTypes, GotoType DEF CacheDelStop, TypeOK, Labels
<1>13. CASE TouchLogout(r)
  <2>1. player' \in Players
    BY <1>13 DEF TouchLogout, TypeOK, Players
  <2> QED
    BY <1>13, <2>1, ReturnType DEF TouchLogout, TypeOK
<1>14. CASE CheckSession(r)
  BY <1>14, ReturnType, GotoType DEF CheckSession, TypeOK, Labels
<1>15. CASE ReadPlayer(r)
  <2> DEFINE reward == OfflineReward(now - player.logout)
  <2>1. reward \in Nat
    BY RewardType DEF TypeOK, Players
  <2>2. BaselineOf(player) \in Baselines
    BY DEF TypeOK, BaselineOf, Players, Baselines
  <2>3. [req[r].hot EXCEPT !.base = BaselineOf(player)] \in HotSessions
    BY <2>2, RequestTypes DEF HotSessions
  <2>4. [[[req[r] EXCEPT !.hot = [req[r].hot EXCEPT !.base = BaselineOf(player)]]
            EXCEPT !.n = reward] EXCEPT !.pc = "applyReward"] \in RequestStates
    <3> HIDE DEF reward
    <3> QED
      BY <2>1, <2>3, RequestTypes DEF RequestStates, Labels
  <2> QED
    BY <1>15, <2>4, ReturnType DEF ReadPlayer, TypeOK
<1>16. CASE ApplyOfflineReward(r)
  <2> DEFINE xp == player.xp + req[r].n
             level == LevelForXP(req[r].hot.base.xp + req[r].n)
             added == AddedPoints(req[r].hot.base.level, level)
             points == player.points + added
  <2>1. xp \in Nat
    BY RequestTypes DEF TypeOK, Players
  <2>2. level \in Nat
    BY RequestTypes, LevelType DEF Baselines
  <2>3. added \in Nat
    <3>1. \A l \in Nat : AddedPoints(req[r].hot.base.level, l) \in Nat
      BY RequestTypes, PointsType DEF Baselines
    <3> QED
      BY <2>2, <3>1
  <2>4. points \in Nat
    <3> HIDE DEF added
    <3> QED
      BY <2>3 DEF TypeOK, Players
  <2>5. player' = [player EXCEPT !.xp = xp, !.level = level, !.points = points, !.logout = NoLogout]
    BY <1>16 DEF ApplyOfflineReward
  <2>6. player' \in Players
    <3>1. NoLogout \in Int
      BY DEF NoLogout
    <3> HIDE DEF xp, level, points
    <3> QED
      BY <2>1, <2>2, <2>4, <2>5, <3>1 DEF TypeOK, Players
  <2>7. req' \in [Requests -> RequestStates]
    BY <1>16, GotoType DEF ApplyOfflineReward, Labels
  <2> QED
    BY <1>16, <2>6, <2>7 DEF ApplyOfflineReward, TypeOK
<1>17. CASE CacheDelReward(r)
  BY <1>17, EmptyTypes, ReturnType DEF CacheDelReward, TypeOK
<1> QED
  BY <1>1, <1>2, <1>3, <1>4, <1>5, <1>6, <1>7, <1>8, <1>9, <1>10, <1>11, <1>12,
     <1>13, <1>14, <1>15, <1>16, <1>17 DEF RequestStep

\* The rest: failures, the clock and a lost key.
LEMMA FailureType ==
  ASSUME TypeOK, NEW r \in Requests, (GivesUp(r) /\ faults' \in Nat) \/ RedisFails(r)
  PROVE  TypeOK'
<1> USE DEF store, history
<1>1. req' \in [Requests -> RequestStates]
  BY ReturnType, FinishType, GotoType DEF GivesUp, RedisFails, Labels
<1>2. unguarded' \in BOOLEAN
  BY DEF GivesUp, RedisFails, TypeOK, At
<1>3. faults' \in Nat
  BY DEF GivesUp, RedisFails, Fault, TypeOK
<1> QED
  BY <1>1, <1>2, <1>3 DEF GivesUp, RedisFails, TypeOK

LEMMA NextType ==
  ASSUME TypeOK, Moves
  PROVE  TypeOK'
<1>1. CASE Tick
  BY <1>1 DEF Tick, TypeOK, store, history
<1>2. CASE CacheLost
  BY <1>2, EmptyTypes DEF CacheLost, TypeOK, history
<1>3. CASE Still
  BY <1>3 DEF Still, TypeOK, store, history
<1> QED
  BY <1>1, <1>2, <1>3, ArrivalType, StepType, FailureType DEF Moves

\* Every variable keeps its type, for every number of requests and sessions.
THEOREM TypeCorrect == Spec => []TypeOK
<1>1. TypeOK /\ [Next]_vars => TypeOK'
  BY NextMoves, NextType
<1> QED
  BY InitType, <1>1, PTL DEF Spec

-----------------------------------------------------------------------------
(* The inductive invariant AnchorInv: what is paid on a row is what its    *)
(* anchor says.                                                            *)

\* What a step of r does to the local state of the requests.
LEMMA GotoEffect ==
  ASSUME TypeOK, NEW r \in Requests, NEW label \in Labels, Goto(r, label)
  PROVE  /\ req'[r].pc = label /\ req'[r].hot = req[r].hot
         /\ req'[r].n = req[r].n /\ req'[r].op = req[r].op
         /\ \A q \in Requests \ {r} : req'[q] = req[q]
<1>1. req' = [req EXCEPT ![r] = [req[r] EXCEPT !.pc = label]]
  BY DEF Goto
<1>2. req'[r] = [req[r] EXCEPT !.pc = label]
  BY <1>1 DEF TypeOK
<1>3. \A q \in Requests \ {r} : req'[q] = req[q]
  BY <1>1 DEF TypeOK
<1> QED
  BY <1>2, <1>3, RequestTypes DEF RequestStates

LEMMA ReturnEffect ==
  ASSUME TypeOK, NEW r \in Requests, Return(r)
  PROVE  /\ req'[r].pc = "idle"
         /\ \A q \in Requests \ {r} : req'[q] = req[q]
BY DEF Return, TypeOK, Idle

LEMMA FinishEffect ==
  ASSUME TypeOK, NEW r \in Requests, Finish(r)
  PROVE  /\ req'[r].pc \in {"idle", "deleteSession"}
         /\ req'[r].pc = "deleteSession" => req'[r].op = req[r].op
         /\ \A q \in Requests \ {r} : req'[q] = req[q]
BY ReturnEffect, GotoEffect DEF Finish, Labels

LEMMA BeginEffect ==
  ASSUME TypeOK, NEW r \in Requests, NEW op, NEW label, NEW hot, NEW t,
         Begin(r, op, label, hot, t)
  PROVE  /\ req[r].pc = "idle"
         /\ req'[r].pc = label /\ req'[r].hot = hot /\ req'[r].op = op
         /\ \A q \in Requests \ {r} : req'[q] = req[q]
BY DEF Begin, TypeOK, At

\* A step of one request that touches neither the row, nor the ledger, nor
\* the seeds keeps what the other requests rely on.
LEMMA RequestsKept ==
  ASSUME AnchorInv, NEW r \in Requests,
         \A q \in Requests \ {r} : req'[q] = req[q],
         UNCHANGED <<row, starts, ledger>>,
         req'[r].pc # "startSession", RequestInv(r)'
  PROVE  \A q \in Requests : RequestInv(q)'
<1> SUFFICES ASSUME NEW q \in Requests \ {r} PROVE RequestInv(q)'
  OBVIOUS
<1>1. RequestInv(q)
  BY DEF AnchorInv
<1>2. req'[q] = req[q]
  OBVIOUS
<1>3. At(q, "startSession") => PendingStart(q)'
  <2> SUFFICES ASSUME PendingStart(q) PROVE PendingStart(q)'
    BY <1>1 DEF RequestInv
  <2> QED
    BY <1>2 DEF PendingStart, Unpaid, At
<1> QED
  BY <1>1, <1>2, <1>3 DEF RequestInv, At

LEMMA StoresKept ==
  ASSUME AnchorInv, UNCHANGED <<row, starts, ledger>>,
         cache' # NoHot => cache'.row.seed \in Seeds
  PROVE  LedgerInv' /\ RowInv'
BY DEF AnchorInv, LedgerInv, RowInv, CreditsTileTheAnchor, Unpaid, PaidOnce

LEMMA InitAnchor == Init => AnchorInv
<1> SUFFICES ASSUME Init PROVE AnchorInv
  OBVIOUS
<1>1. \A q \in Seeds, i \in Events : Unpaid(q, i)
  BY DEF Init, Unpaid
<1>2. \A r \in Requests : req[r].pc = "idle"
  BY DEF Init, Idle
<1>3. RowInv
  BY DEF Init, RowInv, CreditsTileTheAnchor
<1>4. \A r \in Requests : RequestInv(r)
  BY <1>2 DEF RequestInv, At, Holding
<1> QED
  BY <1>1, <1>3, <1>4 DEF AnchorInv, LedgerInv

LEMMA ArrivalAnchor ==
  ASSUME TypeOK, AnchorInv, NEW r \in Requests, Arrival(r)
  PROVE  AnchorInv'
<1> USE DEF store, history
<1>1. ASSUME NEW loc \in Locations, StartFishing(r, loc)
      PROVE  AnchorInv'
  <2> DEFINE hot == [row |-> [seed |-> starts + 1, loc |-> loc, startTime |-> now,
                              lastIndex |-> 0, lastTime |-> now],
                     base |-> BaselineOf(player)]
  <2>1. /\ req'[r].pc = "startSession" /\ req'[r].op = "start" /\ req'[r].hot = hot
        /\ \A q \in Requests \ {r} : req'[q] = req[q]
    <3>1. Begin(r, "start", "startSession", hot, 0)
      BY <1>1 DEF StartFishing
    <3> HIDE DEF hot
    <3> QED
      BY <3>1, BeginEffect
  <2>2. starts' = starts + 1 /\ starts' \in Seeds /\ UNCHANGED <<row, cache, ledger>>
    BY <1>1, BoundsAssumption DEF StartFishing, Begin, TypeOK, Seeds
  <2>3. LedgerInv' /\ RowInv'
    <3>1. LedgerInv'
      BY <2>2 DEF AnchorInv, LedgerInv, Unpaid, PaidOnce, TypeOK, Seeds
    <3>2. row # NoRow => row.seed \in 1 .. starts'
      BY <2>2 DEF AnchorInv, RowInv, TypeOK
    <3>3. CreditsTileTheAnchor' /\ (cache # NoHot => cache.row.seed \in Seeds)
      BY <2>2 DEF AnchorInv, RowInv, CreditsTileTheAnchor, Unpaid, PaidOnce
    <3> QED
      BY <2>2, <3>1, <3>2, <3>3 DEF RowInv
  <2>4. row.seed # starts + 1
    BY DEF AnchorInv, RowInv, NoRow, TypeOK
  <2>5. \A i \in Events : Unpaid(starts + 1, i)
    BY <2>2 DEF AnchorInv, LedgerInv, TypeOK
  <2>6. \A q \in Requests : At(q, "startSession") => PendingStart(q)
    BY DEF AnchorInv, RequestInv
  <2>7. ASSUME NEW q \in Requests, At(q, "startSession"), q # r
        PROVE  req[q].hot.row.seed # starts + 1
    BY <2>6, <2>7 DEF PendingStart, TypeOK
  <2>8. hot.row.seed = starts + 1 /\ hot.row.lastIndex = 0
    OBVIOUS
  <2>9. PendingStart(r)'
    <3> HIDE DEF hot
    <3> QED
      BY <2>1, <2>2, <2>4, <2>5, <2>7, <2>8 DEF PendingStart, Unpaid, At, TypeOK
  <2>10. ASSUME NEW q \in Requests, q # r
         PROVE  RequestInv(q)'
    <3>1. RequestInv(q) /\ req'[q] = req[q]
      BY <2>1, <2>10 DEF AnchorInv
    <3>2. At(q, "startSession") => PendingStart(q)'
      <4> SUFFICES ASSUME At(q, "startSession") PROVE PendingStart(q)'
        OBVIOUS
      <4>1. PendingStart(q) /\ req[q].hot.row.seed # starts + 1
        BY <2>6, <2>7, <2>10
      <4> HIDE DEF hot
      <4> QED
        BY <2>1, <2>2, <2>8, <3>1, <4>1 DEF PendingStart, Unpaid, At, TypeOK
    <3> QED
      BY <3>1, <3>2 DEF RequestInv, At
  <2>11. RequestInv(r)'
    BY <2>1, <2>9 DEF RequestInv, At, Holding
  <2> QED
    BY <2>3, <2>10, <2>11 DEF AnchorInv
<1>2. ASSUME NEW op, BeginResolve(r, op)
      PROVE  AnchorInv'
  <2> DEFINE began == IF op = "stop" THEN now ELSE 0
             label == IF cache = NoHot THEN "getSession" ELSE "resolve"
  <2>1. UNCHANGED <<row, starts, ledger, cache>>
    BY <1>2 DEF BeginResolve, Begin
  <2>2. /\ \A q \in Requests \ {r} : req'[q] = req[q]
        /\ req'[r].pc \in {"getSession", "resolve"}
        /\ req'[r].pc = "resolve" => req'[r].hot = cache /\ cache # NoHot
    <3>1. CASE Begin(r, op, label, cache, began)
      BY <3>1, BeginEffect
    <3>2. CASE Begin(r, op, "getSession", NoHot, began)
      BY <3>2, BeginEffect
    <3> QED
      BY <1>2, <3>1, <3>2 DEF BeginResolve
  <2>3. RequestInv(r)'
    BY <2>2 DEF RequestInv, At, Holding, AnchorInv, RowInv
  <2>4. LedgerInv' /\ RowInv'
    BY <2>1, StoresKept DEF AnchorInv, RowInv
  <2> QED
    BY <2>1, <2>2, <2>3, <2>4, RequestsKept DEF AnchorInv
<1>3. CASE LoginSteam(r)
  <2>1. UNCHANGED <<row, starts, ledger, cache>>
    BY <1>3 DEF LoginSteam, Begin
  <2>2. req'[r].pc = "checkSession" /\ \A q \in Requests \ {r} : req'[q] = req[q]
    BY <1>3, BeginEffect DEF LoginSteam
  <2>3. RequestInv(r)'
    BY <2>2 DEF RequestInv, At, Holding
  <2>4. LedgerInv' /\ RowInv'
    BY <2>1, StoresKept DEF AnchorInv, RowInv
  <2> QED
    BY <2>1, <2>2, <2>3, <2>4, RequestsKept DEF AnchorInv
<1> QED
  BY <1>1, <1>2, <1>3 DEF Arrival, PreviewFishing, ClaimFishing, StopFishing

\* SaveResolve pays the events from the anchor on, each of them once.
LEMMA SaveEffect ==
  ASSUME TypeOK, AnchorInv, NEW r \in Requests, SaveResolve(r)
  PROVE  /\ row.seed \in Seeds /\ req[r].hot.row.seed \in Seeds
         /\ row.lastIndex = req[r].hot.row.lastIndex
         /\ row'.seed = row.seed /\ row'.lastIndex = row.lastIndex + req[r].n
         /\ row'.lastIndex <= MaxEvents
         /\ \A p \in Seeds, s \in Seeds, i \in Events :
              ledger'[p][s][i] =
                IF /\ p = row.seed /\ s = req[r].hot.row.seed
                   /\ i \in row.lastIndex .. row'.lastIndex - 1
                THEN ledger[p][s][i] + 1 ELSE ledger[p][s][i]
<1>1. row.seed \in Seeds /\ row # NoRow
  <2>1. row # NoRow
    BY DEF SaveResolve, AnchorMatches
  <2>2. row.seed \in 1 .. starts
    BY <2>1 DEF AnchorInv, RowInv
  <2> QED
    BY <2>1, <2>2, BoundsAssumption DEF TypeOK, Seeds
<1>2. /\ req[r].hot.row.seed \in Seeds
      /\ req[r].hot.row.lastIndex + req[r].n <= MaxEvents
  BY DEF SaveResolve, AnchorInv, RequestInv, At, Holding
<1>3. row.lastIndex = req[r].hot.row.lastIndex
  BY DEF SaveResolve, AnchorMatches
<1>4. row'.seed = row.seed /\ row'.lastIndex = row.lastIndex + req[r].n
  <2>1. row' = Advance(row, After(req[r].hot.row, req[r].n))
    BY DEF SaveResolve
  <2>2. row \in Rows /\ req[r].hot.row \in Rows /\ req[r].n \in Nat
    BY RequestTypes DEF TypeOK
  <2> QED
    BY <1>3, <2>1, <2>2, AnchorFields
<1> DEFINE h == req[r].hot.row.seed
           new == [i \in Events |-> IF i \in req[r].hot.row.lastIndex .. req[r].hot.row.lastIndex + req[r].n - 1
                                   THEN ledger[row.seed][h][i] + 1 ELSE ledger[row.seed][h][i]]
<1>5. ledger' = [ledger EXCEPT ![row.seed] = [ledger[row.seed] EXCEPT ![h] = new]]
  BY DEF SaveResolve
<1>6. \A p \in Seeds, s \in Seeds :
        ledger'[p][s] = IF p = row.seed /\ s = h THEN new ELSE ledger[p][s]
  <2> HIDE DEF new, h
  <2> QED
    BY <1>5 DEF TypeOK
<1>7. \A i \in Events : new[i] = IF i \in row.lastIndex .. row'.lastIndex - 1
                                 THEN ledger[row.seed][h][i] + 1 ELSE ledger[row.seed][h][i]
  <2>1. req[r].hot.row.lastIndex .. req[r].hot.row.lastIndex + req[r].n - 1
          = row.lastIndex .. row'.lastIndex - 1
    <3>1. row'.lastIndex - 1 = req[r].hot.row.lastIndex + req[r].n - 1
      <4>1. row.lastIndex \in Nat /\ req[r].n \in Nat
        BY RequestTypes DEF TypeOK, Rows
      <4>2. row'.lastIndex = row.lastIndex + req[r].n
        BY <1>4
      <4> QED
        BY <1>3, <4>1, <4>2
    <3> QED
      BY <1>3, <3>1
  <2> HIDE DEF h
  <2> QED
    BY <2>1
<1>8. ASSUME NEW p \in Seeds, NEW s \in Seeds, NEW i \in Events
      PROVE  ledger'[p][s][i] = IF /\ p = row.seed /\ s = h
                                   /\ i \in row.lastIndex .. row'.lastIndex - 1
                                THEN ledger[p][s][i] + 1 ELSE ledger[p][s][i]
  <2> HIDE DEF new, h
  <2> QED
    BY <1>6, <1>7
<1> QED
  BY <1>1, <1>2, <1>3, <1>4, <1>8

LEMMA SaveLedger ==
  ASSUME TypeOK, AnchorInv, NEW r \in Requests, SaveResolve(r)
  PROVE  LedgerInv' /\ RowInv'
<1> DEFINE L == row.lastIndex
           M == row'.lastIndex
           h == req[r].hot.row.seed
<1>1. /\ row.seed \in Seeds /\ h \in Seeds /\ row'.seed = row.seed
      /\ L \in Nat /\ M \in Nat /\ L <= M
      /\ \A p \in Seeds, s \in Seeds, i \in Events :
           ledger'[p][s][i] = IF p = row.seed /\ s = h /\ i \in L .. M - 1
                              THEN ledger[p][s][i] + 1 ELSE ledger[p][s][i]
  BY SaveEffect, RequestTypes DEF TypeOK, Rows
<1>2. row # NoRow /\ row' # NoRow /\ row.seed \in 1 .. starts /\ starts' = starts /\ cache' = cache
  <2>1. row # NoRow /\ starts' = starts /\ cache' = cache
    BY DEF SaveResolve, AnchorMatches
  <2>2. row.seed \in 1 .. starts
    BY <2>1 DEF AnchorInv, RowInv
  <2>3. row' # NoRow
    BY <1>1, BoundsAssumption DEF NoRow, Seeds
  <2> QED
    BY <2>1, <2>2, <2>3
<1> HIDE DEF L, M, h
<1>3. \A i \in Events : IF i < L THEN PaidOnce(row.seed, i) ELSE Unpaid(row.seed, i)
  BY <1>2 DEF AnchorInv, RowInv, CreditsTileTheAnchor, L
<1>4. ASSUME NEW i \in Events
      PROVE  IF i < M THEN PaidOnce(row.seed, i)' ELSE Unpaid(row.seed, i)'
  <2>1. i \in Int
    BY DEF Events
  <2>2. CASE i < L
    <3>1. PICK s \in Seeds : /\ ledger[row.seed][s][i] = 1
                             /\ \A t \in Seeds \ {s} : ledger[row.seed][t][i] = 0
      BY <1>3, <2>2 DEF PaidOnce
    <3>2. \A t \in Seeds : ledger'[row.seed][t][i] = ledger[row.seed][t][i]
      BY <1>1, <2>1, <2>2
    <3> QED
      BY <1>1, <2>1, <2>2, <3>1, <3>2 DEF PaidOnce
  <2>3. CASE L <= i /\ i < M
    <3>1. \A t \in Seeds : ledger[row.seed][t][i] = 0
      BY <1>1, <1>3, <2>1, <2>3 DEF Unpaid
    <3>2. ledger'[row.seed][h][i] = 1 /\ \A t \in Seeds \ {h} : ledger'[row.seed][t][i] = 0
      BY <1>1, <2>1, <2>3, <3>1
    <3> QED
      BY <1>1, <2>3, <3>2 DEF PaidOnce
  <2>4. CASE M <= i
    <3>1. \A t \in Seeds : ledger[row.seed][t][i] = 0
      BY <1>1, <1>3, <2>1, <2>4 DEF Unpaid
    <3> QED
      BY <1>1, <2>1, <2>4, <3>1 DEF Unpaid
  <2> QED
    BY <1>1, <2>1, <2>2, <2>3, <2>4
<1>5. ASSUME NEW p \in Seeds, NEW i \in Events, p # row.seed
      PROVE  (Unpaid(p, i) => Unpaid(p, i)') /\ (PaidOnce(p, i) => PaidOnce(p, i)')
  BY <1>1, <1>5 DEF Unpaid, PaidOnce
<1>6. LedgerInv'
  <2>1. ASSUME NEW p \in Seeds, NEW i \in Events
        PROVE  (Unpaid(p, i) \/ PaidOnce(p, i))'
    <3>1. CASE p = row.seed
      BY <1>1, <1>4, <3>1 DEF PaidOnce, Unpaid
    <3>2. CASE p # row.seed
      BY <1>5, <3>2 DEF AnchorInv, LedgerInv
    <3> QED
      BY <3>1, <3>2
  <2>2. ASSUME NEW p \in Seeds, NEW i \in Events, p > starts
        PROVE  Unpaid(p, i)'
    BY <1>2, <1>5, <2>2 DEF AnchorInv, LedgerInv, TypeOK
  <2> QED
    BY <1>2, <2>1, <2>2 DEF LedgerInv
<1>7. RowInv'
  <2>1. CreditsTileTheAnchor'
    BY <1>1, <1>4 DEF CreditsTileTheAnchor, M
  <2> QED
    BY <1>1, <1>2, <2>1 DEF RowInv, AnchorInv
<1> QED
  BY <1>6, <1>7

LEMMA StepAnchor ==
  ASSUME TypeOK, AnchorInv, NEW r \in Requests, RequestStep(r)
  PROVE  AnchorInv'
<1> USE DEF store, history
\* The steps that leave the row and the ledger alone.
<1>1. ASSUME UNCHANGED <<row, starts, ledger>>,
             \A q \in Requests \ {r} : req'[q] = req[q],
             cache' # NoHot => cache'.row.seed \in Seeds,
             req'[r].pc # "startSession", RequestInv(r)'
      PROVE  AnchorInv'
  BY <1>1, RequestsKept, StoresKept DEF AnchorInv
<1>2. ASSUME req'[r].pc \notin Holding \cup {"startSession", "cacheStart"}
      PROVE  RequestInv(r)' /\ req'[r].pc # "startSession"
  BY <1>2 DEF RequestInv, At, Holding
<1>3. RequestInv(r) /\ (cache # NoHot => cache.row.seed \in Seeds)
  BY DEF AnchorInv, RowInv
<1>4. CASE StartSession(r)
  <2>1. PendingStart(r)
    BY <1>3, <1>4 DEF StartSession, RequestInv
  <2>2. /\ row' = req[r].hot.row /\ UNCHANGED <<cache, starts, ledger>>
        /\ req'[r].pc = "cacheStart" /\ req'[r].hot = req[r].hot /\ req'[r].op = req[r].op
        /\ \A q \in Requests \ {r} : req'[q] = req[q]
    BY <1>4, GotoEffect DEF StartSession, Labels
  <2>3. req[r].hot.row.seed \in 1 .. starts /\ req[r].hot.row.seed \in Seeds
    BY <2>1, BoundsAssumption DEF PendingStart, TypeOK, Seeds
  <2>4. LedgerInv'
    BY <2>2 DEF AnchorInv, LedgerInv, Unpaid, PaidOnce
  <2>5. RowInv'
    <3>1. row'.seed \in 1 .. starts' /\ (cache' # NoHot => cache'.row.seed \in Seeds)
      BY <1>3, <2>2, <2>3
    <3>2. ASSUME NEW i \in Events
          PROVE  Unpaid(row.seed, i)' /\ ~(i < row'.lastIndex)
      BY <2>1, <2>2 DEF PendingStart, Unpaid, Events
    <3>3. CreditsTileTheAnchor'
      BY <3>2 DEF CreditsTileTheAnchor
    <3> QED
      BY <3>1, <3>3 DEF RowInv
  <2>6. ASSUME NEW q \in Requests, q # r
        PROVE  RequestInv(q)'
    <3>1. RequestInv(q) /\ req'[q] = req[q]
      BY <2>2, <2>6 DEF AnchorInv
    <3>2. ASSUME At(q, "startSession")
          PROVE  PendingStart(q)'
      <4>1. PendingStart(q)
        BY <3>1, <3>2 DEF RequestInv
      <4>2. req[q].hot.row.seed # req[r].hot.row.seed
        BY <2>1, <2>6, <3>2 DEF PendingStart
      <4> QED
        BY <2>2, <3>1, <4>1, <4>2 DEF PendingStart, Unpaid, At
    <3> QED
      BY <3>1, <3>2 DEF RequestInv, At
  <2>7. RequestInv(r)'
    BY <2>1, <2>2, <2>3 DEF RequestInv, PendingStart, At, Holding
  <2> QED
    BY <2>4, <2>5, <2>6, <2>7 DEF AnchorInv
<1>5. CASE CacheStart(r)
  <2>1. req'[r].pc = "idle" /\ \A q \in Requests \ {r} : req'[q] = req[q]
    BY <1>5, ReturnEffect DEF CacheStart
  <2>2. cache'.row.seed \in Seeds
    BY <1>3, <1>5 DEF CacheStart, RequestInv
  <2> QED
    BY <1>1, <1>2, <1>5, <2>1, <2>2 DEF CacheStart, Holding
<1>6. CASE GetSession(r)
  <2>1. CASE row = NoRow
    <3>1. req'[r].pc = "idle" /\ \A q \in Requests \ {r} : req'[q] = req[q]
      BY <1>6, <2>1, ReturnEffect DEF GetSession
    <3> QED
      BY <1>1, <1>2, <1>3, <1>6, <3>1 DEF GetSession, Holding
  <2>2. CASE row # NoRow
    <3>1. req' = [req EXCEPT ![r] =
                    [[req[r] EXCEPT !.hot = [req[r].hot EXCEPT !.row = row]] EXCEPT !.pc = "getBaseline"]]
      BY <1>6, <2>2 DEF GetSession
    <3>2. /\ req'[r] = [[req[r] EXCEPT !.hot = [req[r].hot EXCEPT !.row = row]] EXCEPT !.pc = "getBaseline"]
          /\ \A q \in Requests \ {r} : req'[q] = req[q]
      BY <3>1 DEF TypeOK
    <3>3. req'[r].pc = "getBaseline" /\ req'[r].hot.row = row
      BY <3>2, RequestTypes DEF RequestStates, HotSessions
    <3>4. row.seed \in Seeds
      BY <2>2, BoundsAssumption DEF AnchorInv, RowInv, TypeOK, Seeds
    <3>5. RequestInv(r)'
      BY <3>3, <3>4 DEF RequestInv, At, Holding
    <3> QED
      BY <1>1, <1>3, <1>6, <3>2, <3>3, <3>5 DEF GetSession
  <2> QED
    BY <2>1, <2>2
<1>7. CASE GetPlayerBaseline(r)
  <2> DEFINE b == BaselineOf(player)
  <2>1. /\ req'[r] = [[req[r] EXCEPT !.hot = [req[r].hot EXCEPT !.base = b]] EXCEPT !.pc = "fill"]
        /\ \A q \in Requests \ {r} : req'[q] = req[q]
    BY <1>7 DEF GetPlayerBaseline, TypeOK
  <2>2. req'[r].pc = "fill" /\ req'[r].hot.row = req[r].hot.row
    <3> HIDE DEF b
    <3> QED
      BY <2>1, RequestTypes DEF RequestStates, HotSessions
  <2>3. RequestInv(r)'
    BY <1>3, <1>7, <2>2 DEF GetPlayerBaseline, RequestInv, At, Holding
  <2> QED
    BY <1>1, <1>3, <1>7, <2>1, <2>2, <2>3 DEF GetPlayerBaseline
<1>8. CASE FillCache(r)
  <2>1. /\ req'[r].pc = "resolve" /\ req'[r].hot = req[r].hot
        /\ \A q \in Requests \ {r} : req'[q] = req[q]
    BY <1>8, GotoEffect DEF FillCache, Labels
  <2>2. cache'.row.seed \in Seeds /\ RequestInv(r)'
    BY <1>3, <1>8, <2>1 DEF FillCache, RequestInv, At, Holding
  <2> QED
    BY <1>1, <1>8, <2>1, <2>2 DEF FillCache
<1>9. ASSUME NEW ff \in FastForwards, Resolve(r, ff)
      PROVE  AnchorInv'
  <2> DEFINE n == Resolved(req[r].hot.row, ff)
  <2>1. CASE req[r].op = "preview"
    <3>1. req'[r].pc = "idle" /\ \A q \in Requests \ {r} : req'[q] = req[q]
      BY <1>9, <2>1, ReturnEffect DEF Resolve
    <3> QED
      BY <1>1, <1>2, <1>3, <1>9, <3>1 DEF Resolve, Holding
  <2>2. CASE req[r].op # "preview"
    <3>1. /\ req'[r] = [[req[r] EXCEPT !.n = n] EXCEPT !.pc = "save"]
          /\ \A q \in Requests \ {r} : req'[q] = req[q]
      BY <1>9, <2>2 DEF Resolve, TypeOK
    <3>2. req'[r].pc = "save" /\ req'[r].hot = req[r].hot /\ req'[r].n = n
      <4> HIDE DEF n
      <4> QED
        BY <3>1, RequestTypes DEF RequestStates
    <3>3. req[r].hot.row.lastIndex + n <= MaxEvents
      BY <1>9 DEF Resolve
    <3>4. RequestInv(r)'
      <4> HIDE DEF n
      <4> QED
        BY <1>3, <1>9, <3>2, <3>3 DEF Resolve, RequestInv, At, Holding
    <3> QED
      BY <1>1, <1>3, <1>9, <3>1, <3>2, <3>4 DEF Resolve
  <2> QED
    BY <2>1, <2>2
<1>10. CASE SaveResolve(r)
  <2>1. /\ req'[r].pc = "cacheAfter" /\ req'[r].hot = req[r].hot
        /\ \A q \in Requests \ {r} : req'[q] = req[q]
    BY <1>10, GotoEffect DEF SaveResolve, Labels
  <2>2. starts' = starts
    BY <1>10 DEF SaveResolve
  <2>3. ASSUME NEW q \in Requests, q # r
        PROVE  RequestInv(q)'
    <3>1. RequestInv(q) /\ req'[q] = req[q]
      BY <2>1, <2>3 DEF AnchorInv
    <3>2. ASSUME At(q, "startSession")
          PROVE  PendingStart(q)'
      <4>1. PendingStart(q)
        BY <3>1, <3>2 DEF RequestInv
      <4>2. row'.seed = row.seed /\ req[q].hot.row.seed \in Seeds
        BY <1>10, <4>1, SaveEffect, BoundsAssumption DEF PendingStart, TypeOK, Seeds
      <4>3. ASSUME NEW i \in Events
            PROVE  \A s \in Seeds : ledger'[req[q].hot.row.seed][s][i] = 0
        BY <1>10, <4>1, <4>2, SaveEffect DEF PendingStart, Unpaid
      <4> QED
        BY <2>1, <2>2, <3>1, <4>1, <4>2, <4>3 DEF PendingStart, Unpaid, At
    <3> QED
      BY <3>1, <3>2 DEF RequestInv, At
  <2>4. RequestInv(r)'
    BY <1>3, <1>10, <2>1 DEF SaveResolve, RequestInv, At, Holding
  <2> QED
    BY <1>10, <2>3, <2>4, SaveLedger DEF AnchorInv
<1>11. CASE StaleClaim(r)
  <2>1. req'[r].pc = "cacheDel" /\ \A q \in Requests \ {r} : req'[q] = req[q]
    BY <1>11, GotoEffect DEF StaleClaim, Labels
  <2> QED
    BY <1>1, <1>2, <1>3, <1>11, <2>1 DEF StaleClaim, Holding
<1>12. CASE CacheAfter(r)
  <2>1. req'[r].pc \in {"idle", "deleteSession"} /\ \A q \in Requests \ {r} : req'[q] = req[q]
    BY <1>12, FinishEffect DEF CacheAfter
  <2>2. cache'.row.seed \in Seeds
    BY <1>3, <1>12, RequestTypes, AnchorFields DEF CacheAfter, RequestInv, Holding, At
  <2> QED
    BY <1>1, <1>2, <1>12, <2>1, <2>2 DEF CacheAfter, Holding
<1>13. CASE CacheDelStale(r)
  <2>1. req'[r].pc \in {"idle", "deleteSession"} /\ \A q \in Requests \ {r} : req'[q] = req[q]
    BY <1>13, FinishEffect DEF CacheDelStale
  <2> QED
    BY <1>1, <1>2, <1>13, <2>1 DEF CacheDelStale, Holding
<1>14. CASE DeleteSession(r)
  <2>1. req'[r].pc = "uncache" /\ \A q \in Requests \ {r} : req'[q] = req[q]
    BY <1>14, GotoEffect DEF DeleteSession, Labels
  <2>2. UNCHANGED <<starts, ledger, cache>> /\ row' = NoRow
    BY <1>14 DEF DeleteSession
  <2>3. LedgerInv' /\ RowInv'
    BY <2>2 DEF AnchorInv, LedgerInv, RowInv, CreditsTileTheAnchor, Unpaid, PaidOnce
  <2>4. ASSUME NEW q \in Requests, q # r
        PROVE  RequestInv(q)'
    <3>1. RequestInv(q) /\ req'[q] = req[q]
      BY <2>1, <2>4 DEF AnchorInv
    <3>2. ASSUME At(q, "startSession")
          PROVE  PendingStart(q)'
      <4>1. PendingStart(q)
        BY <3>1, <3>2 DEF RequestInv
      <4>2. req[q].hot.row.seed # row'.seed
        BY <2>2, <4>1 DEF PendingStart, NoRow, TypeOK
      <4> QED
        BY <2>1, <2>2, <3>1, <4>1, <4>2 DEF PendingStart, Unpaid, At
    <3> QED
      BY <3>1, <3>2 DEF RequestInv, At
  <2> QED
    BY <1>2, <2>1, <2>3, <2>4 DEF AnchorInv, Holding
<1>15. CASE CacheDelStop(r)
  <2>1. req'[r].pc = "touchLogout" /\ \A q \in Requests \ {r} : req'[q] = req[q]
    BY <1>15, GotoEffect DEF CacheDelStop, Labels
  <2> QED
    BY <1>1, <1>2, <1>15, <2>1 DEF CacheDelStop, Holding
<1>16. CASE TouchLogout(r)
  <2>1. req'[r].pc = "idle" /\ \A q \in Requests \ {r} : req'[q] = req[q]
    BY <1>16, ReturnEffect DEF TouchLogout
  <2> QED
    BY <1>1, <1>2, <1>3, <1>16, <2>1 DEF TouchLogout, Holding
<1>17. CASE CheckSession(r)
  <2>1. req'[r].pc \in {"idle", "readPlayer"} /\ \A q \in Requests \ {r} : req'[q] = req[q]
    BY <1>17, ReturnEffect, GotoEffect DEF CheckSession, Labels
  <2> QED
    BY <1>1, <1>2, <1>3, <1>17, <2>1 DEF CheckSession, Holding
<1>18. CASE ReadPlayer(r)
  <2> DEFINE reward == OfflineReward(now - player.logout)
             b == BaselineOf(player)
             new == [[[req[r] EXCEPT !.hot = [req[r].hot EXCEPT !.base = b]]
                        EXCEPT !.n = reward] EXCEPT !.pc = "applyReward"]
  <2>1. req'[r].pc \in {"idle", "applyReward"} /\ \A q \in Requests \ {r} : req'[q] = req[q]
    <3>1. CASE Return(r)
      BY <3>1, ReturnEffect
    <3>2. CASE req' = [req EXCEPT ![r] = new]
      <4>1. new.pc = "applyReward"
        <5> HIDE DEF reward, b
        <5> QED
          BY RequestTypes DEF RequestStates
      <4> HIDE DEF new
      <4> QED
        BY <3>2, <4>1 DEF TypeOK
    <3> QED
      BY <1>18, <3>1, <3>2 DEF ReadPlayer
  <2> QED
    BY <1>1, <1>2, <1>3, <1>18, <2>1 DEF ReadPlayer, Holding
<1>19. CASE ApplyOfflineReward(r)
  <2>1. req'[r].pc = "uncacheReward" /\ \A q \in Requests \ {r} : req'[q] = req[q]
    BY <1>19, GotoEffect DEF ApplyOfflineReward, Labels
  <2> QED
    BY <1>1, <1>2, <1>3, <1>19, <2>1 DEF ApplyOfflineReward, Holding
<1>20. CASE CacheDelReward(r)
  <2>1. req'[r].pc = "idle" /\ \A q \in Requests \ {r} : req'[q] = req[q]
    BY <1>20, ReturnEffect DEF CacheDelReward
  <2> QED
    BY <1>1, <1>2, <1>20, <2>1 DEF CacheDelReward, Holding
<1> QED
  BY <1>4, <1>5, <1>6, <1>7, <1>8, <1>9, <1>10, <1>11, <1>12, <1>13, <1>14, <1>15,
     <1>16, <1>17, <1>18, <1>19, <1>20 DEF RequestStep

LEMMA FailureAnchor ==
  ASSUME TypeOK, AnchorInv, NEW r \in Requests, GivesUp(r) \/ RedisFails(r)
  PROVE  AnchorInv'
<1> USE DEF store, history
<1>1. UNCHANGED <<row, cache, starts, ledger>>
  BY DEF GivesUp, RedisFails
<1>2. /\ req'[r].pc \in {"idle", "deleteSession", "touchLogout", "resolve"}
      /\ req'[r].pc = "resolve" => req[r].pc = "fill" /\ req'[r].hot = req[r].hot
      /\ \A q \in Requests \ {r} : req'[q] = req[q]
  BY ReturnEffect, FinishEffect, GotoEffect DEF GivesUp, RedisFails, Labels, At
<1>3. RequestInv(r)'
  BY <1>2 DEF RequestInv, At, Holding, AnchorInv
<1>4. LedgerInv' /\ RowInv'
  BY <1>1, StoresKept DEF AnchorInv, RowInv
<1> QED
  BY <1>1, <1>2, <1>3, <1>4, RequestsKept DEF AnchorInv

LEMMA NextAnchor ==
  ASSUME TypeOK, AnchorInv, Moves
  PROVE  AnchorInv'
<1>1. ASSUME UNCHANGED <<row, starts, ledger, req>>, cache' \in {cache, NoHot}
      PROVE  AnchorInv'
  <2>1. LedgerInv' /\ RowInv'
    BY <1>1, StoresKept DEF AnchorInv, RowInv
  <2>2. \A r \in Requests : RequestInv(r)'
    BY <1>1 DEF AnchorInv, RequestInv, PendingStart, Unpaid, At
  <2> QED
    BY <2>1, <2>2 DEF AnchorInv
<1>2. CASE Tick
  BY <1>1, <1>2 DEF Tick, store, history
<1>3. CASE CacheLost
  BY <1>1, <1>3 DEF CacheLost, history
<1>4. CASE Still
  BY <1>1, <1>4 DEF Still, store, history
<1> QED
  BY <1>2, <1>3, <1>4, ArrivalAnchor, StepAnchor, FailureAnchor DEF Moves

\* Every event paid on the row of a session lies below its anchor and is paid
\* there once: SaveResolve never pays an index twice on one row, whatever
\* requests race, fail or find a stale cache.
THEOREM CreditsTileCorrect == Spec => []CreditsTileTheAnchor
<1>1. Init => TypeOK /\ AnchorInv
  BY InitType, InitAnchor
<1>2. TypeOK /\ AnchorInv /\ [Next]_vars => (TypeOK /\ AnchorInv)'
  BY NextMoves, NextType, NextAnchor
<1>3. AnchorInv => CreditsTileTheAnchor
  BY DEF AnchorInv, RowInv
<1> QED
  BY <1>1, <1>2, <1>3, PTL DEF Spec

\* The anchor of a row never moves back: a save adds to it, and the row of a
\* new start has a seed of its own.
THEOREM AnchorNeverBackCorrect == Spec => AnchorNeverBack
<1> DEFINE Advances == row # NoRow /\ row'.seed = row.seed => row'.lastIndex >= row.lastIndex
<1>1. ASSUME TypeOK, AnchorInv, Next PROVE Advances
  <2>1. ASSUME NEW r \in Requests, StartSession(r) PROVE Advances
    <3>1. req[r].hot.row.seed # row.seed
      BY <1>1, <2>1 DEF StartSession, AnchorInv, RequestInv, PendingStart, At
    <3> QED
      BY <2>1, <3>1 DEF StartSession
  <2>2. ASSUME NEW r \in Requests, SaveResolve(r) PROVE Advances
    BY <1>1, <2>2, SaveEffect, RequestTypes DEF TypeOK, Rows
  <2>3. ASSUME NEW r \in Requests, DeleteSession(r) PROVE Advances
    <3>1. row # NoRow => row.seed # 0
      BY <1>1 DEF AnchorInv, RowInv, TypeOK
    <3> QED
      BY <2>3, <3>1 DEF DeleteSession, NoRow
  <2>4. CASE row' = row
    BY <1>1, <2>4 DEF TypeOK, Rows
  <2>5. row' = row \/ \E r \in Requests : StartSession(r) \/ SaveResolve(r) \/ DeleteSession(r)
    <3> USE DEF store, history
    <3>1. ASSUME NEW r \in Requests, Arrival(r) PROVE row' = row
      BY <3>1 DEF Arrival, StartFishing, PreviewFishing, ClaimFishing, StopFishing, LoginSteam,
                  BeginResolve, Begin
    <3>2. ASSUME NEW r \in Requests, RequestStep(r), ~StartSession(r), ~SaveResolve(r), ~DeleteSession(r)
          PROVE  row' = row
      BY <3>2 DEF RequestStep, CacheStart, GetSession, GetPlayerBaseline, FillCache, Resolve, StaleClaim,
                  CacheAfter, CacheDelStale, CacheDelStop, TouchLogout, CheckSession, ReadPlayer,
                  ApplyOfflineReward, CacheDelReward
    <3>3. ASSUME NEW r \in Requests, Abort(r) \/ RedisFails(r) PROVE row' = row
      BY <3>3 DEF Abort, GivesUp, RedisFails
    <3>4. Tick \/ CacheLost => row' = row
      BY DEF Tick, CacheLost
    <3> QED
      BY <1>1, <3>1, <3>2, <3>3, <3>4 DEF Next
  <2> QED
    BY <2>1, <2>2, <2>3, <2>4, <2>5
<1>2. TypeOK /\ AnchorInv /\ [Next]_vars => [Advances]_vars
  BY <1>1
<1>3. Init => TypeOK /\ AnchorInv
  BY InitType, InitAnchor
<1>4. TypeOK /\ AnchorInv /\ [Next]_vars => (TypeOK /\ AnchorInv)'
  BY NextMoves, NextType, NextAnchor
<1> QED
  BY <1>2, <1>3, <1>4, PTL DEF Spec, AnchorNeverBack

-----------------------------------------------------------------------------
(* OneSession: without an overlap with a start, every copy of the session  *)
(* is a copy of the current one.                                           *)

LEMMA InitOneSession == Init => OneSession
<1> SUFFICES ASSUME Init PROVE OneSession
  OBVIOUS
<1>1. \A r \in Requests : req[r].pc = "idle"
  BY DEF Init, Idle
<1>2. \A p \in Seeds, s \in Seeds, i \in Events : ledger[p][s][i] = 0
  BY DEF Init
<1>3. row = NoRow
  BY DEF Init
<1> QED
  BY <1>1, <1>2, <1>3 DEF OneSession, OwnCredits, Alone, Active, At, Holding

\* A start is the only request that runs at its two labels.
LEMMA StartAlone ==
  ASSUME TypeOK, AnchorInv, OneSession, NEW r \in Requests, Active(r), NEW q \in Requests, q # r
  PROVE  ~At(q, "cacheStart") /\ ~At(q, "startSession")
<1>1. At(q, "cacheStart") \/ At(q, "startSession") => Active(q) /\ req[q].op = "start"
  BY DEF AnchorInv, RequestInv, PendingStart, At, Active
<1>2. Active(q) /\ req[q].op = "start" => ~Active(r)
  BY DEF OneSession, Alone
<1> QED
  BY <1>1, <1>2

LEMMA OneSessionKept ==
  ASSUME TypeOK, AnchorInv, OneSession, NEW r \in Requests, Active(r), ~At(r, "cacheStart"),
         UNCHANGED <<row, ledger>>,
         \A q \in Requests \ {r} : req'[q] = req[q],
         req'[r].pc # "idle" => req'[r].op = req[r].op,
         req'[r].pc # "cacheStart",
         row # NoRow /\ req'[r].pc \in Holding => req'[r].hot.row.seed = row.seed,
         row # NoRow /\ cache' # NoHot /\ cache' # cache => cache'.row.seed = row.seed
  PROVE  OneSession'
<1>1. \A q \in Requests : ~At(q, "cacheStart") /\ ~At(q, "cacheStart")'
  BY StartAlone DEF At
<1>2. Alone'
  BY DEF OneSession, Alone, Active
<1>3. ASSUME NEW q \in Requests
      PROVE  row' # NoRow /\ req'[q].pc \in Holding => req'[q].hot.row.seed = row'.seed
  BY DEF OneSession
<1>4. row # NoRow /\ cache # NoHot => cache.row.seed = row.seed
  BY <1>1 DEF OneSession
<1> QED
  BY <1>1, <1>2, <1>3, <1>4 DEF OneSession, OwnCredits

LEMMA ArrivalOneSession ==
  ASSUME TypeOK, AnchorInv, OneSession, NEW r \in Requests, Arrival(r), ~unguarded'
  PROVE  OneSession'
<1> USE DEF store, history
<1>1. UNCHANGED <<row, cache, ledger>>
  BY DEF Arrival, StartFishing, PreviewFishing, ClaimFishing, StopFishing, LoginSteam,
         BeginResolve, Begin
<1>2. PICK op, label, hot, t :
        /\ Begin(r, op, label, hot, t)
        /\ \/ op = "start" /\ label = "startSession"
           \/ label = "resolve" /\ hot = cache /\ cache # NoHot
           \/ label \in {"getSession", "checkSession"}
  BY DEF Arrival, StartFishing, PreviewFishing, ClaimFishing, StopFishing, LoginSteam, BeginResolve
<1>3. /\ req[r].pc = "idle"
      /\ req'[r].pc = label /\ req'[r].hot = hot /\ req'[r].op = op
      /\ \A q \in Requests \ {r} : req'[q] = req[q]
  BY <1>2, BeginEffect
<1>4. ~Overlap(r, op)
  BY <1>2 DEF Begin
<1>5. \A q \in Requests \ {r} : Active(q) => op # "start" /\ req[q].op # "start"
  BY <1>4 DEF Overlap
<1>6. Alone'
  BY <1>3, <1>5 DEF Alone, Active
<1>7. \A q \in Requests : ~At(q, "cacheStart") /\ ~At(q, "cacheStart")'
  <2>1. \A q \in Requests : At(q, "cacheStart") => Active(q) /\ req[q].op = "start"
    BY DEF AnchorInv, RequestInv, At, Active
  <2> QED
    BY <1>2, <1>3, <1>5, <2>1 DEF At
<1>8. row # NoRow /\ cache # NoHot => cache.row.seed = row.seed
  BY <1>7 DEF OneSession
<1>9. ASSUME NEW q \in Requests
      PROVE  row' # NoRow /\ req'[q].pc \in Holding => req'[q].hot.row.seed = row'.seed
  <2>1. CASE q = r
    BY <1>1, <1>2, <1>3, <1>8, <2>1 DEF Holding
  <2>2. CASE q # r
    BY <1>1, <1>3, <2>2 DEF OneSession
  <2> QED
    BY <2>1, <2>2
<1> QED
  BY <1>1, <1>6, <1>7, <1>8, <1>9 DEF OneSession, OwnCredits

LEMMA StepOneSession ==
  ASSUME TypeOK, AnchorInv, OneSession, NEW r \in Requests, RequestStep(r)
  PROVE  OneSession'
<1> USE DEF store, history
<1>1. RequestInv(r)
  BY DEF AnchorInv
<1>2. row # NoRow /\ req[r].pc \in Holding => req[r].hot.row.seed = row.seed
  BY DEF OneSession
\* The steps that keep the row and the ledger: what they do to the request
\* and to the cache.
<1>3. ASSUME Active(r), ~At(r, "cacheStart"), UNCHANGED <<row, ledger>>,
             \A q \in Requests \ {r} : req'[q] = req[q],
             req'[r].pc # "idle" => req'[r].op = req[r].op,
             req'[r].pc # "cacheStart",
             row # NoRow /\ req'[r].pc \in Holding => req'[r].hot.row.seed = row.seed,
             row # NoRow /\ cache' # NoHot /\ cache' # cache => cache'.row.seed = row.seed
      PROVE  OneSession'
  BY <1>3, OneSessionKept
<1>4. CASE StartSession(r)
  <2>1. PendingStart(r) /\ Active(r)
    BY <1>1, <1>4 DEF StartSession, RequestInv, At, Active
  <2>2. /\ row' = req[r].hot.row /\ UNCHANGED <<cache, ledger>>
        /\ req'[r].pc = "cacheStart" /\ req'[r].hot = req[r].hot
        /\ \A q \in Requests \ {r} : req'[q] = req[q]
    BY <1>4, GotoEffect DEF StartSession, Labels
  <2>3. \A q \in Requests \ {r} : req[q].pc = "idle"
    BY <2>1 DEF OneSession, Alone, PendingStart, Active
  <2>4. Alone'
    BY <2>2, <2>3 DEF Alone, Active
  <2>5. ASSUME NEW q \in Requests
        PROVE  /\ At(q, "cacheStart")' => row' = req'[q].hot.row
               /\ ~(req'[q].pc \in Holding)
    BY <2>2, <2>3 DEF At, Holding
  <2> QED
    BY <2>2, <2>4, <2>5 DEF OneSession, OwnCredits, At
<1>5. CASE CacheStart(r)
  <2>1. Active(r) /\ req[r].op = "start" /\ row = req[r].hot.row
    BY <1>1, <1>5 DEF CacheStart, RequestInv, At, Active, OneSession
  <2>2. req'[r].pc = "idle" /\ \A q \in Requests \ {r} : req'[q] = req[q]
    BY <1>5, ReturnEffect DEF CacheStart
  <2>3. \A q \in Requests : req'[q].pc = "idle"
    BY <2>1, <2>2 DEF OneSession, Alone, Active
  <2>4. UNCHANGED <<row, ledger>> /\ cache'.row.seed = row'.seed
    BY <1>5, <2>1 DEF CacheStart
  <2> QED
    BY <2>3, <2>4 DEF OneSession, OwnCredits, Alone, Active, At, Holding
<1>6. CASE GetSession(r)
  <2>1. CASE row = NoRow
    <3>1. req'[r].pc = "idle" /\ \A q \in Requests \ {r} : req'[q] = req[q]
      BY <1>6, <2>1, ReturnEffect DEF GetSession
    <3> QED
      BY <1>3, <1>6, <3>1 DEF GetSession, At, Active, Holding
  <2>2. CASE row # NoRow
    <3>1. /\ req'[r] = [[req[r] EXCEPT !.hot = [req[r].hot EXCEPT !.row = row]] EXCEPT !.pc = "getBaseline"]
          /\ \A q \in Requests \ {r} : req'[q] = req[q]
      BY <1>6, <2>2 DEF GetSession, TypeOK
    <3>2. req'[r].pc = "getBaseline" /\ req'[r].hot.row = row /\ req'[r].op = req[r].op
      BY <3>1, RequestTypes DEF RequestStates, HotSessions
    <3> QED
      BY <1>3, <1>6, <3>1, <3>2 DEF GetSession, At, Active
  <2> QED
    BY <2>1, <2>2
<1>7. CASE GetPlayerBaseline(r)
  <2> DEFINE b == BaselineOf(player)
  <2>1. /\ req'[r] = [[req[r] EXCEPT !.hot = [req[r].hot EXCEPT !.base = b]] EXCEPT !.pc = "fill"]
        /\ \A q \in Requests \ {r} : req'[q] = req[q]
    BY <1>7 DEF GetPlayerBaseline, TypeOK
  <2>2. req'[r].pc = "fill" /\ req'[r].hot.row = req[r].hot.row /\ req'[r].op = req[r].op
    <3> HIDE DEF b
    <3> QED
      BY <2>1, RequestTypes DEF RequestStates, HotSessions
  <2> QED
    BY <1>2, <1>3, <1>7, <2>1, <2>2 DEF GetPlayerBaseline, At, Active, Holding
<1>8. CASE FillCache(r)
  <2>1. /\ req'[r].pc = "resolve" /\ req'[r].hot = req[r].hot /\ req'[r].op = req[r].op
        /\ \A q \in Requests \ {r} : req'[q] = req[q]
    BY <1>8, GotoEffect DEF FillCache, Labels
  <2> QED
    BY <1>2, <1>3, <1>8, <2>1 DEF FillCache, At, Active, Holding
<1>9. ASSUME NEW ff \in FastForwards, Resolve(r, ff)
      PROVE  OneSession'
  <2> DEFINE n == Resolved(req[r].hot.row, ff)
  <2>1. CASE req[r].op = "preview"
    <3>1. req'[r].pc = "idle" /\ \A q \in Requests \ {r} : req'[q] = req[q]
      BY <1>9, <2>1, ReturnEffect DEF Resolve
    <3> QED
      BY <1>3, <1>9, <3>1 DEF Resolve, At, Active, Holding
  <2>2. CASE req[r].op # "preview"
    <3>1. /\ req'[r] = [[req[r] EXCEPT !.n = n] EXCEPT !.pc = "save"]
          /\ \A q \in Requests \ {r} : req'[q] = req[q]
      BY <1>9, <2>2 DEF Resolve, TypeOK
    <3>2. req'[r].pc = "save" /\ req'[r].hot = req[r].hot /\ req'[r].op = req[r].op
      <4> HIDE DEF n
      <4> QED
        BY <3>1, RequestTypes DEF RequestStates
    <3> QED
      BY <1>2, <1>3, <1>9, <3>1, <3>2 DEF Resolve, At, Active, Holding
  <2> QED
    BY <2>1, <2>2
<1>10. CASE SaveResolve(r)
  <2>1. /\ req'[r].pc = "cacheAfter" /\ req'[r].hot = req[r].hot /\ req'[r].op = req[r].op
        /\ \A q \in Requests \ {r} : req'[q] = req[q]
    BY <1>10, GotoEffect DEF SaveResolve, Labels
  <2>2. row # NoRow /\ row'.seed = row.seed /\ cache' = cache
    BY <1>10, SaveEffect DEF SaveResolve, AnchorMatches
  <2>3. req[r].hot.row.seed = row.seed /\ Active(r) /\ ~At(r, "cacheStart")
    BY <1>2, <1>10, <2>2 DEF SaveResolve, At, Holding, Active
  <2>4. \A q \in Requests : ~At(q, "cacheStart") /\ ~At(q, "cacheStart")'
    BY <2>1, <2>3, StartAlone DEF At
  <2>5. Alone'
    BY <2>1, <2>3 DEF OneSession, Alone, Active
  <2>6. ASSUME NEW p \in Seeds, NEW s \in Seeds, NEW i \in Events, p # s
        PROVE  ~(ledger'[p][s][i] > 0)
    BY <1>10, <2>3, <2>6, SaveEffect DEF OneSession, OwnCredits
  <2>7. ASSUME NEW q \in Requests
        PROVE  row' # NoRow /\ req'[q].pc \in Holding => req'[q].hot.row.seed = row'.seed
    BY <2>1, <2>2, <2>3 DEF OneSession
  <2> QED
    BY <2>2, <2>4, <2>5, <2>6, <2>7 DEF OneSession, OwnCredits
<1>11. CASE StaleClaim(r)
  <2>1. /\ req'[r].pc = "cacheDel" /\ req'[r].op = req[r].op
        /\ \A q \in Requests \ {r} : req'[q] = req[q]
    BY <1>11, GotoEffect DEF StaleClaim, Labels
  <2> QED
    BY <1>3, <1>11, <2>1 DEF StaleClaim, At, Active, Holding
<1>12. CASE CacheAfter(r)
  <2>1. /\ req'[r].pc \in {"idle", "deleteSession"}
        /\ req'[r].pc = "deleteSession" => req'[r].op = req[r].op
        /\ \A q \in Requests \ {r} : req'[q] = req[q]
    BY <1>12, FinishEffect DEF CacheAfter
  <2>2. cache'.row.seed = req[r].hot.row.seed
    BY <1>12, RequestTypes, AnchorFields DEF CacheAfter
  <2> QED
    BY <1>2, <1>3, <1>12, <2>1, <2>2 DEF CacheAfter, At, Active, Holding
<1>13. CASE CacheDelStale(r)
  <2>1. /\ req'[r].pc \in {"idle", "deleteSession"}
        /\ req'[r].pc = "deleteSession" => req'[r].op = req[r].op
        /\ \A q \in Requests \ {r} : req'[q] = req[q]
    BY <1>13, FinishEffect DEF CacheDelStale
  <2> QED
    BY <1>3, <1>13, <2>1 DEF CacheDelStale, At, Active, Holding
<1>14. CASE DeleteSession(r)
  <2>1. /\ req'[r].pc = "uncache" /\ req'[r].op = req[r].op
        /\ \A q \in Requests \ {r} : req'[q] = req[q]
    BY <1>14, GotoEffect DEF DeleteSession, Labels
  <2>2. Active(r) /\ ~At(r, "cacheStart") /\ row' = NoRow /\ ledger' = ledger
    BY <1>14 DEF DeleteSession, At, Active
  <2>3. \A q \in Requests : ~At(q, "cacheStart")'
    BY <2>1, <2>2, StartAlone DEF At
  <2>4. Alone'
    BY <2>1, <2>2 DEF OneSession, Alone, Active
  <2> QED
    BY <2>2, <2>3, <2>4 DEF OneSession, OwnCredits
<1>15. CASE CacheDelStop(r)
  <2>1. /\ req'[r].pc = "touchLogout" /\ req'[r].op = req[r].op
        /\ \A q \in Requests \ {r} : req'[q] = req[q]
    BY <1>15, GotoEffect DEF CacheDelStop, Labels
  <2> QED
    BY <1>3, <1>15, <2>1 DEF CacheDelStop, At, Active, Holding
<1>16. CASE TouchLogout(r)
  <2>1. req'[r].pc = "idle" /\ \A q \in Requests \ {r} : req'[q] = req[q]
    BY <1>16, ReturnEffect DEF TouchLogout
  <2> QED
    BY <1>3, <1>16, <2>1 DEF TouchLogout, At, Active, Holding
<1>17. CASE CheckSession(r)
  <2>1. /\ req'[r].pc \in {"idle", "readPlayer"}
        /\ req'[r].pc = "readPlayer" => req'[r].op = req[r].op
        /\ \A q \in Requests \ {r} : req'[q] = req[q]
    BY <1>17, ReturnEffect, GotoEffect DEF CheckSession, Labels
  <2> QED
    BY <1>3, <1>17, <2>1 DEF CheckSession, At, Active, Holding
<1>18. CASE ReadPlayer(r)
  <2> DEFINE reward == OfflineReward(now - player.logout)
             b == BaselineOf(player)
             new == [[[req[r] EXCEPT !.hot = [req[r].hot EXCEPT !.base = b]]
                        EXCEPT !.n = reward] EXCEPT !.pc = "applyReward"]
  <2>1. /\ req'[r].pc \in {"idle", "applyReward"}
        /\ req'[r].pc = "applyReward" => req'[r].op = req[r].op
        /\ \A q \in Requests \ {r} : req'[q] = req[q]
    <3>1. CASE Return(r)
      BY <3>1, ReturnEffect
    <3>2. CASE req' = [req EXCEPT ![r] = new]
      <4>1. new.pc = "applyReward" /\ new.op = req[r].op
        <5> HIDE DEF reward, b
        <5> QED
          BY RequestTypes DEF RequestStates
      <4> HIDE DEF new
      <4> QED
        BY <3>2, <4>1 DEF TypeOK
    <3> QED
      BY <1>18, <3>1, <3>2 DEF ReadPlayer
  <2> QED
    BY <1>3, <1>18, <2>1 DEF ReadPlayer, At, Active, Holding
<1>19. CASE ApplyOfflineReward(r)
  <2>1. /\ req'[r].pc = "uncacheReward" /\ req'[r].op = req[r].op
        /\ \A q \in Requests \ {r} : req'[q] = req[q]
    BY <1>19, GotoEffect DEF ApplyOfflineReward, Labels
  <2> QED
    BY <1>3, <1>19, <2>1 DEF ApplyOfflineReward, At, Active, Holding
<1>20. CASE CacheDelReward(r)
  <2>1. req'[r].pc = "idle" /\ \A q \in Requests \ {r} : req'[q] = req[q]
    BY <1>20, ReturnEffect DEF CacheDelReward
  <2> QED
    BY <1>3, <1>20, <2>1 DEF CacheDelReward, At, Active, Holding
<1> QED
  BY <1>4, <1>5, <1>6, <1>7, <1>8, <1>9, <1>10, <1>11, <1>12, <1>13, <1>14, <1>15,
     <1>16, <1>17, <1>18, <1>19, <1>20 DEF RequestStep

LEMMA FailureOneSession ==
  ASSUME TypeOK, AnchorInv, OneSession, NEW r \in Requests, GivesUp(r) \/ RedisFails(r), ~unguarded'
  PROVE  OneSession'
<1> USE DEF store, history
<1>1. ~At(r, "cacheStart") /\ Active(r)
  BY DEF GivesUp, RedisFails, At, Active
<1>2. UNCHANGED <<row, cache, ledger>>
  BY DEF GivesUp, RedisFails
<1>3. /\ req'[r].pc \in {"idle", "deleteSession", "touchLogout", "resolve"}
      /\ req'[r].pc # "idle" => req'[r].op = req[r].op
      /\ req'[r].pc = "resolve" => req[r].pc = "fill" /\ req'[r].hot = req[r].hot
      /\ \A q \in Requests \ {r} : req'[q] = req[q]
  BY ReturnEffect, FinishEffect, GotoEffect DEF GivesUp, RedisFails, Labels, At
<1>4. row # NoRow /\ req'[r].pc \in Holding => req'[r].hot.row.seed = row.seed
  BY <1>3 DEF OneSession, Holding
<1> QED
  BY <1>1, <1>2, <1>3, <1>4, OneSessionKept

LEMMA NextOneSession ==
  ASSUME TypeOK, AnchorInv, ~unguarded => OneSession, Moves
  PROVE  ~unguarded' => OneSession'
<1> SUFFICES ASSUME ~unguarded' PROVE OneSession'
  OBVIOUS
<1>1. ~unguarded
  BY DEF Moves, Still, Tick, CacheLost, GivesUp, RedisFails, Arrival, StartFishing, PreviewFishing,
         ClaimFishing, StopFishing, LoginSteam, BeginResolve, Begin, RequestStep, StartSession, CacheStart,
         GetSession, GetPlayerBaseline, FillCache, Resolve, SaveResolve, StaleClaim, CacheAfter,
         CacheDelStale, DeleteSession, CacheDelStop, TouchLogout, CheckSession, ReadPlayer,
         ApplyOfflineReward, CacheDelReward
<1>2. ASSUME UNCHANGED <<row, ledger, req>>, cache' \in {cache, NoHot}
      PROVE  OneSession'
  BY <1>1, <1>2 DEF OneSession, OwnCredits, Alone, Active, At
<1>3. CASE Tick
  BY <1>2, <1>3 DEF Tick, store, history
<1>4. CASE CacheLost
  BY <1>2, <1>4 DEF CacheLost, history
<1>5. CASE Still
  BY <1>2, <1>5 DEF Still, store, history
<1> QED
  BY <1>1, <1>3, <1>4, <1>5, ArrivalOneSession, StepOneSession, FailureOneSession DEF Moves

\* SessionInv is inductive, and no event of a session is credited twice
\* unless a start or a second login overlapped another request.
THEOREM SessionInvCorrect == Spec => []SessionInv
<1>1. Init => TypeOK /\ SessionInv
  BY InitType, InitAnchor, InitOneSession DEF SessionInv
<1>2. TypeOK /\ SessionInv /\ [Next]_vars => (TypeOK /\ SessionInv)'
  BY NextMoves, NextType, NextAnchor, NextOneSession DEF SessionInv
<1> QED
  BY <1>1, <1>2, PTL DEF Spec

\* The optimistic guard of SaveResolve does what its comment promises of two
\* parallel claims: GuardedNoDoubleCredit, for every number of requests.
THEOREM NoDoubleCreditCorrect == Spec => []GuardedNoDoubleCredit
<1>1. TypeOK /\ SessionInv => GuardedNoDoubleCredit
  <2> SUFFICES ASSUME TypeOK, SessionInv, ~unguarded,
                      NEW s \in Seeds, NEW i \in Events, NEW p \in Seeds, NEW q \in Seeds
               PROVE  /\ ledger[p][s][i] <= 1
                      /\ ledger[p][s][i] > 0 /\ ledger[q][s][i] > 0 => p = q
    BY DEF GuardedNoDoubleCredit, NoDoubleCredit
  <2>1. ledger[p][s][i] <= 1
    BY DEF SessionInv, AnchorInv, LedgerInv, Unpaid, PaidOnce
  <2>2. (ledger[p][s][i] > 0 => p = s) /\ (ledger[q][s][i] > 0 => q = s)
    BY DEF SessionInv, OneSession, OwnCredits
  <2> QED
    BY <2>1, <2>2
<1> QED
  BY <1>1, TypeCorrect, SessionInvCorrect, PTL
=============================================================================
