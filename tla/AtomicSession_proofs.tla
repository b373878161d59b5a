------------------------ MODULE AtomicSession_proofs ------------------------
(***************************************************************************)
(* Proofs that a cached session never leads its row, and that players and  *)
(* sessions change as AtomicSession says until requests overlap in a way   *)
(* the code does not detect.                                               *)
(***************************************************************************)
EXTENDS FishingSession_proofs

-----------------------------------------------------------------------------
(* What the steps that write several fields do to the local state of r.    *)

Copied == Holding \union {"cacheStart"}

\* The request goes on with what it holds, or ends.
Carries(r) ==
  /\ \A q \in Requests \ {r} : req'[q] = req[q]
  /\ \/ req'[r].pc = "idle" /\ req'[r].op = "none"
     \/ req'[r].hot = req[r].hot /\ req'[r].n = req[r].n /\ req'[r].op = req[r].op

LEMMA GotoCarries ==
  ASSUME TypeOK, NEW r \in Requests, NEW label \in Labels, Goto(r, label)
  PROVE  Carries(r) /\ req'[r].pc = label
BY GotoEffect DEF Carries

LEMMA ReturnCarries ==
  ASSUME TypeOK, NEW r \in Requests, Return(r)
  PROVE  Carries(r) /\ req'[r].pc = "idle" /\ req'[r].op = "none"
<1>1. req'[r] = Idle
  BY DEF Return, TypeOK
<1> QED
  BY <1>1, ReturnEffect DEF Carries, Idle

LEMMA FinishCarries ==
  ASSUME TypeOK, NEW r \in Requests, Finish(r)
  PROVE  Carries(r) /\ req'[r].pc \in {"idle", "deleteSession"}
BY ReturnCarries, GotoCarries DEF Finish, Labels

LEMMA GetSessionEffect ==
  ASSUME TypeOK, NEW r \in Requests, GetSession(r), row # NoRow
  PROVE  /\ req'[r].pc = "getBaseline" /\ req'[r].op = req[r].op
         /\ req'[r].hot.row = row /\ req'[r].hot.base = req[r].hot.base
         /\ \A q \in Requests \ {r} : req'[q] = req[q]
<1>1. /\ req'[r] = [[req[r] EXCEPT !.hot = [req[r].hot EXCEPT !.row = row]] EXCEPT !.pc = "getBaseline"]
      /\ \A q \in Requests \ {r} : req'[q] = req[q]
  BY DEF GetSession, TypeOK
<1> QED
  BY <1>1, RequestTypes DEF RequestStates, HotSessions

LEMMA GetPlayerBaselineEffect ==
  ASSUME TypeOK, NEW r \in Requests, GetPlayerBaseline(r)
  PROVE  /\ req'[r].pc = "fill" /\ req'[r].op = req[r].op
         /\ req'[r].hot.row = req[r].hot.row /\ req'[r].hot.base = BaselineOf(player)
         /\ \A q \in Requests \ {r} : req'[q] = req[q]
<1> DEFINE b == BaselineOf(player)
<1>1. /\ req'[r] = [[req[r] EXCEPT !.hot = [req[r].hot EXCEPT !.base = b]] EXCEPT !.pc = "fill"]
      /\ \A q \in Requests \ {r} : req'[q] = req[q]
  BY DEF GetPlayerBaseline, TypeOK
<1> HIDE DEF b
<1>2. /\ req'[r].pc = "fill" /\ req'[r].op = req[r].op
      /\ req'[r].hot.row = req[r].hot.row /\ req'[r].hot.base = b
  BY <1>1, RequestTypes DEF RequestStates, HotSessions
<1> QED
  BY <1>1, <1>2 DEF b

\* A preview ends; the others go on to save what they resolved.
LEMMA ResolveEffect ==
  ASSUME TypeOK, NEW r \in Requests, NEW ff \in FastForwards, Resolve(r, ff)
  PROVE  /\ \A q \in Requests \ {r} : req'[q] = req[q]
         /\ \/ req'[r].pc = "idle" /\ req'[r].op = "none"
            \/ /\ req'[r].pc = "save" /\ req'[r].op = req[r].op /\ req'[r].hot = req[r].hot
               /\ req'[r].n = Resolved(req[r].hot.row, ff)
<1> DEFINE n == Resolved(req[r].hot.row, ff)
<1>1. CASE req[r].op = "preview"
  BY <1>1, ReturnCarries DEF Resolve, Carries
<1>2. CASE req[r].op # "preview"
  <2>1. /\ req'[r] = [[req[r] EXCEPT !.n = n] EXCEPT !.pc = "save"]
        /\ \A q \in Requests \ {r} : req'[q] = req[q]
    BY <1>2 DEF Resolve, TypeOK
  <2> HIDE DEF n
  <2>2. req'[r].pc = "save" /\ req'[r].hot = req[r].hot /\ req'[r].op = req[r].op /\ req'[r].n = n
    BY <2>1, RequestTypes DEF RequestStates
  <2> QED
    BY <2>1, <2>2 DEF n
<1> QED
  BY <1>1, <1>2

\* A player with nothing to be rewarded for ends the login.
LEMMA ReadPlayerEffect ==
  ASSUME TypeOK, NEW r \in Requests, ReadPlayer(r)
  PROVE  /\ \A q \in Requests \ {r} : req'[q] = req[q]
         /\ \/ req'[r].pc = "idle" /\ req'[r].op = "none"
            \/ /\ req'[r].pc = "applyReward" /\ req'[r].op = req[r].op
               /\ req'[r].hot.row = req[r].hot.row /\ req'[r].hot.base = BaselineOf(player)
               /\ req'[r].n \in 1 .. OfflineCap /\ player.logout # NoLogout
<1> DEFINE reward == OfflineReward(now - player.logout)
           b == BaselineOf(player)
<1>1. CASE player.logout = NoLogout \/ reward = 0
  BY <1>1, ReturnCarries DEF ReadPlayer, Carries
<1>2. CASE ~(player.logout = NoLogout \/ reward = 0)
  <2>1. /\ req'[r] = [[[req[r] EXCEPT !.hot = [req[r].hot EXCEPT !.base = b]]
                         EXCEPT !.n = reward] EXCEPT !.pc = "applyReward"]
        /\ \A q \in Requests \ {r} : req'[q] = req[q]
    BY <1>2 DEF ReadPlayer, TypeOK
  <2>2. reward \in 1 .. OfflineCap
    BY <1>2, BoundsAssumption DEF OfflineReward, TypeOK, Players
  <2> HIDE DEF reward, b
  <2>3. /\ req'[r].pc = "applyReward" /\ req'[r].op = req[r].op /\ req'[r].n = reward
        /\ req'[r].hot.row = req[r].hot.row /\ req'[r].hot.base = b
    BY <2>1, RequestTypes DEF RequestStates, HotSessions
  <2> QED
    BY <1>2, <2>1, <2>2, <2>3 DEF b
<1> QED
  BY <1>1, <1>2
-----------------------------------------------------------------------------
(* CopyInv: no copy of a session leads its row.                            *)

LEMMA SeedTypes ==
  ASSUME TypeOK, AnchorInv
  PROVE  /\ cache # NoHot => cache.row.seed \in Seeds
         /\ \A r \in Requests :
              /\ req[r].pc \in Copied => req[r].hot.row.seed \in Seeds
              /\ At(r, "startSession") =>
                   req[r].hot.row.seed \in 1 .. starts /\ req[r].hot.row.seed # row.seed
BY DEF AnchorInv, RowInv, RequestInv, PendingStart, Copied, At

\* A step of r that upserts no session keeps CopyInv if what r holds and what
\* it caches are no further than the row.
LEMMA CopyKept ==
  ASSUME TypeOK, TypeOK', AnchorInv, CopyInv, NEW r \in Requests, starts' = starts,
         \A q \in Requests \ {r} : req'[q] = req[q],
         row'.seed \in Seeds => row'.seed = row.seed /\ row.lastIndex <= row'.lastIndex,
         req'[r].pc # "startSession",
         req'[r].pc \in Copied =>
           /\ req'[r].hot.row.seed <= starts
           /\ req'[r].hot.row.seed = row'.seed => Anchor(r)' <= row'.lastIndex
           /\ \A q \in Requests \ {r} : At(q, "startSession") => req'[r].hot.row.seed # req[q].hot.row.seed,
         cache' \in {cache, NoHot} \/
           /\ cache'.row.seed <= starts
           /\ cache'.row.seed = row'.seed => cache'.row.lastIndex <= row'.lastIndex
           /\ \A q \in Requests \ {r} : At(q, "startSession") => cache'.row.seed # req[q].hot.row.seed
  PROVE  CopyInv'
<1>1. row' \in Rows /\ row \in Rows /\ NoHot.row.seed = 0 /\ NoHot.row.lastIndex = 0
  BY DEF TypeOK, NoHot, NoRow
<1>2. CacheNeverLeads'
  <2>1. CASE cache' = NoHot
    BY <1>1, <2>1 DEF CacheNeverLeads, Rows
  <2>2. CASE cache' = cache /\ cache # NoHot
    <3>1. cache.row \in Rows /\ cache.row.seed \in Seeds
      BY <2>2, SeedTypes DEF TypeOK, HotSessions
    <3> QED
      BY <1>1, <2>2, <3>1 DEF CacheNeverLeads, CopyInv, Rows
  <2> QED
    BY <2>1, <2>2 DEF CacheNeverLeads
<1>3. cache' # NoHot => cache'.row.seed <= starts'
  BY DEF CopyInv
<1>4. ASSUME NEW q \in Requests, req'[q].pc \in Copied
      PROVE  /\ req'[q].hot.row.seed <= starts'
             /\ req'[q].hot.row.seed = row'.seed => Anchor(q)' <= row'.lastIndex
  <2>1. CASE q = r
    BY <1>4, <2>1
  <2>2. CASE q # r
    <3>1. /\ req[q].hot.row.seed <= starts /\ req[q].hot.row.seed \in Seeds
          /\ req[q].hot.row.seed = row.seed => Anchor(q) <= row.lastIndex
      BY <1>4, <2>2, SeedTypes DEF CopyInv, Copied
    <3>2. Anchor(q)' = Anchor(q) /\ Anchor(q) \in Nat
      BY <2>2, RequestTypes DEF Anchor, At, Rows
    <3> QED
      BY <1>1, <2>2, <3>1, <3>2 DEF Rows
  <2> QED
    BY <2>1, <2>2
<1>5. ASSUME NEW q \in Requests, At(q, "startSession")'
      PROVE  /\ cache'.row.seed # req'[q].hot.row.seed
             /\ \A p \in Requests : req'[p].pc \in Copied => req'[p].hot.row.seed # req'[q].hot.row.seed
  <2>1. q # r /\ req'[q] = req[q] /\ At(q, "startSession")
    BY <1>5 DEF At
  <2>2. cache'.row.seed # req'[q].hot.row.seed
    <3>1. req[q].hot.row.seed \in 1 .. starts /\ cache.row.seed # req[q].hot.row.seed
      BY <2>1, SeedTypes DEF CopyInv
    <3> QED
      BY <1>1, <2>1, <3>1
  <2>3. ASSUME NEW p \in Requests, req'[p].pc \in Copied
        PROVE  req'[p].hot.row.seed # req'[q].hot.row.seed
    <3>1. CASE p = r
      BY <2>1, <2>3, <3>1
    <3>2. CASE p # r
      BY <2>1, <2>3, <3>2 DEF CopyInv, Copied
    <3> QED
      BY <3>1, <3>2
  <2> QED
    BY <2>2, <2>3
<1> QED
  BY <1>2, <1>3, <1>4, <1>5 DEF CopyInv, Copied

\* A request that goes on with the copy it holds, or ends, keeps CopyInv.
LEMMA CopyCarried ==
  ASSUME TypeOK, TypeOK', AnchorInv, CopyInv, NEW r \in Requests, starts' = starts, Carries(r),
         row'.seed \in Seeds => row'.seed = row.seed /\ row.lastIndex <= row'.lastIndex,
         req'[r].pc # "startSession",
         req'[r].pc \in Copied => req[r].pc \in Copied,
         At(r, "cacheAfter")' =>
           (req[r].hot.row.seed = row'.seed => req[r].hot.row.lastIndex + req[r].n <= row'.lastIndex),
         cache' \notin {cache, NoHot} => req[r].pc \in Copied /\ ~At(r, "cacheAfter") /\ cache' = req[r].hot
  PROVE  CopyInv'
<1>1. ASSUME req[r].pc \in Copied
      PROVE  /\ req[r].hot.row.seed <= starts /\ req[r].hot.row.seed \in Seeds
             /\ req[r].hot.row.seed = row.seed => Anchor(r) <= row.lastIndex
             /\ \A q \in Requests \ {r} : At(q, "startSession") => req[r].hot.row.seed # req[q].hot.row.seed
  BY <1>1, SeedTypes DEF CopyInv, Copied
<1>2. /\ Anchor(r) \in Nat /\ req[r].hot.row.lastIndex \in Nat /\ req[r].n \in Nat
      /\ req[r].hot.row.lastIndex <= Anchor(r)
      /\ row.lastIndex \in Nat /\ row'.lastIndex \in Nat
  BY RequestTypes DEF Anchor, Rows, TypeOK
<1>3. ASSUME req[r].pc \in Copied
      PROVE  req[r].hot.row.seed = row'.seed => req[r].hot.row.lastIndex <= row'.lastIndex
  BY <1>1, <1>2, <1>3
<1>4. ASSUME req'[r].pc \in Copied
      PROVE  /\ req'[r].hot.row.seed <= starts
             /\ req'[r].hot.row.seed = row'.seed => Anchor(r)' <= row'.lastIndex
             /\ \A q \in Requests \ {r} : At(q, "startSession") => req'[r].hot.row.seed # req[q].hot.row.seed
  <2>1. req'[r].hot = req[r].hot /\ req'[r].n = req[r].n
    BY <1>4 DEF Carries, Copied, Holding
  <2>2. Anchor(r)' = req[r].hot.row.lastIndex + (IF At(r, "cacheAfter")' THEN req[r].n ELSE 0)
    BY <2>1 DEF Anchor, At
  <2>3. req[r].hot.row.seed = row'.seed => Anchor(r)' <= row'.lastIndex
    BY <1>2, <1>3, <1>4, <2>2
  <2> QED
    BY <1>1, <1>4, <2>1, <2>3
<1>5. \A q \in Requests \ {r} : req'[q] = req[q]
  BY DEF Carries
<1> QED
  BY <1>1, <1>3, <1>4, <1>5, CopyKept

LEMMA CopyInit == Init => CopyInv
<1> SUFFICES ASSUME Init PROVE CopyInv
  OBVIOUS
<1>1. \A r \in Requests : req[r].pc = "idle"
  BY DEF Init, Idle
<1> QED
  BY <1>1 DEF Init, CopyInv, CacheNeverLeads, Holding, At, NoHot, NoRow

\* What the arrivals have in common: the new request holds the new session, the
\* cached one, or none.
LEMMA ArrivalEffect ==
  ASSUME TypeOK, NEW r \in Requests, Arrival(r)
  PROVE  /\ UNCHANGED <<now, player, row, cache, ledger>>
         /\ req[r].pc = "idle" /\ (unguarded' = (unguarded \/ Overlap(r, req'[r].op)))
         /\ \A q \in Requests \ {r} : req'[q] = req[q]
         /\ \/ /\ req'[r].pc = "startSession" /\ req'[r].op = "start"
               /\ starts' = starts + 1 /\ starts < MaxStarts
               /\ req'[r].hot.base = BaselineOf(player)
               /\ \E loc \in Locations :
                    req'[r].hot.row = [seed |-> starts + 1, loc |-> loc, startTime |-> now,
                                       lastIndex |-> 0, lastTime |-> now]
            \/ /\ req'[r].pc = "resolve" /\ req'[r].op \in {"preview", "claim", "stop"}
               /\ req'[r].hot = cache /\ cache # NoHot /\ starts' = starts
            \/ /\ req'[r].pc = "getSession" /\ req'[r].op \in {"preview", "claim", "stop"}
               /\ starts' = starts
            \/ req'[r].pc = "checkSession" /\ req'[r].op = "login" /\ starts' = starts
<1> USE DEF store, history
<1>1. ASSUME NEW loc \in Locations, StartFishing(r, loc)
      PROVE  /\ req'[r].pc = "startSession" /\ req'[r].op = "start"
             /\ starts' = starts + 1 /\ starts < MaxStarts
             /\ req'[r].hot.base = BaselineOf(player)
             /\ req'[r].hot.row = [seed |-> starts + 1, loc |-> loc, startTime |-> now,
                                   lastIndex |-> 0, lastTime |-> now]
             /\ req[r].pc = "idle" /\ \A q \in Requests \ {r} : req'[q] = req[q]
  <2> DEFINE new == [row |-> [seed |-> starts + 1, loc |-> loc, startTime |-> now,
                              lastIndex |-> 0, lastTime |-> now],
                     base |-> BaselineOf(player)]
  <2>1. Begin(r, "start", "startSession", new, 0) /\ starts' = starts + 1 /\ starts < MaxStarts
    BY <1>1 DEF StartFishing
  <2>2. /\ new.base = BaselineOf(player)
        /\ new.row = [seed |-> starts + 1, loc |-> loc, startTime |-> now,
                      lastIndex |-> 0, lastTime |-> now]
    OBVIOUS
  <2> HIDE DEF new
  <2> QED
    BY <2>1, <2>2, BeginEffect
<1>2. ASSUME NEW op, BeginResolve(r, op)
      PROVE  /\ req'[r].op = op /\ starts' = starts
             /\ \/ req'[r].pc = "resolve" /\ req'[r].hot = cache /\ cache # NoHot
                \/ req'[r].pc = "getSession"
             /\ req[r].pc = "idle" /\ \A q \in Requests \ {r} : req'[q] = req[q]
  BY <1>2, BeginEffect DEF BeginResolve
<1>3. ASSUME LoginSteam(r)
      PROVE  /\ req'[r].op = "login" /\ starts' = starts /\ req'[r].pc = "checkSession"
             /\ req[r].pc = "idle" /\ \A q \in Requests \ {r} : req'[q] = req[q]
  BY <1>3, BeginEffect DEF LoginSteam
<1>4. UNCHANGED <<now, player, row, cache, ledger>>
  BY DEF Arrival, StartFishing, PreviewFishing, ClaimFishing, StopFishing, LoginSteam, BeginResolve, Begin
<1>5. unguarded' = (unguarded \/ Overlap(r, req'[r].op))
  <2>1. ASSUME NEW op, NEW label, NEW hot, NEW t, Begin(r, op, label, hot, t)
        PROVE  unguarded' = (unguarded \/ Overlap(r, req'[r].op))
    BY <2>1, BeginEffect DEF Begin
  <2> QED
    BY <2>1 DEF Arrival, StartFishing, PreviewFishing, ClaimFishing, StopFishing, LoginSteam, BeginResolve
<1> QED
  BY <1>1, <1>2, <1>3, <1>4, <1>5 DEF Arrival, PreviewFishing, ClaimFishing, StopFishing

LEMMA ArrivalCopy ==
  ASSUME TypeOK, TypeOK', AnchorInv, CopyInv, NEW r \in Requests, Arrival(r)
  PROVE  CopyInv'
<1>1. row' = row /\ cache' = cache /\ \A q \in Requests \ {r} : req'[q] = req[q]
  BY ArrivalEffect
<1> row'.seed = row.seed /\ row.lastIndex <= row'.lastIndex
  BY <1>1 DEF TypeOK, Rows
<1>2. CASE starts' = starts /\ req'[r].pc \in {"getSession", "checkSession"}
  <2>1. req'[r].pc \notin Copied /\ req'[r].pc # "startSession"
    BY <1>2 DEF Copied, Holding
  <2> QED
    BY <1>1, <1>2, <2>1, CopyKept
<1>3. CASE starts' = starts /\ req'[r].pc = "resolve" /\ req'[r].hot = cache /\ cache # NoHot
  <2>1. /\ cache.row.seed <= starts
        /\ cache.row.seed = row.seed => cache.row.lastIndex <= row.lastIndex
        /\ \A q \in Requests : At(q, "startSession") => cache.row.seed # req[q].hot.row.seed
    BY <1>3 DEF CopyInv, CacheNeverLeads
  <2>2. Anchor(r)' = cache.row.lastIndex
    BY <1>3 DEF Anchor, At, TypeOK, HotSessions, Rows
  <2>3. req'[r].pc # "startSession" /\ cache' \in {cache, NoHot}
    BY <1>1, <1>3
  <2>4. /\ req'[r].hot.row.seed <= starts
        /\ req'[r].hot.row.seed = row'.seed => Anchor(r)' <= row'.lastIndex
        /\ \A q \in Requests \ {r} : At(q, "startSession") => req'[r].hot.row.seed # req[q].hot.row.seed
    BY <1>1, <1>3, <2>1, <2>2
  <2> QED
    BY <1>1, <1>3, <2>3, <2>4, CopyKept
<1>4. CASE req'[r].pc = "startSession" /\ starts' = starts + 1 /\ req'[r].hot.row.seed = starts + 1
  <2>1. starts \in Nat /\ cache.row.seed <= starts
    BY BoundsAssumption DEF TypeOK, CopyInv, NoHot, NoRow
  <2>2. CacheNeverLeads'
    BY <1>1 DEF CopyInv, CacheNeverLeads
  <2>3. ASSUME NEW q \in Requests, req'[q].pc \in Copied
        PROVE  /\ req'[q].hot.row.seed <= starts
               /\ req'[q].hot.row.seed = row'.seed => Anchor(q)' <= row'.lastIndex
    <3>1. q # r /\ req'[q] = req[q]
      BY <1>1, <1>4, <2>3 DEF Copied, Holding
    <3>2. Anchor(q)' = Anchor(q)
      BY <3>1 DEF Anchor, At
    <3> QED
      BY <1>1, <2>3, <3>1, <3>2 DEF CopyInv, Copied
  <2>4. \A q \in Requests : req'[q].pc \in Copied => req'[q].hot.row.seed \in Nat
    BY RequestTypes DEF TypeOK, RequestStates, HotSessions, Rows
  <2>5. ASSUME NEW q \in Requests, At(q, "startSession")'
        PROVE  /\ cache'.row.seed # req'[q].hot.row.seed
               /\ \A p \in Requests : req'[p].pc \in Copied => req'[p].hot.row.seed # req'[q].hot.row.seed
    <3>1. CASE q = r
      <4>1. cache.row.seed \in Nat
        BY DEF TypeOK, HotSessions, Rows
      <4> QED
        BY <1>1, <1>4, <2>1, <2>3, <2>4, <3>1, <4>1
    <3>2. CASE q # r
      <4>1. req'[q] = req[q] /\ At(q, "startSession")
        BY <1>1, <2>5, <3>2 DEF At
      <4>2. cache.row.seed # req[q].hot.row.seed
        BY <4>1 DEF CopyInv
      <4>3. ASSUME NEW p \in Requests, req'[p].pc \in Copied
            PROVE  req'[p].hot.row.seed # req'[q].hot.row.seed
        <5>1. p # r
          BY <1>4, <4>3 DEF Copied, Holding
        <5> QED
          BY <1>1, <4>1, <4>3, <5>1 DEF CopyInv, Copied
      <4> QED
        BY <1>1, <4>1, <4>2, <4>3
    <3> QED
      BY <3>1, <3>2
  <2>6. starts <= starts' /\ starts \in Nat /\ starts' \in Nat
    BY <1>4, <2>1
  <2>7. cache'.row.seed <= starts' /\ \A q \in Requests : req'[q].pc \in Copied => req'[q].hot.row.seed <= starts'
    <3>1. cache.row.seed \in Nat
      BY DEF TypeOK, HotSessions, Rows
    <3> QED
      BY <1>1, <2>1, <2>3, <2>4, <2>6, <3>1
  <2> QED
    BY <2>2, <2>3, <2>5, <2>7 DEF CopyInv, Copied
<1>5. ASSUME NEW loc, req'[r].hot.row = [seed |-> starts + 1, loc |-> loc, startTime |-> now,
                                         lastIndex |-> 0, lastTime |-> now]
      PROVE  req'[r].hot.row.seed = starts + 1
  BY <1>5
<1> QED
  BY <1>2, <1>3, <1>4, <1>5, ArrivalEffect

LEMMA StartSessionCopy ==
  ASSUME TypeOK, TypeOK', AnchorInv, CopyInv, NEW r \in Requests, StartSession(r)
  PROVE  CopyInv'
<1> DEFINE s == req[r].hot.row.seed
<1>1. /\ At(r, "startSession") /\ row' = req[r].hot.row /\ cache' = cache /\ starts' = starts
      /\ Carries(r) /\ req'[r].pc = "cacheStart"
  BY GotoCarries DEF StartSession, Labels
<1>2. s \in 1 .. starts /\ cache.row.seed # s /\ req'[r].hot = req[r].hot
  BY <1>1, SeedTypes DEF CopyInv, Carries
<1>3. ASSUME NEW q \in Requests \ {r}
      PROVE  /\ req'[q] = req[q]
             /\ req[q].pc \in Copied => req[q].hot.row.seed <= starts /\ req[q].hot.row.seed # s
             /\ At(q, "startSession") => req[q].hot.row.seed # s /\ cache.row.seed # req[q].hot.row.seed
  <2>1. At(q, "startSession") => req[q].hot.row.seed # s
    BY <1>1 DEF AnchorInv, RequestInv, PendingStart
  <2> QED
    BY <1>1, <2>1 DEF CopyInv, Copied, Carries
<1>4. CacheNeverLeads'
  BY <1>1, <1>2 DEF CacheNeverLeads
<1>5. Anchor(r)' = row'.lastIndex /\ row'.lastIndex \in Nat
  <2>1. Anchor(r)' = req[r].hot.row.lastIndex + 0
    BY <1>1, <1>2 DEF Anchor, At
  <2> QED
    BY <1>1, <2>1, RequestTypes DEF Rows
<1>6. ASSUME NEW q \in Requests, req'[q].pc \in Copied
      PROVE  /\ req'[q].hot.row.seed <= starts'
             /\ req'[q].hot.row.seed = row'.seed => Anchor(q)' <= row'.lastIndex
  <2>1. CASE q = r
    BY <1>1, <1>2, <1>5, <2>1
  <2>2. CASE q # r
    BY <1>1, <1>3, <1>6, <2>2
  <2> QED
    BY <2>1, <2>2
<1>7. ASSUME NEW q \in Requests, At(q, "startSession")'
      PROVE  /\ cache'.row.seed # req'[q].hot.row.seed
             /\ \A p \in Requests : req'[p].pc \in Copied => req'[p].hot.row.seed # req'[q].hot.row.seed
  <2>1. q # r
    BY <1>1, <1>7 DEF At
  <2>2. At(q, "startSession") /\ req'[q] = req[q]
    BY <1>3, <1>7, <2>1 DEF At
  <2>3. ASSUME NEW p \in Requests, req'[p].pc \in Copied
        PROVE  req'[p].hot.row.seed # req'[q].hot.row.seed
    <3>1. CASE p = r
      BY <1>2, <1>3, <2>1, <2>2, <3>1
    <3>2. CASE p # r
      BY <1>3, <2>2, <2>3, <3>2 DEF CopyInv, Copied
    <3> QED
      BY <3>1, <3>2
  <2> QED
    BY <1>1, <1>3, <2>1, <2>2, <2>3
<1>8. cache' # NoHot => cache'.row.seed <= starts'
  BY <1>1 DEF CopyInv
<1> QED
  BY <1>4, <1>6, <1>7, <1>8 DEF CopyInv, Copied

LEMMA StepCopy ==
  ASSUME TypeOK, TypeOK', AnchorInv, CopyInv, NEW r \in Requests, RequestStep(r)
  PROVE  CopyInv'
<1> USE DEF store, history
<1>1. row.lastIndex \in Nat /\ NoRow.seed = 0 /\ 0 \notin Seeds
  BY DEF TypeOK, Rows, NoRow, Seeds
\* The steps that keep the row.
<1>2. ASSUME UNCHANGED <<row, starts>>, Carries(r), req'[r].pc \notin {"startSession", "cacheAfter"},
             req'[r].pc \in Copied => req[r].pc \in Copied,
             cache' \notin {cache, NoHot} => req[r].pc \in Copied /\ ~At(r, "cacheAfter") /\ cache' = req[r].hot
      PROVE  CopyInv'
  BY <1>1, <1>2, CopyCarried DEF At
<1>3. CASE StartSession(r)
  BY <1>3, StartSessionCopy
<1>4. CASE CacheStart(r)
  <2>1. Carries(r) /\ req'[r].pc = "idle"
    BY <1>4, ReturnCarries DEF CacheStart
  <2> QED
    BY <1>2, <1>4, <2>1 DEF CacheStart, At, Copied, Holding
<1>5. CASE GetSession(r)
  <2>1. CASE row = NoRow
    <3>1. Carries(r) /\ req'[r].pc = "idle"
      BY <1>5, <2>1, ReturnCarries DEF GetSession
    <3> QED
      BY <1>2, <1>5, <3>1 DEF GetSession, At, Copied, Holding
  <2>2. CASE row # NoRow
    <3>1. /\ req'[r].pc = "getBaseline" /\ req'[r].hot.row = row
          /\ \A q \in Requests \ {r} : req'[q] = req[q]
      BY <1>5, <2>2, GetSessionEffect
    <3>2. row.seed <= starts /\ row' = row /\ cache' = cache /\ starts' = starts
      BY <1>5, <2>2 DEF GetSession, AnchorInv, RowInv
    <3>3. Anchor(r)' = row.lastIndex
      BY <1>1, <3>1 DEF Anchor, At
    <3>4. \A q \in Requests : At(q, "startSession") => row.seed # req[q].hot.row.seed
      BY SeedTypes
    <3> QED
      BY <1>1, <3>1, <3>2, <3>3, <3>4, CopyKept
  <2> QED
    BY <2>1, <2>2
<1>6. CASE GetPlayerBaseline(r)
  <2>1. /\ req'[r].pc = "fill" /\ req'[r].hot.row = req[r].hot.row
        /\ \A q \in Requests \ {r} : req'[q] = req[q]
    BY <1>6, GetPlayerBaselineEffect
  <2>2. row' = row /\ cache' = cache /\ starts' = starts /\ At(r, "getBaseline")
    BY <1>6 DEF GetPlayerBaseline
  <2>3. Anchor(r)' = Anchor(r)
    BY <2>1, <2>2 DEF Anchor, At
  <2>4. /\ req[r].hot.row.seed <= starts
        /\ req[r].hot.row.seed = row.seed => Anchor(r) <= row.lastIndex
        /\ \A q \in Requests : At(q, "startSession") => req[r].hot.row.seed # req[q].hot.row.seed
    BY <2>2 DEF CopyInv, Holding, At
  <2> QED
    BY <1>1, <2>1, <2>2, <2>3, <2>4, CopyKept
<1>7. CASE FillCache(r)
  <2>1. Carries(r) /\ req'[r].pc = "resolve"
    BY <1>7, GotoCarries DEF FillCache, Labels
  <2> QED
    BY <1>2, <1>7, <2>1 DEF FillCache, At, Copied, Holding
<1>8. ASSUME NEW ff \in FastForwards, Resolve(r, ff)
      PROVE  CopyInv'
  <2>1. row' = row /\ cache' = cache /\ starts' = starts /\ At(r, "resolve")
    BY <1>8 DEF Resolve
  <2>2. CASE req'[r].pc = "idle"
    BY <1>1, <1>8, <2>1, <2>2, ResolveEffect, CopyKept DEF Copied, Holding
  <2>3. CASE req'[r].pc = "save" /\ req'[r].hot = req[r].hot
    <3>1. Anchor(r)' = Anchor(r)
      BY <2>1, <2>3 DEF Anchor, At
    <3>2. /\ req[r].hot.row.seed <= starts
          /\ req[r].hot.row.seed = row.seed => Anchor(r) <= row.lastIndex
          /\ \A q \in Requests : At(q, "startSession") => req[r].hot.row.seed # req[q].hot.row.seed
      BY <2>1 DEF CopyInv, Holding, At
    <3>3. \A q \in Requests \ {r} : req'[q] = req[q]
      BY <1>8, ResolveEffect
    <3> QED
      BY <1>1, <2>1, <2>3, <3>1, <3>2, <3>3, CopyKept
  <2> QED
    BY <1>8, <2>2, <2>3, ResolveEffect
<1>9. CASE SaveResolve(r)
  <2>1. Carries(r) /\ req'[r].pc = "cacheAfter" /\ At(r, "save") /\ cache' = cache /\ starts' = starts
    BY <1>9, GotoCarries DEF SaveResolve, Labels
  <2>2. /\ row'.seed = row.seed /\ row'.lastIndex = row.lastIndex + req[r].n
        /\ row.lastIndex = req[r].hot.row.lastIndex /\ req[r].n \in Nat
    BY <1>9, SaveEffect, RequestTypes
  <2>3. row.lastIndex <= row'.lastIndex /\ req[r].hot.row.lastIndex + req[r].n <= row'.lastIndex
    <3> DEFINE a == row.lastIndex
               b == row'.lastIndex
               n == req[r].n
    <3> HIDE DEF a, b, n
    <3>1. a \in Nat /\ n \in Nat /\ b = a + n
      BY <1>1, <2>2 DEF a, b, n
    <3>2. a <= b /\ a + n <= b
      BY <3>1
    <3> QED
      BY <2>2, <3>2 DEF a, b, n
  <2> QED
    BY <2>1, <2>2, <2>3, CopyCarried DEF At, Copied, Holding
<1>10. CASE StaleClaim(r)
  <2>1. Carries(r) /\ req'[r].pc = "cacheDel"
    BY <1>10, GotoCarries DEF StaleClaim, Labels
  <2>2. UNCHANGED <<row, starts>> /\ cache' \in {cache, NoHot}
    BY <1>10 DEF StaleClaim
  <2>3. req'[r].pc \notin {"startSession", "cacheAfter"}
    BY <2>1
  <2>4. req'[r].pc \in Copied => req[r].pc \in Copied
    BY <2>1 DEF Copied, Holding
  <2> QED
    BY <1>2, <2>1, <2>2, <2>3, <2>4
<1>11. CASE CacheAfter(r)
  <2>1. Carries(r) /\ req'[r].pc \in {"idle", "deleteSession"}
    BY <1>11, FinishCarries DEF CacheAfter
  <2>2. row' = row /\ starts' = starts /\ At(r, "cacheAfter")
    BY <1>11 DEF CacheAfter
  <2>3. cache'.row.seed = req[r].hot.row.seed /\ cache'.row.lastIndex = Anchor(r)
    BY <1>11, <2>2, RequestTypes, AnchorFields DEF CacheAfter, Anchor
  <2>4. /\ req[r].hot.row.seed <= starts
        /\ req[r].hot.row.seed = row.seed => Anchor(r) <= row.lastIndex
        /\ \A q \in Requests : At(q, "startSession") => req[r].hot.row.seed # req[q].hot.row.seed
    BY <2>2 DEF CopyInv, Holding, At
  <2>5. req'[r].pc \notin Copied /\ req'[r].pc # "startSession" /\ \A q \in Requests \ {r} : req'[q] = req[q]
    BY <2>1 DEF Copied, Holding, Carries
  <2> QED
    BY <1>1, <2>2, <2>3, <2>4, <2>5, CopyKept
<1>12. CASE CacheDelStale(r)
  <2>1. Carries(r) /\ req'[r].pc \in {"idle", "deleteSession"}
    BY <1>12, FinishCarries DEF CacheDelStale
  <2> QED
    BY <1>2, <1>12, <2>1 DEF CacheDelStale, At, Copied, Holding
<1>13. CASE DeleteSession(r)
  <2>1. Carries(r) /\ req'[r].pc = "uncache" /\ row' = NoRow /\ cache' = cache /\ starts' = starts
    BY <1>13, GotoCarries DEF DeleteSession, Labels
  <2> QED
    BY <1>1, <2>1, CopyCarried DEF Copied, Holding, At
<1>14. CASE CacheDelStop(r)
  <2>1. Carries(r) /\ req'[r].pc = "touchLogout"
    BY <1>14, GotoCarries DEF CacheDelStop, Labels
  <2> QED
    BY <1>2, <1>14, <2>1 DEF CacheDelStop, At, Copied, Holding
<1>15. CASE TouchLogout(r)
  <2>1. Carries(r) /\ req'[r].pc = "idle"
    BY <1>15, ReturnCarries DEF TouchLogout
  <2> QED
    BY <1>2, <1>15, <2>1 DEF TouchLogout, At, Copied, Holding
<1>16. CASE CheckSession(r)
  <2>1. Carries(r) /\ req'[r].pc \in {"idle", "readPlayer"}
    BY <1>16, ReturnCarries, GotoCarries DEF CheckSession, Labels
  <2> QED
    BY <1>2, <1>16, <2>1 DEF CheckSession, At, Copied, Holding
<1>17. CASE ReadPlayer(r)
  <2>1. /\ \A q \in Requests \ {r} : req'[q] = req[q]
        /\ req'[r].pc \in {"idle", "applyReward"}
    BY <1>17, ReadPlayerEffect
  <2>2. row' = row /\ cache' = cache /\ starts' = starts
    BY <1>17 DEF ReadPlayer
  <2>3. req'[r].pc \notin Copied /\ req'[r].pc # "startSession"
    BY <2>1 DEF Copied, Holding
  <2> QED
    BY <1>1, <2>1, <2>2, <2>3, CopyKept
<1>18. CASE ApplyOfflineReward(r)
  <2>1. Carries(r) /\ req'[r].pc = "uncacheReward"
    BY <1>18, GotoCarries DEF ApplyOfflineReward, Labels
  <2> QED
    BY <1>2, <1>18, <2>1 DEF ApplyOfflineReward, At, Copied, Holding
<1>19. CASE CacheDelReward(r)
  <2>1. Carries(r) /\ req'[r].pc = "idle"
    BY <1>19, ReturnCarries DEF CacheDelReward
  <2> QED
    BY <1>2, <1>19, <2>1 DEF CacheDelReward, At, Copied, Holding
<1> QED
  BY <1>3, <1>4, <1>5, <1>6, <1>7, <1>8, <1>9, <1>10, <1>11, <1>12, <1>13, <1>14, <1>15,
     <1>16, <1>17, <1>18, <1>19 DEF RequestStep

\* A failed call ends the request, or its Redis write is skipped.
LEMMA FailureEffect ==
  ASSUME TypeOK, NEW r \in Requests, GivesUp(r) \/ RedisFails(r)
  PROVE  /\ UNCHANGED <<now, player, row, cache, starts, ledger>> /\ Active(r)
         /\ Carries(r) /\ req'[r].pc \in {"idle", "deleteSession", "touchLogout", "resolve"}
         /\ req'[r].pc = "resolve" => At(r, "fill")
         /\ unguarded' = (unguarded \/ At(r, "cacheStart"))
<1>1. UNCHANGED <<now, player, row, cache, starts, ledger>> /\ Active(r)
      /\ unguarded' = (unguarded \/ At(r, "cacheStart"))
  BY DEF GivesUp, RedisFails, store, history, Active, At
<1> QED
  BY <1>1, ReturnCarries, FinishCarries, GotoCarries DEF GivesUp, RedisFails, Labels

LEMMA NextCopy ==
  ASSUME TypeOK, TypeOK', AnchorInv, CopyInv, Moves
  PROVE  CopyInv'
<1>1. ASSUME UNCHANGED <<row, starts, req>>, cache' \in {cache, NoHot}
      PROVE  CopyInv'
  <2>1. row.lastIndex \in Nat /\ NoHot.row.seed = 0 /\ NoHot.row.lastIndex = 0
    BY DEF TypeOK, Rows, NoHot, NoRow
  <2>2. \A r \in Requests : At(r, "startSession") => req[r].hot.row.seed # 0
    BY SeedTypes
  <2>3. \A r \in Requests : Anchor(r)' = Anchor(r)
    BY <1>1 DEF Anchor, At
  <2> QED
    BY <1>1, <2>1, <2>2, <2>3 DEF CopyInv, CacheNeverLeads, At
<1>2. CASE Tick
  BY <1>1, <1>2 DEF Tick, store
<1>3. CASE CacheLost
  BY <1>1, <1>3 DEF CacheLost
<1>4. CASE Still
  BY <1>1, <1>4 DEF Still, store
<1>5. ASSUME NEW r \in Requests, GivesUp(r) \/ RedisFails(r)
      PROVE  CopyInv'
  <2>1. UNCHANGED <<row, cache, starts>> /\ row.lastIndex \in Nat
    BY <1>5, FailureEffect DEF TypeOK, Rows
  <2>2. /\ Carries(r) /\ req'[r].pc \notin {"startSession", "cacheAfter"}
        /\ req'[r].pc \in Copied => req[r].pc \in Copied
    BY <1>5, FailureEffect DEF Copied, Holding, At
  <2> QED
    BY <2>1, <2>2, CopyCarried DEF At
<1> QED
  BY <1>2, <1>3, <1>4, <1>5, ArrivalCopy, StepCopy DEF Moves

\* CacheNeverLeads: whatever overlaps or fails, Redis never has an anchor of
\* the current session that PostgreSQL has not.
THEOREM CacheNeverLeadsCorrect == Spec => []CacheNeverLeads
<1>1. Init => TypeOK /\ AnchorInv /\ CopyInv
  BY InitType, InitAnchor, CopyInit
<1>2. TypeOK /\ AnchorInv /\ CopyInv /\ [Next]_vars => (TypeOK /\ AnchorInv /\ CopyInv)'
  BY NextMoves, NextType, NextAnchor, NextCopy
<1>3. CopyInv => CacheNeverLeads
  BY DEF CopyInv
<1> QED
  BY <1>1, <1>2, <1>3, PTL DEF Spec

-----------------------------------------------------------------------------
(* The arithmetic of levels and points.                                    *)

LEMMA LevelMonotone ==
  ASSUME NEW xp \in Nat, NEW n \in Nat
  PROVE  /\ LevelForXP(xp) \in Nat /\ LevelForXP(xp) >= 1
         /\ LevelForXP(xp) <= LevelForXP(xp + n)
<1> DEFINE d == XPPerLevel
           a == xp \div d
           b == (xp + n) \div d
<1>1. d \in Nat /\ d > 0
  BY XPPerLevelAssumption
<1>2. a \in Nat /\ b \in Nat /\ a <= b
  <2> HIDE DEF d
  <2> QED
    BY <1>1
<1> HIDE DEF a, b
<1>3. LevelForXP(xp) = a + 1 /\ LevelForXP(xp + n) = b + 1
  BY DEF LevelForXP, a, b
<1> QED
  BY <1>2, <1>3

\* The points for the levels gained are what the player lacks.
LEMMA PointsAdd ==
  ASSUME NEW xp \in Nat, NEW n \in Nat
  PROVE  /\ SkillPointsForLevel(LevelForXP(xp)) + AddedPoints(LevelForXP(xp), LevelForXP(xp + n))
              = SkillPointsForLevel(LevelForXP(xp + n))
         /\ SkillPointsForLevel(LevelForXP(xp)) = xp \div XPPerLevel
<1> DEFINE a == LevelForXP(xp)
           b == LevelForXP(xp + n)
<1>1. a \in Nat /\ b \in Nat /\ a >= 1 /\ b >= 1 /\ a <= b
  BY LevelMonotone
<1>2. SkillPointsForLevel(a) + AddedPoints(a, b) = SkillPointsForLevel(b)
  <2> HIDE DEF a, b
  <2> QED
    BY <1>1 DEF SkillPointsForLevel, AddedPoints
<1>3. SkillPointsForLevel(a) = xp \div XPPerLevel
  <2> DEFINE x == xp \div XPPerLevel
  <2>1. a = x + 1 /\ x \in Nat
    BY XPPerLevelAssumption DEF LevelForXP
  <2> HIDE DEF a, x
  <2>2. SkillPointsForLevel(a) = x
    BY <2>1 DEF SkillPointsForLevel
  <2> QED
    BY <2>2 DEF x
<1> QED
  BY <1>2, <1>3
-----------------------------------------------------------------------------
(* What a save writes, field by field.                                     *)

LEMMA AfterFields ==
  ASSUME NEW s \in Rows, NEW n \in Nat
  PROVE  /\ After(s, n).seed = s.seed /\ After(s, n).loc = s.loc /\ After(s, n).startTime = s.startTime
         /\ After(s, n).lastIndex = s.lastIndex + n /\ After(s, n).lastTime = s.lastTime + n
<1> DEFINE i == s.lastIndex + n
           t == s.lastTime + n
<1>1. After(s, n) = [s EXCEPT !.lastIndex = i, !.lastTime = t]
  BY DEF After
<1>2. After(s, n).lastIndex = i /\ After(s, n).lastTime = t /\ After(s, n).seed = s.seed
      /\ After(s, n).loc = s.loc /\ After(s, n).startTime = s.startTime
  <2> HIDE DEF i, t
  <2> QED
    BY <1>1 DEF Rows
<1> QED
  BY <1>2

LEMMA CreditFields ==
  ASSUME NEW p \in Players, NEW hot \in HotSessions, NEW n \in Nat
  PROVE  /\ Credit(p, hot, n) \in Players
         /\ Credit(p, hot, n).xp = p.xp + n
         /\ Credit(p, hot, n).level = LevelForXP(hot.base.xp + n)
         /\ Credit(p, hot, n).points =
              p.points + AddedPoints(hot.base.level, LevelForXP(hot.base.xp + n))
         /\ Credit(p, hot, n).highest = IF BetterLocation(hot) THEN hot.row.loc ELSE p.highest
         /\ Credit(p, hot, n).logout = p.logout
<1> DEFINE xp == p.xp + n
           level == LevelForXP(hot.base.xp + n)
           points == p.points + AddedPoints(hot.base.level, level)
           highest == IF BetterLocation(hot) THEN hot.row.loc ELSE p.highest
<1>1. Credit(p, hot, n) = [p EXCEPT !.xp = xp, !.level = level, !.points = points, !.highest = highest]
  BY DEF Credit
<1>2. Credit(p, hot, n) \in Players
  BY CreditType
<1>3. /\ Credit(p, hot, n).xp = xp /\ Credit(p, hot, n).level = level
      /\ Credit(p, hot, n).points = points /\ Credit(p, hot, n).highest = highest
      /\ Credit(p, hot, n).logout = p.logout
  <2> HIDE DEF xp, level, points, highest
  <2> QED
    BY <1>1 DEF Players
<1> QED
  BY <1>2, <1>3

LEMMA BaselineAfterFields ==
  ASSUME NEW hot \in HotSessions, NEW n \in Nat
  PROVE  /\ BaselineAfter(hot, n).xp = hot.base.xp + n
         /\ BaselineAfter(hot, n).level = LevelForXP(hot.base.xp + n)
         /\ BaselineAfter(hot, n).highest = IF BetterLocation(hot) THEN hot.row.loc ELSE hot.base.highest
<1> DEFINE xp == hot.base.xp + n
           level == LevelForXP(xp)
           points == hot.base.points + AddedPoints(hot.base.level, level)
           highest == IF BetterLocation(hot) THEN hot.row.loc ELSE hot.base.highest
<1>1. BaselineAfter(hot, n) = [hot.base EXCEPT !.xp = xp, !.level = level, !.points = points, !.highest = highest]
  BY DEF BaselineAfter
<1>2. /\ BaselineAfter(hot, n).xp = xp /\ BaselineAfter(hot, n).level = level
      /\ BaselineAfter(hot, n).highest = highest
  <2> HIDE DEF xp, level, points, highest
  <2> QED
    BY <1>1 DEF HotSessions, Baselines
<1> QED
  BY <1>2

\* What AgreeInv says of one request.
Agrees(r) == StartInv(r) /\ ResolveInv(r) /\ LoginInv(r)

\* With the anchor of the row comes the row and the player of now: the save
\* pays the events once, at the level and the best location of the player.
LEMMA GuardedSave ==
  ASSUME TypeOK, AnchorInv, OneSession, LevelFollowsXP, NEW r \in Requests, Agrees(r), SaveResolve(r),
         row # NoRow => row.lastTime = row.startTime + row.lastIndex
  PROVE  /\ row # NoRow /\ row' \in Rows /\ row'.seed = row.seed /\ row.seed \in Seeds
         /\ row'.loc = row.loc /\ row'.startTime = row.startTime
         /\ row'.lastIndex = row.lastIndex + req[r].n /\ row'.lastTime = row.lastTime + req[r].n
         /\ req[r].hot.row.lastIndex = row.lastIndex /\ req[r].hot.row.lastTime = row.lastTime
         /\ req[r].hot.row.loc = row.loc
         /\ player' \in Players /\ player'.xp = player.xp + req[r].n
         /\ player'.level = LevelForXP(player'.xp)
         /\ player'.points = SkillPointsForLevel(player'.level)
         /\ player'.highest = IF row.loc > player.highest THEN row.loc ELSE player.highest
         /\ player'.logout = player.logout
         /\ UpToDate(HotAfter(r), row', player')
<1> DEFINE hot == req[r].hot
           n == req[r].n
<1>1. hot \in HotSessions /\ hot.row \in Rows /\ hot.base \in Baselines /\ n \in Nat /\ row \in Rows /\ player \in Players
  BY RequestTypes DEF TypeOK
<1>2. row # NoRow /\ row.lastIndex = hot.row.lastIndex /\ At(r, "save")
  BY DEF SaveResolve, AnchorMatches
<1>3. row.seed \in Seeds
  BY SaveEffect
<1>4. CopyOf(hot.row, row) /\ UpToDate(hot, row, player)
  BY <1>2 DEF Agrees, ResolveInv, Holding, At
<1>5. hot.row.loc = row.loc /\ hot.row.startTime = row.startTime /\ hot.row.lastTime = row.lastTime
  BY <1>2, <1>4 DEF CopyOf
<1>6. /\ hot.base.xp = player.xp /\ hot.base.level = player.level
      /\ hot.base.highest <= player.highest
      /\ player.highest <= IF BetterLocation(hot) THEN hot.row.loc ELSE hot.base.highest
  BY <1>2, <1>4 DEF UpToDate
<1>7. /\ row' \in Rows /\ row'.seed = row.seed /\ row'.loc = row.loc /\ row'.startTime = row.startTime
      /\ row'.lastIndex = row.lastIndex + n /\ row'.lastTime = row.lastTime + n
  <2> DEFINE a == After(hot.row, n)
  <2>1. /\ a \in Rows /\ a.startTime = hot.row.startTime
        /\ a.lastIndex = hot.row.lastIndex + n /\ a.lastTime = hot.row.lastTime + n
    BY <1>1, AfterType, AfterFields
  <2>2. row' = Advance(row, a)
    BY DEF SaveResolve
  <2> HIDE DEF a
  <2>3. /\ row' \in Rows /\ row'.seed = row.seed /\ row'.loc = row.loc
        /\ row'.startTime = a.startTime /\ row'.lastIndex = a.lastIndex /\ row'.lastTime = a.lastTime
    BY <1>1, <2>1, <2>2, AdvanceType DEF Advance, Rows
  <2> QED
    BY <1>2, <1>5, <2>1, <2>3
<1>8. /\ player' \in Players /\ player'.xp = player.xp + n
      /\ player'.level = LevelForXP(player.xp + n)
      /\ player'.points = player.points + AddedPoints(player.level, LevelForXP(player.xp + n))
      /\ player'.highest = IF BetterLocation(hot) THEN hot.row.loc ELSE player.highest
      /\ player'.logout = player.logout
  <2>1. player' = Credit(player, hot, n)
    BY DEF SaveResolve
  <2> HIDE DEF hot, n
  <2> QED
    BY <1>1, <1>6, <2>1, CreditFields
<1>9. player'.points = SkillPointsForLevel(player'.level)
  <2>1. player.xp \in Nat /\ player.level = LevelForXP(player.xp) /\ player.points = SkillPointsForLevel(player.level)
    BY <1>1 DEF LevelFollowsXP, Players
  <2> HIDE DEF n
  <2> QED
    BY <1>1, <1>8, <2>1, PointsAdd
<1>10. player.highest \in Nat /\ hot.base.highest \in Nat /\ hot.row.loc \in Nat /\ row.loc \in Nat
  BY <1>1 DEF Players, Baselines, Rows
<1>11. player'.highest = IF row.loc > player.highest THEN row.loc ELSE player.highest
  <2>1. CASE BetterLocation(hot)
    BY <1>5, <1>6, <1>8, <1>10, <2>1 DEF BetterLocation
  <2>2. CASE ~BetterLocation(hot)
    BY <1>5, <1>6, <1>8, <1>10, <2>2 DEF BetterLocation
  <2> QED
    BY <2>1, <2>2
<1>12. UpToDate(HotAfter(r), row', player')
  <2> DEFINE new == HotAfter(r)
  <2>1. /\ new.row.loc = hot.row.loc /\ new.base.xp = hot.base.xp + n
        /\ new.base.level = LevelForXP(hot.base.xp + n)
        /\ new.base.highest = IF BetterLocation(hot) THEN hot.row.loc ELSE hot.base.highest
    BY <1>1, AfterFields, BaselineAfterFields DEF HotAfter
  <2>2. new.base.highest = player'.highest
    <3>1. CASE BetterLocation(hot)
      BY <1>8, <2>1, <3>1
    <3>2. CASE ~BetterLocation(hot)
      BY <1>6, <1>8, <1>10, <2>1, <3>2
    <3> QED
      BY <3>1, <3>2
  <2>3. new.base.xp = player'.xp /\ new.base.level = player'.level
    BY <1>6, <1>8, <2>1
  <2>4. player'.highest \in Nat /\ new.row.loc \in Nat
    BY <1>8, <1>10, <2>1 DEF Players
  <2> HIDE DEF new
  <2>5. UpToDate(new, row', player')
    BY <2>2, <2>3, <2>4 DEF UpToDate, BetterLocation
  <2> QED
    BY <2>5 DEF new
<1> QED
  BY <1>1, <1>2, <1>3, <1>5, <1>7, <1>8, <1>9, <1>11, <1>12
-----------------------------------------------------------------------------
(* AgreeInv: while requests overlap in no way that nothing detects, what   *)
(* they hold and cache agrees with the row and the player.                 *)

LEMMA AgreeInit == Init => AgreeInv
<1> SUFFICES ASSUME Init PROVE AgreeInv
  OBVIOUS
<1>1. \A r \in Requests : req[r].pc = "idle"
  BY DEF Init, Idle
<1>2. \A r \in Requests : Agrees(r)
  BY <1>1 DEF Agrees, StartInv, ResolveInv, LoginInv, Holding, At
<1>3. LevelFollowsXP
  <2>1. 0 \div XPPerLevel = 0
    BY XPPerLevelAssumption
  <2> QED
    BY <2>1 DEF Init, LevelFollowsXP, LevelForXP, SkillPointsForLevel
<1>4. row = NoRow
  BY DEF Init
<1> QED
  BY <1>1, <1>2, <1>3, <1>4 DEF AgreeInv, Agrees, Active

\* A request that does not move agrees with what the step of another leaves.
LEMMA OtherAgrees ==
  ASSUME NEW q \in Requests, Agrees(q), req'[q] = req[q], now' = now, row' = row \/ row' = NoRow,
         player' = player \/ (BaselineOf(player') = BaselineOf(player) /\ player'.logout # NoLogout)
  PROVE  Agrees(q)'
<1>1. StartInv(q)'
  BY DEF Agrees, StartInv
<1>2. LoginInv(q)'
  BY DEF Agrees, LoginInv, At
<1>3. ASSUME UpToDate(req[q].hot, row, player)
      PROVE  UpToDate(req[q].hot, row, player')
  BY <1>3 DEF UpToDate, BaselineOf
<1>4. ASSUME UpToDate(HotAfter(q), row, player)
      PROVE  UpToDate(HotAfter(q), row, player')
  BY <1>4 DEF UpToDate, BaselineOf
<1>5. HotAfter(q)' = HotAfter(q)
  BY DEF HotAfter
<1>6. ASSUME row' # NoRow
      PROVE  /\ req'[q].pc \in Holding => CopyOf(req'[q].hot.row, row')
             /\ req'[q].pc \in {"fill", "resolve", "save"} => UpToDate(req'[q].hot, row', player')
             /\ At(q, "cacheAfter")' => UpToDate(HotAfter(q)', row', player')
  BY <1>3, <1>4, <1>5, <1>6 DEF Agrees, ResolveInv, At
<1>7. At(q, "save")' => \E ff \in FastForwards : req'[q].n <= Resolved(req[q].hot.row, ff)'
  BY DEF Agrees, ResolveInv, At, Resolved
<1>8. ResolveInv(q)'
  BY <1>6, <1>7 DEF ResolveInv
<1> QED
  BY <1>1, <1>2, <1>8 DEF Agrees

\* A step that leaves the row or deletes it, and of the player only the logout.
LEMMA AgreeKept ==
  ASSUME TypeOK, AnchorInv, OneSession, AgreeInv, NEW r \in Requests, Active(r), ~At(r, "cacheStart"),
         \A q \in Requests \ {r} : req'[q] = req[q],
         now' = now, row' = row \/ row' = NoRow,
         player' = player \/
           (/\ BaselineOf(player') = BaselineOf(player) /\ player'.logout # NoLogout
            /\ player'.points = player.points),
         req'[r].op = "none" \/ req'[r].op = req[r].op,
         req'[r].pc # "cacheStart",
         Agrees(r)',
         row' # NoRow /\ cache' # cache /\ cache' # NoHot =>
           CopyOf(cache'.row, row) /\ UpToDate(cache', row, player)
  PROVE  AgreeInv'
<1>1. \A q \in Requests : Agrees(q)'
  BY OtherAgrees DEF AgreeInv, Agrees
<1>2. LevelFollowsXP'
  BY DEF AgreeInv, LevelFollowsXP, BaselineOf
<1>3. row' # NoRow => row'.lastTime = row'.startTime + row'.lastIndex
  BY DEF AgreeInv
<1>4. ASSUME NEW p \in Requests, NEW q \in Requests, Active(p)', req'[p].op = "login",
             Active(q)', req'[q].op = "login"
      PROVE  p = q
  BY <1>4 DEF AgreeInv, Active
<1>5. \A q \in Requests : ~At(q, "cacheStart")
  BY StartAlone
<1>6. ASSUME row' # NoRow, cache' # NoHot
      PROVE  CopyOf(cache'.row, row') /\ UpToDate(cache', row', player')
  <2>1. CopyOf(cache'.row, row) /\ UpToDate(cache', row, player)
    BY <1>5, <1>6 DEF AgreeInv
  <2>2. UpToDate(cache', row, player')
    BY <2>1 DEF UpToDate, BaselineOf
  <2> QED
    BY <1>6, <2>1, <2>2
<1>7. /\ \A q \in Requests : StartInv(q)' /\ ResolveInv(q)' /\ LoginInv(q)'
      /\ row' # NoRow /\ cache' # NoHot => CopyOf(cache'.row, row') /\ UpToDate(cache', row', player')
  BY <1>1, <1>6 DEF Agrees
<1> QED
  BY <1>2, <1>3, <1>4, <1>7 DEF AgreeInv

\* The same of a request that goes on with what it holds, or ends.
LEMMA AgreeCarried ==
  ASSUME TypeOK, AnchorInv, OneSession, AgreeInv, NEW r \in Requests, Active(r), ~At(r, "cacheStart"),
         Carries(r), now' = now, row' = row \/ row' = NoRow,
         player' = player \/
           (/\ BaselineOf(player') = BaselineOf(player) /\ player'.logout # NoLogout
            /\ player'.points = player.points),
         req'[r].pc \notin {"startSession", "cacheStart", "save", "cacheAfter", "applyReward"},
         req'[r].pc \in Holding => req'[r].pc = "resolve" /\ At(r, "fill"),
         req'[r].pc = "readPlayer" => At(r, "checkSession") /\ row' = NoRow,
         req'[r].pc = "checkSession" => At(r, "checkSession"),
         req'[r].pc = "uncacheReward" => req[r].op = "login",
         row' # NoRow /\ cache' # cache /\ cache' # NoHot =>
           CopyOf(cache'.row, row) /\ UpToDate(cache', row, player)
  PROVE  AgreeInv'
<1>1. req'[r].op = "none" \/ req'[r].op = req[r].op
  BY DEF Carries
<1>2. StartInv(r)'
  BY DEF StartInv
<1>3. LoginInv(r)'
  BY DEF Carries, LoginInv, AgreeInv, At
<1>4. ASSUME row' # NoRow, req'[r].pc \in Holding
      PROVE  CopyOf(req'[r].hot.row, row') /\ UpToDate(req'[r].hot, row', player')
  <2>1. req'[r].hot = req[r].hot
    BY <1>4 DEF Carries, Holding
  <2>2. CopyOf(req[r].hot.row, row) /\ UpToDate(req[r].hot, row, player)
    BY <1>4 DEF AgreeInv, ResolveInv, At, Holding
  <2>3. UpToDate(req[r].hot, row, player')
    BY <2>2 DEF UpToDate, BaselineOf
  <2> QED
    BY <1>4, <2>1, <2>2, <2>3
<1>5. ResolveInv(r)'
  BY <1>4 DEF ResolveInv, At, Holding
<1> QED
  BY <1>1, <1>2, <1>3, <1>5, AgreeKept DEF Agrees, Carries
LEMMA ArrivalAgrees ==
  ASSUME TypeOK, AnchorInv, OneSession, AgreeInv, NEW r \in Requests, Arrival(r), ~unguarded'
  PROVE  AgreeInv'
<1>1. /\ UNCHANGED <<now, player, row, cache>> /\ req[r].pc = "idle"
      /\ \A q \in Requests \ {r} : req'[q] = req[q]
  BY ArrivalEffect
<1>2. ~Overlap(r, req'[r].op)
  BY ArrivalEffect
<1>3. \A q \in Requests \ {r} : Agrees(q)'
  BY <1>1, OtherAgrees DEF AgreeInv, Agrees
<1>4. now \in Nat /\ BaselineOf(player)' = BaselineOf(player)
  BY <1>1 DEF TypeOK
<1>5. \A q \in Requests : ~At(q, "cacheStart") /\ ~At(q, "cacheStart")'
  <2>1. ASSUME NEW q \in Requests, At(q, "cacheStart")
        PROVE  q # r /\ Active(q) /\ req[q].op = "start"
    BY <1>1, <2>1 DEF AnchorInv, RequestInv, At, Active
  <2>2. \A q \in Requests : ~At(q, "cacheStart")
    BY <1>2, <2>1 DEF Overlap
  <2> QED
    BY <1>1, <2>2, ArrivalEffect DEF At
<1>6. Agrees(r)'
  <2>1. CASE req'[r].pc = "startSession" /\ req'[r].hot.base = BaselineOf(player)
    <3>1. PICK loc \in Locations : req'[r].hot.row = [seed |-> starts + 1, loc |-> loc, startTime |-> now,
                                                     lastIndex |-> 0, lastTime |-> now]
      BY <2>1, ArrivalEffect
    <3>2. StartInv(r)'
      BY <1>1, <1>4, <2>1, <3>1 DEF StartInv
    <3> QED
      BY <2>1, <3>2 DEF Agrees, ResolveInv, LoginInv, At, Holding
  <2>2. CASE req'[r].pc = "resolve" /\ req'[r].hot = cache /\ cache # NoHot
    <3>1. row # NoRow => CopyOf(cache.row, row) /\ UpToDate(cache, row, player)
      BY <1>5, <2>2 DEF AgreeInv
    <3>2. ResolveInv(r)'
      BY <1>1, <2>2, <3>1 DEF ResolveInv, At
    <3> QED
      BY <2>2, <3>2 DEF Agrees, StartInv, LoginInv, At
  <2>3. CASE req'[r].pc = "getSession"
    BY <2>3 DEF Agrees, StartInv, ResolveInv, LoginInv, At, Holding
  <2>4. CASE req'[r].pc = "checkSession" /\ req'[r].op = "login"
    BY <2>4 DEF Agrees, StartInv, ResolveInv, LoginInv, At, Holding
  <2> QED
    BY <2>1, <2>2, <2>3, <2>4, ArrivalEffect
<1>7. ASSUME NEW p \in Requests, NEW q \in Requests, Active(p)', req'[p].op = "login",
             Active(q)', req'[q].op = "login"
      PROVE  p = q
  <2>1. ASSUME req'[r].op = "login", NEW s \in Requests \ {r}, Active(s)
        PROVE  req[s].op # "login"
    BY <1>2, <2>1 DEF Overlap
  <2>2. \A s \in Requests \ {r} : Active(s)' => Active(s) /\ req'[s].op = req[s].op
    BY <1>1 DEF Active
  <2> QED
    BY <1>7, <2>1, <2>2 DEF AgreeInv
<1>8. /\ LevelFollowsXP'
      /\ row' # NoRow => row'.lastTime = row'.startTime + row'.lastIndex
      /\ row' # NoRow /\ cache' # NoHot => CopyOf(cache'.row, row') /\ UpToDate(cache', row', player')
  BY <1>1, <1>5 DEF AgreeInv, LevelFollowsXP
<1>9. \A q \in Requests : StartInv(q)' /\ ResolveInv(q)' /\ LoginInv(q)'
  BY <1>3, <1>6 DEF Agrees
<1> QED
  BY <1>7, <1>8, <1>9 DEF AgreeInv

LEMMA StartSessionAgrees ==
  ASSUME TypeOK, AnchorInv, OneSession, AgreeInv, NEW r \in Requests, StartSession(r)
  PROVE  AgreeInv'
<1>1. /\ At(r, "startSession") /\ row' = req[r].hot.row /\ UNCHANGED <<now, player, cache>>
      /\ req'[r].pc = "cacheStart" /\ Carries(r)
  BY GotoCarries DEF StartSession, Labels
<1>2. req'[r].hot = req[r].hot
  BY <1>1 DEF Carries
<1>3. \A q \in Requests \ {r} : req'[q].pc = "idle"
  BY <1>1 DEF AnchorInv, RequestInv, PendingStart, OneSession, Alone, Active, At, Carries
<1>4. StartInv(r)'
  BY <1>1, <1>2 DEF AgreeInv, StartInv, At
<1>5. \A q \in Requests : StartInv(q)' /\ ResolveInv(q)' /\ LoginInv(q)'
  BY <1>1, <1>3, <1>4 DEF StartInv, ResolveInv, LoginInv, Holding, At
<1>6. row'.lastTime = row'.startTime + row'.lastIndex
  BY <1>1, RequestTypes DEF AgreeInv, StartInv, At, Rows
<1>7. LevelFollowsXP'
  BY <1>1 DEF AgreeInv, LevelFollowsXP
<1> QED
  BY <1>1, <1>3, <1>5, <1>6, <1>7 DEF AgreeInv, Active, At

LEMMA CacheStartAgrees ==
  ASSUME TypeOK, AnchorInv, OneSession, AgreeInv, NEW r \in Requests, CacheStart(r)
  PROVE  AgreeInv'
<1>1. /\ At(r, "cacheStart") /\ cache' = req[r].hot /\ UNCHANGED <<now, player, row>>
      /\ req'[r].pc = "idle" /\ Carries(r)
  BY ReturnCarries DEF CacheStart
<1>2. row = req[r].hot.row /\ req[r].op = "start"
  BY <1>1 DEF OneSession, AnchorInv, RequestInv, At
<1>3. \A q \in Requests : req'[q].pc = "idle"
  BY <1>1, <1>2 DEF OneSession, Alone, Active, At, Carries
<1>4. CopyOf(cache'.row, row')
  BY <1>1, <1>2, RequestTypes DEF AgreeInv, StartInv, CopyOf, At, Rows
<1>5. UpToDate(cache', row', player')
  <2>1. cache'.base = BaselineOf(player) /\ player.highest \in Nat
    BY <1>1 DEF AgreeInv, StartInv, At, TypeOK, Players
  <2>2. /\ cache'.base.xp = player.xp /\ cache'.base.level = player.level
        /\ cache'.base.highest = player.highest /\ cache'.row.loc \in Nat
    BY <1>1, <2>1, RequestTypes DEF BaselineOf, Rows
  <2> QED
    BY <1>1, <2>1, <2>2 DEF UpToDate, BetterLocation
<1>6. \A q \in Requests : StartInv(q)' /\ ResolveInv(q)' /\ LoginInv(q)'
  BY <1>3 DEF StartInv, ResolveInv, LoginInv, Holding, At
<1>7. LevelFollowsXP' /\ (row' # NoRow => row'.lastTime = row'.startTime + row'.lastIndex)
  BY <1>1 DEF AgreeInv, LevelFollowsXP
<1> QED
  BY <1>3, <1>4, <1>5, <1>6, <1>7 DEF AgreeInv, Active

\* The step that moves the anchor and the player: copies that lag are out of
\* date, and one that does not was of a save of no event.
LEMMA SaveAgrees ==
  ASSUME TypeOK, AnchorInv, OneSession, CopyInv, AgreeInv, NEW r \in Requests, SaveResolve(r)
  PROVE  AgreeInv'
<1> DEFINE n == req[r].n
<1>1. Agrees(r) /\ LevelFollowsXP /\ (row # NoRow => row.lastTime = row.startTime + row.lastIndex)
  BY DEF AgreeInv, Agrees
<1>2. /\ row # NoRow /\ row' \in Rows /\ row'.loc = row.loc /\ row'.startTime = row.startTime
      /\ row'.lastIndex = row.lastIndex + n /\ row'.lastTime = row.lastTime + n
      /\ player' \in Players /\ player'.xp = player.xp + n
      /\ player'.level = LevelForXP(player'.xp) /\ player'.points = SkillPointsForLevel(player'.level)
      /\ player'.highest = IF row.loc > player.highest THEN row.loc ELSE player.highest
      /\ UpToDate(HotAfter(r), row', player') /\ req[r].hot.row.loc = row.loc
      /\ req[r].hot.row.lastIndex = row.lastIndex /\ req[r].hot.row.lastTime = row.lastTime
  BY <1>1, GuardedSave
<1>3. /\ At(r, "save") /\ UNCHANGED <<now, cache>> /\ req'[r].pc = "cacheAfter" /\ Carries(r)
  BY GotoCarries DEF SaveResolve, Labels
<1>4. req'[r].hot = req[r].hot /\ req'[r].n = n /\ req'[r].op = req[r].op
  BY <1>3 DEF Carries
<1>5. n \in Nat /\ row \in Rows /\ player \in Players
  BY RequestTypes DEF TypeOK
<1>6. /\ row.lastIndex \in Nat /\ row.lastTime \in Nat /\ row.startTime \in Nat /\ row.loc \in Nat
      /\ player.xp \in Nat /\ player.highest \in Nat
      /\ player.level = LevelForXP(player.xp)
  BY <1>1, <1>5 DEF Rows, Players, LevelFollowsXP
<1> HIDE DEF n
\* A copy that the anchor has passed agrees vacuously.
<1>7. ASSUME NEW hot \in HotSessions, hot.row.lastIndex <= row.lastIndex, hot.row.loc = row.loc,
             UpToDate(hot, row, player)
      PROVE  UpToDate(hot, row', player')
  <2> SUFFICES ASSUME hot.row.lastIndex = row'.lastIndex
               PROVE  /\ hot.base.xp = player'.xp /\ hot.base.level = player'.level
                      /\ hot.base.highest <= player'.highest
                      /\ player'.highest <= IF BetterLocation(hot) THEN hot.row.loc ELSE hot.base.highest
    BY DEF UpToDate
  <2>1. n = 0
    BY <1>2, <1>5, <1>6, <1>7
  <2>2. /\ hot.base.xp = player.xp /\ hot.base.level = player.level
        /\ hot.base.highest <= player.highest
        /\ player.highest <= IF BetterLocation(hot) THEN hot.row.loc ELSE hot.base.highest
    BY <1>2, <1>6, <1>7, <2>1 DEF UpToDate
  <2>3. player'.xp = player.xp /\ player'.level = player.level
    BY <1>2, <1>6, <2>1
  <2>4. hot.base.highest \in Nat
    BY DEF HotSessions, Baselines
  <2>5. /\ hot.base.highest <= player'.highest
        /\ player'.highest <= IF BetterLocation(hot) THEN hot.row.loc ELSE hot.base.highest
    <3>1. CASE BetterLocation(hot)
      BY <1>2, <1>6, <1>7, <2>2, <2>4, <3>1 DEF BetterLocation
    <3>2. CASE ~BetterLocation(hot)
      BY <1>2, <1>6, <1>7, <2>2, <2>4, <3>2 DEF BetterLocation
    <3> QED
      BY <3>1, <3>2
  <2> QED
    BY <2>2, <2>3, <2>5
<1>8. ASSUME NEW q \in Requests \ {r}
      PROVE  Agrees(q)'
  <2>1. req'[q] = req[q] /\ Agrees(q) /\ ~At(q, "cacheStart") /\ ~At(q, "startSession")
    BY <1>3, StartAlone DEF Carries, AgreeInv, Agrees, Active, At
  <2>2. StartInv(q)'
    BY <2>1 DEF StartInv, At
  <2>3. req[q].pc \notin {"readPlayer", "applyReward"}
    BY <1>2, <2>1 DEF Agrees, LoginInv
  <2>4. LoginInv(q)'
    BY <2>1, <2>3 DEF Agrees, LoginInv, At
  <2>5. ASSUME req[q].pc \in Holding
        PROVE  /\ CopyOf(req[q].hot.row, row') /\ req[q].hot.row.loc = row.loc
               /\ Anchor(q) <= row.lastIndex
    <3>1. CopyOf(req[q].hot.row, row) /\ req[q].hot.row.seed = row.seed
      BY <1>2, <2>1, <2>5 DEF Agrees, ResolveInv, OneSession
    <3>2. Anchor(q) <= row.lastIndex
      BY <2>5, <3>1 DEF CopyInv
    <3> QED
      BY <1>2, <3>1, <3>2 DEF CopyOf
  <2>6. ASSUME req[q].pc \in {"fill", "resolve", "save"}
        PROVE  UpToDate(req[q].hot, row', player')
    <3>1. UpToDate(req[q].hot, row, player) /\ req[q].hot \in HotSessions
      BY <1>2, <2>1, <2>6, RequestTypes DEF Agrees, ResolveInv
    <3>2. Anchor(q) = req[q].hot.row.lastIndex /\ req[q].pc \in Holding
      BY <2>6, RequestTypes DEF Anchor, At, Holding, Rows
    <3> QED
      BY <1>7, <2>5, <3>1, <3>2
  <2>7. ASSUME At(q, "cacheAfter")
        PROVE  UpToDate(HotAfter(q), row', player')
    <3>1. UpToDate(HotAfter(q), row, player) /\ req[q].pc \in Holding
      BY <1>2, <2>1, <2>7 DEF Agrees, ResolveInv, At, Holding
    <3>2. /\ HotAfter(q) \in HotSessions /\ HotAfter(q).row.lastIndex = Anchor(q)
          /\ HotAfter(q).row.loc = req[q].hot.row.loc
      BY <2>7, RequestTypes, AfterType, AfterFields, BaselineAfterType DEF HotAfter, Anchor, HotSessions
    <3> QED
      BY <1>7, <2>5, <3>1, <3>2
  <2>8. HotAfter(q)' = HotAfter(q)
    BY <2>1 DEF HotAfter
  <2>9. At(q, "save") => \E ff \in FastForwards : req[q].n <= Resolved(req[q].hot.row, ff)'
    BY <1>3, <2>1 DEF Agrees, ResolveInv, Resolved
  <2>10. ResolveInv(q)'
    BY <2>1, <2>5, <2>6, <2>7, <2>8, <2>9 DEF ResolveInv, At
  <2> QED
    BY <2>2, <2>4, <2>10 DEF Agrees
<1>9. Agrees(r)'
  <2>1. CopyOf(req'[r].hot.row, row')
    BY <1>1, <1>2, <1>3, <1>4 DEF Agrees, ResolveInv, CopyOf, At, Holding
  <2>2. HotAfter(r)' = HotAfter(r)
    BY <1>4 DEF HotAfter, n
  <2>3. ResolveInv(r)'
    BY <1>2, <1>3, <2>1, <2>2 DEF ResolveInv, At, Holding
  <2> QED
    BY <1>3, <2>3 DEF Agrees, StartInv, LoginInv, At
<1>10. cache' # NoHot => CopyOf(cache'.row, row') /\ UpToDate(cache', row', player')
  <2> SUFFICES ASSUME cache # NoHot
               PROVE  CopyOf(cache.row, row') /\ UpToDate(cache, row', player')
    BY <1>3
  <2>1. \A q \in Requests : ~At(q, "cacheStart")
    BY <1>3, StartAlone DEF At, Active
  <2>2. CopyOf(cache.row, row) /\ UpToDate(cache, row, player) /\ cache.row.seed = row.seed
    BY <1>2, <2>1 DEF AgreeInv, OneSession
  <2>3. cache.row.lastIndex <= row.lastIndex /\ cache.row.loc = row.loc /\ cache \in HotSessions
    BY <2>2 DEF CopyInv, CacheNeverLeads, CopyOf, TypeOK
  <2> QED
    BY <1>2, <1>7, <2>2, <2>3 DEF CopyOf
<1>11. row'.lastTime = row'.startTime + row'.lastIndex
  BY <1>1, <1>2, <1>5, <1>6
<1>12. ASSUME NEW p \in Requests, NEW q \in Requests, Active(p)', req'[p].op = "login",
              Active(q)', req'[q].op = "login"
       PROVE  p = q
  BY <1>3, <1>4, <1>12 DEF AgreeInv, Active, At, Carries
<1>13. LevelFollowsXP'
  BY <1>2 DEF LevelFollowsXP
<1> QED
  BY <1>8, <1>9, <1>10, <1>11, <1>12, <1>13 DEF AgreeInv, Agrees
\* The login is the only one, and there is no session.
LEMMA RewardAgrees ==
  ASSUME TypeOK, AnchorInv, OneSession, AgreeInv, NEW r \in Requests, ApplyOfflineReward(r)
  PROVE  /\ AgreeInv'
         /\ row = NoRow /\ row' = row /\ now' = now
         /\ player.logout # NoLogout /\ req[r].n \in 1 .. OfflineCap
         /\ player' = [player EXCEPT !.xp = @ + req[r].n, !.level = LevelForXP(player.xp + req[r].n),
                                     !.points = SkillPointsForLevel(LevelForXP(player.xp + req[r].n)),
                                     !.logout = NoLogout]
<1> DEFINE n == req[r].n
           level == LevelForXP(player.xp + n)
           points == player.points + AddedPoints(player.level, level)
           xp == player.xp + n
<1>1. /\ At(r, "applyReward") /\ UNCHANGED <<now, row, cache>>
      /\ req'[r].pc = "uncacheReward" /\ Carries(r)
  BY GotoCarries DEF ApplyOfflineReward, Labels
<1>2. LoginInv(r) /\ LevelFollowsXP
  BY DEF AgreeInv
<1>3. /\ row = NoRow /\ req[r].hot.base = BaselineOf(player) /\ n \in 1 .. OfflineCap
      /\ player.logout # NoLogout /\ req[r].op = "login"
  BY <1>1, <1>2 DEF LoginInv, At
<1>4. n \in Nat /\ player \in Players /\ player.xp \in Nat /\ player.level = LevelForXP(player.xp)
      /\ player.points = SkillPointsForLevel(player.level)
  BY <1>2, RequestTypes DEF TypeOK, Players, LevelFollowsXP
<1>5. req[r].hot.base.xp = player.xp /\ req[r].hot.base.level = player.level
  BY <1>3 DEF BaselineOf
<1>6. player' = [player EXCEPT !.xp = xp, !.level = level, !.points = points, !.logout = NoLogout]
  <2>1. player' = [player EXCEPT !.xp = @ + req[r].n, !.level = LevelForXP(req[r].hot.base.xp + req[r].n),
                    !.points = @ + AddedPoints(req[r].hot.base.level, LevelForXP(req[r].hot.base.xp + req[r].n)),
                    !.logout = NoLogout]
    BY DEF ApplyOfflineReward
  <2> QED
    BY <1>5, <2>1
<1>7. points = SkillPointsForLevel(level)
  <2> HIDE DEF n
  <2> QED
    BY <1>4, PointsAdd
<1>8. player'.xp = xp /\ player'.level = level /\ player'.points = points
  <2> HIDE DEF xp, level, points
  <2> QED
    BY <1>4, <1>6 DEF Players
<1>9. LevelFollowsXP'
  BY <1>7, <1>8 DEF LevelFollowsXP
<1>10. ASSUME NEW q \in Requests \ {r}
       PROVE  StartInv(q)' /\ ResolveInv(q)' /\ LoginInv(q)'
  <2>1. /\ req'[q] = req[q] /\ StartInv(q) /\ ResolveInv(q) /\ LoginInv(q)
        /\ ~At(q, "cacheStart") /\ ~At(q, "startSession")
    BY <1>1, StartAlone DEF Carries, AgreeInv, Active, At
  <2>2. ~(Active(q) /\ req[q].op = "login")
    BY <1>1, <1>3 DEF AgreeInv, Active, At
  <2>3. StartInv(q)' /\ LoginInv(q)'
    BY <2>1, <2>2 DEF StartInv, LoginInv, At, Active
  <2>4. At(q, "save") => \E ff \in FastForwards : req[q].n <= Resolved(req[q].hot.row, ff)'
    BY <1>1, <2>1 DEF ResolveInv, Resolved
  <2>5. ResolveInv(q)'
    BY <1>1, <1>3, <2>1, <2>4 DEF ResolveInv, At
  <2> QED
    BY <2>3, <2>5
<1>11. StartInv(r)' /\ ResolveInv(r)' /\ LoginInv(r)'
  BY <1>1, <1>3 DEF StartInv, ResolveInv, LoginInv, At, Holding, Carries
<1>12. ASSUME NEW p \in Requests, NEW q \in Requests, Active(p)', req'[p].op = "login",
              Active(q)', req'[q].op = "login"
       PROVE  p = q
  BY <1>1, <1>3, <1>12 DEF AgreeInv, Active, At, Carries
<1>13. AgreeInv'
  BY <1>1, <1>3, <1>9, <1>10, <1>11, <1>12 DEF AgreeInv
<1> QED
  BY <1>1, <1>3, <1>6, <1>7, <1>13

LEMMA StepAgrees ==
  ASSUME TypeOK, AnchorInv, OneSession, CopyInv, AgreeInv, NEW r \in Requests, RequestStep(r)
  PROVE  AgreeInv'
<1> USE DEF store, history
<1>1. RequestInv(r) /\ StartInv(r) /\ ResolveInv(r) /\ LoginInv(r)
  BY DEF AnchorInv, AgreeInv
<1>3. CASE StartSession(r)
  BY <1>3, StartSessionAgrees
<1>4. CASE CacheStart(r)
  BY <1>4, CacheStartAgrees
<1>5. CASE GetSession(r)
  <2>1. Active(r) /\ ~At(r, "cacheStart") /\ UNCHANGED <<now, player, row, cache>>
    BY <1>5 DEF GetSession, At, Active
  <2>2. CASE row = NoRow
    <3>1. Carries(r) /\ req'[r].pc = "idle"
      BY <1>5, <2>2, ReturnCarries DEF GetSession
    <3> QED
      BY <2>1, <3>1, AgreeCarried DEF Holding
  <2>3. CASE row # NoRow
    <3>1. /\ req'[r].pc = "getBaseline" /\ req'[r].hot.row = row /\ req'[r].op = req[r].op
          /\ \A q \in Requests \ {r} : req'[q] = req[q]
      BY <1>5, <2>3, GetSessionEffect
    <3>2. CopyOf(req'[r].hot.row, row')
      BY <2>1, <2>3, <3>1 DEF AgreeInv, CopyOf
    <3>3. Agrees(r)'
      BY <3>1, <3>2 DEF Agrees, StartInv, ResolveInv, LoginInv, At, Holding
    <3> QED
      BY <2>1, <3>1, <3>3, AgreeKept
  <2> QED
    BY <2>2, <2>3
<1>6. CASE GetPlayerBaseline(r)
  <2>1. /\ At(r, "getBaseline") /\ Active(r) /\ ~At(r, "cacheStart") /\ UNCHANGED <<now, player, row, cache>>
    BY <1>6 DEF GetPlayerBaseline, At, Active
  <2>2. /\ req'[r].pc = "fill" /\ req'[r].op = req[r].op
        /\ req'[r].hot.row = req[r].hot.row /\ req'[r].hot.base = BaselineOf(player)
        /\ \A q \in Requests \ {r} : req'[q] = req[q]
    BY <1>6, GetPlayerBaselineEffect
  <2>3. row # NoRow => CopyOf(req'[r].hot.row, row')
    BY <1>1, <2>1, <2>2 DEF ResolveInv, At, Holding
  <2>4. UpToDate(req'[r].hot, row', player')
    <3>1. /\ req'[r].hot.base.xp = player.xp /\ req'[r].hot.base.level = player.level
          /\ req'[r].hot.base.highest = player.highest
      BY <2>2 DEF BaselineOf
    <3>2. player.highest \in Nat /\ req'[r].hot.row.loc \in Nat
      BY <2>2, RequestTypes DEF TypeOK, Players, Rows
    <3> QED
      BY <2>1, <3>1, <3>2 DEF UpToDate, BetterLocation
  <2>5. Agrees(r)'
    BY <2>1, <2>2, <2>3, <2>4 DEF Agrees, StartInv, ResolveInv, LoginInv, At, Holding
  <2> QED
    BY <2>1, <2>2, <2>5, AgreeKept
<1>7. CASE FillCache(r)
  <2>1. /\ At(r, "fill") /\ Active(r) /\ ~At(r, "cacheStart")
        /\ UNCHANGED <<now, player, row>> /\ cache' = req[r].hot
        /\ Carries(r) /\ req'[r].pc = "resolve"
    BY <1>7, GotoCarries DEF FillCache, At, Active, Labels
  <2>2. row # NoRow => CopyOf(cache'.row, row) /\ UpToDate(cache', row, player)
    BY <1>1, <2>1 DEF ResolveInv, At, Holding
  <2> QED
    BY <2>1, <2>2, AgreeCarried
<1>8. ASSUME NEW ff \in FastForwards, Resolve(r, ff)
      PROVE  AgreeInv'
  <2>1. /\ At(r, "resolve") /\ Active(r) /\ ~At(r, "cacheStart") /\ UNCHANGED <<now, player, row, cache>>
        /\ \A q \in Requests \ {r} : req'[q] = req[q]
    BY <1>8, ResolveEffect DEF Resolve, At, Active
  <2>2. CASE req'[r].pc = "idle" /\ req'[r].op = "none"
    <3>1. Agrees(r)'
      BY <2>2 DEF Agrees, StartInv, ResolveInv, LoginInv, At, Holding
    <3> QED
      BY <2>1, <2>2, <3>1, AgreeKept
  <2>3. CASE /\ req'[r].pc = "save" /\ req'[r].op = req[r].op /\ req'[r].hot = req[r].hot
             /\ req'[r].n = Resolved(req[r].hot.row, ff)
    <3>1. Resolved(req[r].hot.row, ff)' = Resolved(req[r].hot.row, ff)
      BY <2>1, <2>3 DEF Resolved
    <3>2. req'[r].n <= Resolved(req[r].hot.row, ff)'
      BY <2>3, <3>1, RequestTypes, ResolvedType DEF TypeOK
    <3>3. row # NoRow => CopyOf(req'[r].hot.row, row') /\ UpToDate(req'[r].hot, row', player')
      BY <1>1, <2>1, <2>3 DEF ResolveInv, At, Holding
    <3>4. Agrees(r)'
      BY <2>1, <2>3, <3>2, <3>3 DEF Agrees, StartInv, ResolveInv, LoginInv, At, Holding
    <3> QED
      BY <2>1, <2>3, <3>4, AgreeKept
  <2> QED
    BY <1>8, <2>2, <2>3, ResolveEffect
<1>9. CASE SaveResolve(r)
  BY <1>9, SaveAgrees
<1>10. CASE StaleClaim(r)
  <2>1. /\ Active(r) /\ ~At(r, "cacheStart") /\ UNCHANGED <<now, player, row, cache>>
        /\ Carries(r) /\ req'[r].pc = "cacheDel"
    BY <1>10, GotoCarries DEF StaleClaim, At, Active, Labels
  <2> QED
    BY <2>1, AgreeCarried DEF Holding
<1>11. CASE CacheAfter(r)
  <2>1. /\ At(r, "cacheAfter") /\ Active(r) /\ ~At(r, "cacheStart")
        /\ UNCHANGED <<now, player, row>> /\ cache' = HotAfter(r)
        /\ Carries(r) /\ req'[r].pc \in {"idle", "deleteSession"}
    BY <1>11, FinishCarries DEF CacheAfter, HotAfter, At, Active
  <2>2. ASSUME row # NoRow
        PROVE  CopyOf(cache'.row, row) /\ UpToDate(cache', row, player)
    <3>1. CopyOf(req[r].hot.row, row) /\ UpToDate(HotAfter(r), row, player)
      BY <1>1, <2>1, <2>2 DEF ResolveInv, At, Holding
    <3>2. CopyOf(HotAfter(r).row, row)
      <4> DEFINE a == After(req[r].hot.row, req[r].n)
      <4>1. /\ a.loc = req[r].hot.row.loc /\ a.startTime = req[r].hot.row.startTime
            /\ a.lastIndex = req[r].hot.row.lastIndex + req[r].n
            /\ a.lastTime = req[r].hot.row.lastTime + req[r].n
        BY RequestTypes, AfterFields
      <4>2. /\ req[r].n \in Nat /\ req[r].hot.row.lastIndex \in Nat
            /\ req[r].hot.row.lastTime \in Nat /\ req[r].hot.row.startTime \in Nat
        BY RequestTypes DEF Rows
      <4>3. HotAfter(r).row = a
        BY DEF HotAfter
      <4> HIDE DEF a
      <4> QED
        BY <3>1, <4>1, <4>2, <4>3 DEF CopyOf
    <3> QED
      BY <2>1, <3>1, <3>2
  <2> QED
    BY <2>1, <2>2, AgreeCarried DEF Holding
<1>12. CASE CacheDelStale(r)
  <2>1. /\ Active(r) /\ ~At(r, "cacheStart") /\ UNCHANGED <<now, player, row>> /\ cache' = NoHot
        /\ Carries(r) /\ req'[r].pc \in {"idle", "deleteSession"}
    BY <1>12, FinishCarries DEF CacheDelStale, At, Active
  <2> QED
    BY <2>1, AgreeCarried DEF Holding
<1>13. CASE DeleteSession(r)
  <2>1. /\ Active(r) /\ ~At(r, "cacheStart") /\ UNCHANGED <<now, player, cache>> /\ row' = NoRow
        /\ Carries(r) /\ req'[r].pc = "uncache"
    BY <1>13, GotoCarries DEF DeleteSession, At, Active, Labels
  <2> QED
    BY <2>1, AgreeCarried DEF Holding
<1>14. CASE CacheDelStop(r)
  <2>1. /\ Active(r) /\ ~At(r, "cacheStart") /\ UNCHANGED <<now, player, row>> /\ cache' = NoHot
        /\ Carries(r) /\ req'[r].pc = "touchLogout"
    BY <1>14, GotoCarries DEF CacheDelStop, At, Active, Labels
  <2> QED
    BY <2>1, AgreeCarried DEF Holding
<1>15. CASE TouchLogout(r)
  <2>1. /\ Active(r) /\ ~At(r, "cacheStart") /\ UNCHANGED <<now, row, cache>>
        /\ player' = [player EXCEPT !.logout = now]
        /\ Carries(r) /\ req'[r].pc = "idle"
    BY <1>15, ReturnCarries DEF TouchLogout, At, Active
  <2>2. /\ BaselineOf(player') = BaselineOf(player) /\ player'.logout # NoLogout
        /\ player'.points = player.points
    BY <2>1 DEF TypeOK, Players, BaselineOf, NoLogout
  <2> QED
    BY <2>1, <2>2, AgreeCarried DEF Holding
<1>16. CASE CheckSession(r)
  <2>1. /\ At(r, "checkSession") /\ Active(r) /\ ~At(r, "cacheStart") /\ UNCHANGED <<now, player, row, cache>>
        /\ Carries(r) /\ req'[r].pc \in {"idle", "readPlayer"}
        /\ req'[r].pc = "readPlayer" => row = NoRow
    BY <1>16, ReturnCarries, GotoCarries DEF CheckSession, At, Active, Labels
  <2> QED
    BY <2>1, AgreeCarried DEF Holding
<1>17. CASE ReadPlayer(r)
  <2>1. /\ At(r, "readPlayer") /\ Active(r) /\ ~At(r, "cacheStart") /\ UNCHANGED <<now, player, row, cache>>
        /\ \A q \in Requests \ {r} : req'[q] = req[q]
    BY <1>17, ReadPlayerEffect DEF ReadPlayer, At, Active
  <2>2. row = NoRow /\ req[r].op = "login"
    BY <1>1, <2>1 DEF LoginInv, At
  <2>3. CASE req'[r].pc = "idle" /\ req'[r].op = "none"
    <3>1. Agrees(r)'
      BY <2>3 DEF Agrees, StartInv, ResolveInv, LoginInv, At, Holding
    <3> QED
      BY <2>1, <2>3, <3>1, AgreeKept
  <2>4. CASE /\ req'[r].pc = "applyReward" /\ req'[r].op = req[r].op
             /\ req'[r].hot.base = BaselineOf(player)
             /\ req'[r].n \in 1 .. OfflineCap /\ player.logout # NoLogout
    <3>1. Agrees(r)'
      BY <2>1, <2>2, <2>4 DEF Agrees, StartInv, ResolveInv, LoginInv, At, Holding
    <3> QED
      BY <2>1, <2>4, <3>1, AgreeKept
  <2> QED
    BY <1>17, <2>3, <2>4, ReadPlayerEffect
<1>18. CASE ApplyOfflineReward(r)
  BY <1>18, RewardAgrees
<1>19. CASE CacheDelReward(r)
  <2>1. /\ Active(r) /\ ~At(r, "cacheStart") /\ UNCHANGED <<now, player, row>> /\ cache' = NoHot
        /\ Carries(r) /\ req'[r].pc = "idle"
    BY <1>19, ReturnCarries DEF CacheDelReward, At, Active
  <2> QED
    BY <2>1, AgreeCarried DEF Holding
<1> QED
  BY <1>3, <1>4, <1>5, <1>6, <1>7, <1>8, <1>9, <1>10, <1>11, <1>12, <1>13, <1>14, <1>15,
     <1>16, <1>17, <1>18, <1>19 DEF RequestStep
LEMMA FailureAgrees ==
  ASSUME TypeOK, AnchorInv, OneSession, AgreeInv, NEW r \in Requests, GivesUp(r) \/ RedisFails(r), ~unguarded'
  PROVE  AgreeInv'
<1>1. /\ UNCHANGED <<now, player, row, cache>> /\ Active(r) /\ ~At(r, "cacheStart")
      /\ Carries(r) /\ req'[r].pc \in {"idle", "deleteSession", "touchLogout", "resolve"}
      /\ req'[r].pc = "resolve" => At(r, "fill")
  BY FailureEffect
<1> QED
  BY <1>1, AgreeCarried DEF Holding

LEMMA TickAgrees ==
  ASSUME TypeOK, AgreeInv, Tick
  PROVE  AgreeInv'
<1>1. UNCHANGED <<player, row, cache, req>> /\ now' = now + 1 /\ now \in Nat
  BY DEF Tick, store, TypeOK
<1>2. ASSUME NEW r \in Requests
      PROVE  StartInv(r)' /\ ResolveInv(r)' /\ LoginInv(r)'
  <2>1. StartInv(r) /\ ResolveInv(r) /\ LoginInv(r)
    BY DEF AgreeInv
  <2>2. StartInv(r)'
    BY <1>1, <2>1, RequestTypes DEF StartInv, Rows
  <2>3. ASSUME At(r, "save")
        PROVE  \E ff \in FastForwards : req[r].n <= Resolved(req[r].hot.row, ff)'
    <3>1. PICK ff \in FastForwards : req[r].n <= Resolved(req[r].hot.row, ff)
      BY <2>1, <2>3 DEF ResolveInv
    <3>2. /\ req[r].n \in Nat /\ req[r].hot.row.lastTime \in Nat /\ ff \in Nat
      BY RequestTypes, FastForwardsAssumption DEF Rows
    <3>3. req[r].n <= Resolved(req[r].hot.row, ff)'
      BY <1>1, <3>1, <3>2 DEF Resolved
    <3> QED
      BY <3>3
  <2>4. ResolveInv(r)'
    BY <1>1, <2>1, <2>3 DEF ResolveInv, HotAfter, At
  <2> QED
    BY <1>1, <2>1, <2>2, <2>4 DEF LoginInv, At
<1> QED
  BY <1>1, <1>2 DEF AgreeInv, LevelFollowsXP, Active, At

LEMMA UnguardedStays ==
  ASSUME Moves, unguarded
  PROVE  unguarded'
BY DEF Moves, Still, Tick, CacheLost, GivesUp, RedisFails, Arrival, StartFishing, PreviewFishing,
       ClaimFishing, StopFishing, LoginSteam, BeginResolve, Begin, RequestStep, StartSession, CacheStart,
       GetSession, GetPlayerBaseline, FillCache, Resolve, SaveResolve, StaleClaim, CacheAfter,
       CacheDelStale, DeleteSession, CacheDelStop, TouchLogout, CheckSession, ReadPlayer,
       ApplyOfflineReward, CacheDelReward

LEMMA NextAgrees ==
  ASSUME TypeOK, AnchorInv, CopyInv, ~unguarded => OneSession /\ AgreeInv, Moves
  PROVE  ~unguarded' => AgreeInv'
<1> SUFFICES ASSUME ~unguarded' PROVE AgreeInv'
  OBVIOUS
<1>1. OneSession /\ AgreeInv
  BY UnguardedStays
<1>2. ASSUME UNCHANGED <<now, player, row, req>>, cache' \in {cache, NoHot}
      PROVE  AgreeInv'
  <2>1. ASSUME NEW r \in Requests
        PROVE  StartInv(r)' /\ ResolveInv(r)' /\ LoginInv(r)'
    BY <1>1, <1>2 DEF AgreeInv, StartInv, ResolveInv, LoginInv, Resolved, HotAfter, At
  <2> QED
    BY <1>1, <1>2, <2>1 DEF AgreeInv, LevelFollowsXP, Active, At
<1>3. CASE Tick
  BY <1>1, <1>3, TickAgrees
<1>4. CASE CacheLost
  BY <1>2, <1>4 DEF CacheLost
<1>5. CASE Still
  BY <1>2, <1>5 DEF Still, store
<1> QED
  BY <1>1, <1>3, <1>4, <1>5, ArrivalAgrees, StepAgrees, FailureAgrees DEF Moves

-----------------------------------------------------------------------------
(* The theorems.                                                           *)

Inductive == TypeOK /\ SessionInv /\ AtomicInv

LEMMA InitInductive == Init => Inductive
BY InitType, InitAnchor, InitOneSession, CopyInit, AgreeInit DEF Inductive, SessionInv, AtomicInv

LEMMA MovesInductive == Inductive /\ Moves => Inductive'
BY NextType, NextAnchor, NextOneSession, NextCopy, NextAgrees DEF Inductive, SessionInv, AtomicInv

LEMMA NextInductive == Inductive /\ [Next]_vars => Inductive'
BY NextMoves, MovesInductive DEF Inductive

\* AtomicInv, for every number of requests, sessions, events and failures:
\* what requests hold and Redis has agrees with the row and the player.
THEOREM AtomicInvCorrect == Spec => []AtomicInv
<1>1. Inductive => AtomicInv
  BY DEF Inductive
<1> QED
  BY InitInductive, NextInductive, <1>1, PTL DEF Spec

\* GuardedLevelFollowsXP: level and skill points are those of the XP after any
\* parallel previews, claims, stops and logins that no start overlaps.
THEOREM LevelFollowsXPCorrect == Spec => []GuardedLevelFollowsXP
<1>1. Inductive => GuardedLevelFollowsXP
  BY DEF Inductive, AtomicInv, AgreeInv, GuardedLevelFollowsXP
<1> QED
  BY InitInductive, NextInductive, <1>1, PTL DEF Spec

\* GuardedAtomic, the initial states.
LEMMA InitRefines == Init => Atomic!Init
<1> SUFFICES ASSUME Init PROVE Atomic!Init
  OBVIOUS
<1>1. 0 \div XPPerLevel = 0
  BY XPPerLevelAssumption
<1> QED
  BY <1>1 DEF Init, Atomic!Init

\* A claim pays due events at the level of the player it meets.
LEMMA SaveRefines ==
  ASSUME TypeOK, AnchorInv, OneSession, AgreeInv, NEW r \in Requests, SaveResolve(r)
  PROVE  Atomic!Claim
<1> DEFINE n == req[r].n
<1>1. Agrees(r) /\ LevelFollowsXP /\ (row # NoRow => row.lastTime = row.startTime + row.lastIndex)
  BY DEF AgreeInv, Agrees
<1>2. /\ row # NoRow /\ row' \in Rows /\ row'.seed = row.seed
      /\ row'.loc = row.loc /\ row'.startTime = row.startTime
      /\ row'.lastIndex = row.lastIndex + n /\ row'.lastTime = row.lastTime + n
      /\ req[r].hot.row.lastTime = row.lastTime
      /\ player' \in Players /\ player'.xp = player.xp + n
      /\ player'.level = LevelForXP(player'.xp) /\ player'.points = SkillPointsForLevel(player'.level)
      /\ player'.highest = IF row.loc > player.highest THEN row.loc ELSE player.highest
      /\ player'.logout = player.logout
  BY <1>1, GuardedSave
<1>3. row \in Rows /\ player \in Players /\ n \in Nat /\ now' = now /\ At(r, "save") /\ now \in Nat
  BY RequestTypes DEF SaveResolve, TypeOK
<1>4. PICK ff \in FastForwards : n <= Resolved(req[r].hot.row, ff)
  BY <1>1, <1>3 DEF Agrees, ResolveInv
<1>5. n \in 0 .. Atomic!Ended(ff)
  BY <1>2, <1>3, <1>4, FastForwardsAssumption DEF Resolved, Atomic!Ended, Rows
<1>6. row' = [row EXCEPT !.lastIndex = @ + n, !.lastTime = @ + n]
  <2> DEFINE i == row.lastIndex + n
             t == row.lastTime + n
  <2>1. row'.lastIndex = i /\ row'.lastTime = t
    BY <1>2
  <2> HIDE DEF i, t, n
  <2>2. row' = [row EXCEPT !.lastIndex = i, !.lastTime = t]
    BY <1>2, <1>3, <2>1 DEF Rows
  <2> QED
    BY <2>2 DEF i, t
<1>7. player' = Atomic!Reached(Atomic!Paid(player, n), row.loc)
  <2> DEFINE xp == player.xp + n
             level == xp \div XPPerLevel + 1
             points == xp \div XPPerLevel
             highest == IF row.loc > player.highest THEN row.loc ELSE player.highest
             paid == [player EXCEPT !.xp = xp, !.level = level, !.points = points]
  <2>1. player'.level = level
    BY <1>2 DEF LevelForXP
  <2>2. player'.points = points
    <3>1. player.xp + n \in Nat
      BY <1>3 DEF Players
    <3> HIDE DEF n
    <3>2. SkillPointsForLevel(LevelForXP(player.xp + n)) = (player.xp + n) \div XPPerLevel
      <4>1. \A x \in Nat : SkillPointsForLevel(LevelForXP(x)) = x \div XPPerLevel
        BY PointsAdd
      <4> QED
        BY <3>1, <4>1
    <3> QED
      BY <1>2, <3>2
  <2>3. player'.xp = xp /\ player'.highest = highest /\ player'.logout = player.logout
    BY <1>2
  <2>4. Atomic!Paid(player, n) = paid
    BY DEF Atomic!Paid
  <2>5. Atomic!Reached(paid, row.loc) = [paid EXCEPT !.highest = highest]
    <3>1. paid.highest = player.highest
      <4> HIDE DEF xp, level, points
      <4> QED
        BY <1>3 DEF Players
    <3> HIDE DEF paid
    <3> QED
      BY <3>1 DEF Atomic!Reached
  <2>6. player' = [paid EXCEPT !.highest = highest]
    <3> HIDE DEF xp, level, points, highest
    <3> QED
      BY <1>2, <1>3, <2>1, <2>2, <2>3 DEF Players
  <2> QED
    BY <2>4, <2>5, <2>6
<1> QED
  BY <1>2, <1>3, <1>5, <1>6, <1>7 DEF Atomic!Claim

LEMMA StartRefines ==
  ASSUME TypeOK, AnchorInv, AgreeInv, NEW r \in Requests, StartSession(r)
  PROVE  Atomic!Start
<1> DEFINE new == req[r].hot.row
<1>1. /\ At(r, "startSession") /\ row' = new /\ UNCHANGED <<now, player>> /\ new \in Rows
  BY RequestTypes DEF StartSession
<1>2. new.seed # row.seed
  BY <1>1 DEF AnchorInv, RequestInv, PendingStart
<1>3. /\ new.loc \in Locations /\ new.startTime <= now /\ new.lastTime = new.startTime /\ new.lastIndex = 0
  BY <1>1 DEF AgreeInv, StartInv, At
<1>4. new.startTime \in 0 .. now
  BY <1>1, <1>3 DEF TypeOK, Rows
<1> HIDE DEF new
<1>5. new = [new EXCEPT !.loc = new.loc, !.startTime = new.startTime, !.lastIndex = 0, !.lastTime = new.startTime]
  BY <1>1, <1>3 DEF Rows
<1> QED
  BY <1>1, <1>2, <1>3, <1>4, <1>5 DEF Atomic!Start

LEMMA RewardRefines ==
  ASSUME TypeOK, AnchorInv, OneSession, AgreeInv, NEW r \in Requests, ApplyOfflineReward(r)
  PROVE  Atomic!Reward
<1> DEFINE n == req[r].n
           xp == player.xp + n
           level == LevelForXP(xp)
           points == SkillPointsForLevel(level)
<1>1. /\ row = NoRow /\ row' = row /\ now' = now /\ player.logout # NoLogout /\ n \in 1 .. OfflineCap
      /\ player' = [player EXCEPT !.xp = xp, !.level = level, !.points = points, !.logout = NoLogout]
  BY RewardAgrees
<1>2. xp \in Nat
  BY RequestTypes DEF TypeOK, Players
<1>3. level = xp \div XPPerLevel + 1 /\ points = xp \div XPPerLevel
  <2>1. \A x \in Nat : SkillPointsForLevel(LevelForXP(x)) = x \div XPPerLevel
    BY PointsAdd
  <2> QED
    BY <1>2, <2>1 DEF LevelForXP
<1>4. player' = [Atomic!Paid(player, n) EXCEPT !.logout = NoLogout]
  <2> HIDE DEF level, points
  <2> QED
    BY <1>1, <1>3 DEF Atomic!Paid
<1> QED
  BY <1>1, <1>4 DEF Atomic!Reward

LEMMA StepRefines ==
  ASSUME Inductive, Inductive', Moves
  PROVE  [Atomic!Next]_Atomic!vars
<1> USE DEF store, history
<1>1. CASE unguarded'
  BY <1>1 DEF Atomic!Next
<1>2. CASE ~unguarded'
  <2>1. ~unguarded /\ TypeOK /\ AnchorInv /\ OneSession /\ CopyInv /\ AgreeInv /\ unguarded' \in BOOLEAN
    BY <1>2, UnguardedStays DEF Inductive, SessionInv, AtomicInv, TypeOK
  <2>2. unguarded' = unguarded
    BY <1>2, <2>1 DEF TypeOK
  <2>3. ASSUME UNCHANGED <<now, player, row>>
        PROVE  UNCHANGED Atomic!vars
    BY <2>2, <2>3 DEF Atomic!vars
  <2>4. CASE Tick
    BY <1>2, <2>4 DEF Tick, Atomic!Tick, Atomic!Next
  <2>5. CASE CacheLost
    BY <2>3, <2>5 DEF CacheLost
  <2>6. CASE Still
    BY <2>3, <2>6 DEF Still
  <2>7. ASSUME NEW r \in Requests, Arrival(r)
        PROVE  UNCHANGED Atomic!vars
    BY <2>1, <2>3, <2>7, ArrivalEffect
  <2>8. ASSUME NEW r \in Requests, GivesUp(r) \/ RedisFails(r)
        PROVE  UNCHANGED Atomic!vars
    BY <2>1, <2>3, <2>8, FailureEffect
  <2>9. ASSUME NEW r \in Requests, RequestStep(r)
        PROVE  [Atomic!Next]_Atomic!vars
    <3>1. CASE StartSession(r)
      BY <1>2, <2>1, <3>1, StartRefines DEF Atomic!Next
    <3>2. CASE SaveResolve(r)
      BY <1>2, <2>1, <3>2, SaveRefines DEF Atomic!Next
    <3>3. CASE DeleteSession(r)
      BY <1>2, <3>3 DEF DeleteSession, Atomic!Stop, Atomic!Next
    <3>4. CASE TouchLogout(r)
      BY <1>2, <3>4 DEF TouchLogout, Atomic!Leave, Atomic!Next
    <3>5. CASE ApplyOfflineReward(r)
      BY <1>2, <2>1, <3>5, RewardRefines DEF Atomic!Next
    <3>6. ASSUME ~StartSession(r), ~SaveResolve(r), ~DeleteSession(r), ~TouchLogout(r), ~ApplyOfflineReward(r)
          PROVE  UNCHANGED <<now, player, row>>
      BY <2>9, <3>6 DEF RequestStep, CacheStart, GetSession, GetPlayerBaseline, FillCache, Resolve,
                        StaleClaim, CacheAfter, CacheDelStale, CacheDelStop, CheckSession, ReadPlayer,
                        CacheDelReward
    <3> QED
      BY <2>3, <3>1, <3>2, <3>3, <3>4, <3>5, <3>6
  <2> QED
    BY <2>4, <2>5, <2>6, <2>7, <2>8, <2>9 DEF Moves
<1> QED
  BY <1>1, <1>2

\* GuardedAtomic: until requests overlap in a way the guard on last_index does
\* not detect, the calls of all requests together change the players row and
\* the session as if each request ran alone.
THEOREM AtomicCorrect == Spec => GuardedAtomic
<1>1. Inductive /\ Inductive' /\ [Next]_vars => [Atomic!Next]_Atomic!vars
  BY NextMoves, StepRefines DEF Inductive
<1> QED
  BY InitInductive, NextInductive, InitRefines, <1>1, PTL DEF Spec, GuardedAtomic, Atomic!Spec

\* GuardedHighestNeverBack: the best location is written outright from a
\* baseline that may be old, and yet it never gets worse.
THEOREM HighestNeverBackCorrect == Spec => GuardedHighestNeverBack
<1> DEFINE Kept == ~unguarded' => player'.highest >= player.highest
<1>1. ASSUME Inductive, Moves PROVE Kept
  <2> SUFFICES ASSUME ~unguarded' PROVE player'.highest >= player.highest
    OBVIOUS
  <2>1. TypeOK /\ AnchorInv /\ OneSession /\ AgreeInv /\ player.highest \in Nat
    BY <1>1, UnguardedStays DEF Inductive, SessionInv, AtomicInv, TypeOK, Players
  <2>2. ASSUME NEW r \in Requests, SaveResolve(r) PROVE player'.highest >= player.highest
    <3>1. row.loc \in Nat /\ player'.highest = IF row.loc > player.highest THEN row.loc ELSE player.highest
      BY <2>1, <2>2, GuardedSave DEF AgreeInv, Agrees, TypeOK, Rows
    <3> QED
      BY <2>1, <3>1
  <2>3. ASSUME NEW r \in Requests, TouchLogout(r) \/ ApplyOfflineReward(r) PROVE player'.highest = player.highest
    <3>1. CASE TouchLogout(r)
      BY <2>1, <3>1 DEF TouchLogout, TypeOK, Players
    <3>2. CASE ApplyOfflineReward(r)
      <4> DEFINE xp == player.xp + req[r].n
                 level == LevelForXP(req[r].hot.base.xp + req[r].n)
                 points == player.points + AddedPoints(req[r].hot.base.level, level)
      <4>1. player' = [player EXCEPT !.xp = xp, !.level = level, !.points = points, !.logout = NoLogout]
        BY <3>2 DEF ApplyOfflineReward
      <4> HIDE DEF xp, level, points
      <4> QED
        BY <2>1, <4>1 DEF TypeOK, Players
    <3> QED
      BY <2>3, <3>1, <3>2
  <2>4. ASSUME NEW r \in Requests, RequestStep(r), ~SaveResolve(r), ~TouchLogout(r), ~ApplyOfflineReward(r)
        PROVE  player' = player
    BY <2>4 DEF RequestStep, StartSession, CacheStart, GetSession, GetPlayerBaseline, FillCache, Resolve,
                StaleClaim, CacheAfter, CacheDelStale, DeleteSession, CacheDelStop, CheckSession, ReadPlayer,
                CacheDelReward, store
  <2>5. ASSUME NEW r \in Requests, Arrival(r) \/ GivesUp(r) \/ RedisFails(r)
        PROVE  player' = player
    BY <2>1, <2>5, ArrivalEffect, FailureEffect
  <2>6. Tick \/ CacheLost \/ Still => player' = player
    BY DEF Tick, CacheLost, Still, store
  <2> QED
    BY <1>1, <2>1, <2>2, <2>3, <2>4, <2>5, <2>6 DEF Moves
<1>2. ASSUME Inductive, [Next]_vars PROVE [Kept]_vars
  BY <1>1, <1>2, NextMoves DEF Inductive
<1> QED
  BY InitInductive, NextInductive, <1>2, PTL DEF Spec, GuardedHighestNeverBack
=============================================================================
