----------------------------- MODULE Stream_proofs -----------------------------
(***************************************************************************)
(* Proofs about Stream.  Every step of the stream is a step of the session,*)
(* so what FishingSession_proofs and AtomicSession_proofs prove of requests*)
(* holds next to a stream; then what the connection is sent.               *)
(***************************************************************************)
EXTENDS Stream, AtomicSession_proofs

-----------------------------------------------------------------------------
(* The steps of the session.                                               *)

\* The goroutine of the stream is one more request: each of its steps is a
\* step of FishingSession or leaves the session alone.
LEMMA StreamMoves ==
  ASSUME TypeOK, [StreamNext]_allVars
  PROVE  Moves
<1> USE WatcherAssumption
<1>1. ASSUME UNCHANGED vars PROVE Moves
  BY <1>1 DEF Moves, Still, vars, store, history, TypeOK
<1>2. CASE OthersStep
  BY <1>2 DEF OthersStep, Others, Moves, Abort, Fault, TypeOK
<1>3. CASE Connect \/ Disconnect \/ WriteFrames \/ FailsOnClosed \/ ClaimOnClosed
  BY <1>1, <1>3 DEF Connect, Disconnect, WriteFrames, FailsOnClosed, ClaimOnClosed
<1>4. CASE TickPreview \/ ClaimOnTick \/ FinalClaim
  BY <1>4 DEF TickPreview, ClaimOnTick, FinalClaim, Arrival, Moves
<1>5. CASE PreviewReads \/ PreviewResolves \/ ClaimProceeds
  BY <1>5 DEF PreviewReads, PreviewResolves, ClaimProceeds, ClaimCall, RequestStep, Moves
<1>6. CASE Cancelled
  BY <1>6 DEF Cancelled, Moves, TypeOK
<1>7. CASE StreamFails
  BY <1>7 DEF StreamFails, Abort, Fault, Moves, Still, TypeOK
<1>8. CASE UNCHANGED allVars
  BY <1>1, <1>8 DEF allVars
<1> QED
  BY <1>2, <1>3, <1>4, <1>5, <1>6, <1>7, <1>8 DEF StreamNext, StreamStep

\* The inductive invariant of AtomicSession_proofs is kept next to a stream.
LEMMA StreamInductive == Inductive /\ [StreamNext]_allVars => Inductive'
BY StreamMoves, MovesInductive DEF Inductive

\* What is proved of the requests holds next to a stream: credits tile the
\* anchor, and no event is credited twice unless a start overlapped a request.
THEOREM StreamCreditsTile == StreamSpec => []CreditsTileTheAnchor
<1>1. StreamInit => Inductive
  BY InitInductive DEF StreamInit
<1>2. Inductive => CreditsTileTheAnchor
  BY DEF Inductive, SessionInv, AnchorInv, RowInv
<1> QED
  BY <1>1, <1>2, StreamInductive, PTL DEF StreamSpec

\* GuardedAtomic next to a stream: what a watching player is credited and shown
\* comes from a session that changes as if the stream's claims ran alone.
THEOREM StreamAtomic == StreamSpec => GuardedAtomic
<1>1. StreamInit => Inductive /\ Atomic!Init
  BY InitInductive, InitRefines DEF StreamInit
<1>2. Inductive /\ Inductive' /\ [StreamNext]_allVars => [Atomic!Next]_Atomic!vars
  BY StreamMoves, StepRefines DEF Inductive
<1> QED
  BY <1>1, <1>2, StreamInductive, PTL DEF StreamSpec, GuardedAtomic, Atomic!Spec

-----------------------------------------------------------------------------
(* CopyPaid: below the anchor of a copy everything was paid.               *)

\* A credit is never taken back.
LEMMA LedgerGrows ==
  ASSUME TypeOK, AnchorInv, Moves
  PROVE  \A s \in Seeds, i \in Events : Credited(s, i) => Credited(s, i)'
<1> SUFFICES ASSUME NEW s \in Seeds, NEW i \in Events, NEW q \in Seeds, ledger[q][s][i] > 0
             PROVE  ledger'[q][s][i] > 0
  BY DEF Credited
<1>1. ledger[q][s][i] \in Nat
  BY DEF TypeOK
<1>2. ASSUME NEW r \in Requests, SaveResolve(r) PROVE ledger'[q][s][i] > 0
  <2>1. ledger'[q][s][i] \in {ledger[q][s][i], ledger[q][s][i] + 1}
    BY <1>2, SaveEffect
  <2> QED
    BY <1>1, <2>1
<1>3. ledger' = ledger \/ \E r \in Requests : SaveResolve(r)
  BY DEF Moves, Still, Tick, CacheLost, GivesUp, RedisFails, Arrival, StartFishing, PreviewFishing,
         ClaimFishing, StopFishing, LoginSteam, BeginResolve, Begin, RequestStep, StartSession, CacheStart,
         GetSession, GetPlayerBaseline, FillCache, Resolve, StaleClaim, CacheAfter,
         CacheDelStale, DeleteSession, CacheDelStop, TouchLogout, CheckSession, ReadPlayer,
         ApplyOfflineReward, CacheDelReward, history
<1> QED
  BY <1>2, <1>3

PaidLabels == Holding \union {"startSession", "cacheStart"}

\* A step of r keeps CopyPaid if what r holds and what it caches were paid.
LEMMA PaidKept ==
  ASSUME TypeOK, AnchorInv, CopyPaid, NEW r \in Requests,
         \A s \in Seeds, i \in Events : Credited(s, i) => Credited(s, i)',
         \A q \in Requests \ {r} : req'[q] = req[q],
         req'[r].pc \in PaidLabels => PaidBelow(req[r].hot.row.seed, Anchor(r))',
         cache' \in {cache, NoHot} \/ PaidBelow(cache.row.seed, cache.row.lastIndex)'
  PROVE  CopyPaid'
<1>1. PaidBelow(cache.row.seed, cache.row.lastIndex)'
  <2>1. CASE cache' = NoHot
    BY <2>1 DEF PaidBelow, NoHot, NoRow, Events
  <2>2. CASE cache' = cache /\ cache # NoHot
    BY <2>2, SeedTypes DEF CopyPaid, PaidBelow, Credited
  <2> QED
    BY <2>1, <2>2
<1>2. ASSUME NEW q \in Requests \ {r}, req'[q].pc \in PaidLabels
      PROVE  PaidBelow(req[q].hot.row.seed, Anchor(q))'
  <2>1. req'[q] = req[q] /\ Anchor(q)' = Anchor(q)
    BY <1>2 DEF Anchor, At
  <2>2. req[q].hot.row.seed \in Seeds
    <3>1. starts \in Nat /\ MaxStarts \in Nat /\ starts <= MaxStarts
      BY BoundsAssumption DEF TypeOK
    <3> QED
      BY <1>2, <2>1, <3>1, SeedTypes DEF PaidLabels, Copied, At, Seeds
  <2>3. PaidBelow(req[q].hot.row.seed, Anchor(q))
    BY <1>2, <2>1 DEF CopyPaid, PaidLabels
  <2> QED
    BY <2>1, <2>2, <2>3 DEF PaidBelow, Credited
<1> QED
  BY <1>1, <1>2 DEF CopyPaid, PaidLabels

\* What the session row says was paid, while every credit of a row is for the
\* session of that row.
LEMMA RowPaid ==
  ASSUME TypeOK, AnchorInv, OneSession, row # NoRow
  PROVE  PaidBelow(row.seed, row.lastIndex)
<1> SUFFICES ASSUME NEW i \in Events, i < row.lastIndex PROVE Credited(row.seed, i)
  BY DEF PaidBelow
<1>1. row.seed \in Seeds
  BY BoundsAssumption DEF AnchorInv, RowInv, TypeOK, Seeds
<1>2. PICK s \in Seeds : ledger[row.seed][s][i] = 1
  BY DEF AnchorInv, RowInv, CreditsTileTheAnchor, PaidOnce
<1>3. s = row.seed
  BY <1>1, <1>2 DEF OneSession, OwnCredits
<1> QED
  BY <1>1, <1>2, <1>3 DEF Credited

\* A request that goes on with what it holds, or ends.
LEMMA PaidCarried ==
  ASSUME TypeOK, AnchorInv, CopyPaid, NEW r \in Requests, Carries(r),
         \A s \in Seeds, i \in Events : Credited(s, i) => Credited(s, i)',
         req'[r].pc \in PaidLabels => req[r].pc \in PaidLabels /\ ~At(r, "cacheAfter")',
         cache' \in {cache, NoHot} \/
           (req[r].pc \in PaidLabels /\ ~At(r, "cacheAfter") /\ cache' = req[r].hot)
  PROVE  CopyPaid'
<1>1. ASSUME req[r].pc \in PaidLabels
      PROVE  /\ req[r].hot.row.seed \in Seeds /\ PaidBelow(req[r].hot.row.seed, Anchor(r))
             /\ Anchor(r) \in Nat /\ req[r].hot.row.lastIndex \in Nat
             /\ req[r].hot.row.lastIndex <= Anchor(r)
  <2>1. starts \in Nat /\ MaxStarts \in Nat /\ starts <= MaxStarts
    BY BoundsAssumption DEF TypeOK
  <2>2. req[r].hot.row.seed \in Seeds
    BY <1>1, <2>1, SeedTypes DEF PaidLabels, Copied, At, Seeds
  <2>3. PaidBelow(req[r].hot.row.seed, Anchor(r))
    BY <1>1 DEF CopyPaid, PaidLabels
  <2>4. req[r].hot.row.lastIndex \in Nat /\ req[r].n \in Nat
    BY RequestTypes DEF Rows
  <2>5. Anchor(r) \in Nat /\ req[r].hot.row.lastIndex <= Anchor(r)
    BY <2>4 DEF Anchor
  <2> QED
    BY <2>2, <2>3, <2>4, <2>5
<1>2. ASSUME req[r].pc \in PaidLabels, NEW i \in Events, i < req[r].hot.row.lastIndex
      PROVE  Credited(req[r].hot.row.seed, i) /\ \E q \in Seeds : ledger'[q][req[r].hot.row.seed][i] > 0
  <2>1. i < Anchor(r)
    BY <1>1, <1>2, BoundsAssumption DEF Events
  <2>2. Credited(req[r].hot.row.seed, i)
    BY <1>1, <1>2, <2>1 DEF PaidBelow
  <2>3. ASSUME NEW s \in Seeds, Credited(s, i) PROVE \E q \in Seeds : ledger'[q][s][i] > 0
    BY <2>3 DEF Credited
  <2> QED
    BY <1>1, <1>2, <2>2, <2>3
<1>3. ASSUME req'[r].pc \in PaidLabels
      PROVE  PaidBelow(req[r].hot.row.seed, Anchor(r))'
  <2>1. req'[r].hot = req[r].hot /\ req[r].pc \in PaidLabels
    BY <1>3 DEF Carries, PaidLabels, Holding
  <2>2. Anchor(r)' = req[r].hot.row.lastIndex
    BY <1>1, <1>3, <2>1 DEF Anchor, At
  <2> QED
    BY <1>2, <2>1, <2>2 DEF PaidBelow, Credited
<1>4. ASSUME cache' \notin {cache, NoHot}
      PROVE  PaidBelow(cache.row.seed, cache.row.lastIndex)'
  BY <1>2, <1>4 DEF PaidBelow, Credited
<1>5. \A q \in Requests \ {r} : req'[q] = req[q]
  BY DEF Carries
<1> QED
  BY <1>3, <1>4, <1>5, PaidKept

\* A request that arrives copies what the cache holds.
LEMMA ArrivalPaid ==
  ASSUME TypeOK, AnchorInv, CopyPaid, NEW r \in Requests, Arrival(r),
         \A s \in Seeds, i \in Events : Credited(s, i) => Credited(s, i)'
  PROVE  CopyPaid'
<1>1. cache' = cache /\ \A q \in Requests \ {r} : req'[q] = req[q]
  BY ArrivalEffect
<1>2. CASE req'[r].pc \in {"getSession", "checkSession"}
  BY <1>1, <1>2, PaidKept DEF PaidLabels, Holding
<1>3. CASE req'[r].pc = "resolve" /\ req'[r].hot = cache /\ cache # NoHot
  <2>1. Anchor(r)' = cache.row.lastIndex
    BY <1>3 DEF Anchor, At, TypeOK, HotSessions, Rows
  <2>2. cache.row.seed \in Seeds /\ PaidBelow(cache.row.seed, cache.row.lastIndex)
    BY <1>3, SeedTypes DEF CopyPaid
  <2>3. PaidBelow(req[r].hot.row.seed, Anchor(r))'
    BY <1>3, <2>1, <2>2 DEF PaidBelow, Credited
  <2> QED
    BY <1>1, <2>3, PaidKept
<1>4. CASE req'[r].pc = "startSession" /\ req'[r].hot.row.lastIndex = 0
  <2>1. Anchor(r)' = 0
    BY <1>4 DEF Anchor, At
  <2>2. PaidBelow(req[r].hot.row.seed, Anchor(r))'
    BY <2>1 DEF PaidBelow, Events
  <2> QED
    BY <1>1, <2>2, PaidKept
<1>5. ASSUME NEW loc, req'[r].hot.row = [seed |-> starts + 1, loc |-> loc, startTime |-> now,
                                         lastIndex |-> 0, lastTime |-> now]
      PROVE  req'[r].hot.row.lastIndex = 0
  BY <1>5
<1> QED
  BY <1>2, <1>3, <1>4, <1>5, ArrivalEffect

\* The events that a save credits are those of the session it resolved.
LEMMA SavePaid ==
  ASSUME TypeOK, AnchorInv, CopyPaid, NEW r \in Requests, SaveResolve(r),
         \A s \in Seeds, i \in Events : Credited(s, i) => Credited(s, i)'
  PROVE  PaidBelow(req[r].hot.row.seed, Anchor(r))'
<1> DEFINE s == req[r].hot.row.seed
           a == req[r].hot.row.lastIndex
           n == req[r].n
<1>1. At(r, "save") /\ req'[r].pc = "cacheAfter" /\ req'[r].hot = req[r].hot /\ req'[r].n = n
  BY GotoEffect DEF SaveResolve, Labels
<1>2. Anchor(r)' = a + n
  BY <1>1 DEF Anchor, At
<1>3. a \in Nat /\ n \in Nat /\ s \in Seeds /\ row.seed \in Seeds /\ Anchor(r) = a
  <2>1. a \in Nat /\ n \in Nat
    BY RequestTypes DEF Rows
  <2> QED
    BY <1>1, <2>1, SaveEffect DEF Anchor, At
<1>4. row'.lastIndex = a + n /\ row.lastIndex = a
  BY SaveEffect
<1>5. PaidBelow(s, a)
  <2>1. PaidBelow(req[r].hot.row.seed, Anchor(r))
    BY <1>1 DEF CopyPaid, Holding, At
  <2> QED
    BY <1>3, <2>1
<1>6. ASSUME NEW i \in Events, i < a + n PROVE \E q \in Seeds : ledger'[q][s][i] > 0
  <2>1. CASE i < a
    BY <1>3, <1>5, <2>1 DEF PaidBelow, Credited
  <2>2. CASE i >= a
    <3>1. i \in row.lastIndex .. row'.lastIndex - 1
      <4> HIDE DEF a, n
      <4> QED
        BY <1>3, <1>4, <1>6, <2>2, BoundsAssumption DEF Events
    <3>2. ledger'[row.seed][s][i] = ledger[row.seed][s][i] + 1
      BY <1>3, <3>1, SaveEffect
    <3>3. ledger[row.seed][s][i] \in Nat
      BY <1>3 DEF TypeOK
    <3>4. ledger'[row.seed][s][i] > 0
      BY <3>2, <3>3
    <3> QED
      BY <1>3, <3>4
  <2>3. i \in Int
    BY BoundsAssumption DEF Events
  <2> QED
    BY <1>3, <2>1, <2>2, <2>3
<1> HIDE DEF s, a, n
<1>7. \A i \in Events : i < Anchor(r)' => \E q \in Seeds : ledger'[q][s][i] > 0
  BY <1>2, <1>6
<1> QED
  BY <1>1, <1>7 DEF PaidBelow, Credited, s

\* A copy with a higher anchor is made by a claim that has paid for it, or is
\* read from the row, below whose anchor all is paid.
LEMMA StepPaid ==
  ASSUME TypeOK, AnchorInv, OneSession, CopyPaid, NEW r \in Requests, RequestStep(r),
         \A s \in Seeds, i \in Events : Credited(s, i) => Credited(s, i)'
  PROVE  CopyPaid'
<1> USE DEF store, history
<1>1. ASSUME Carries(r), req'[r].pc \in PaidLabels => req[r].pc \in PaidLabels /\ ~At(r, "cacheAfter")',
             cache' \in {cache, NoHot} \/
               (req[r].pc \in PaidLabels /\ ~At(r, "cacheAfter") /\ cache' = req[r].hot)
      PROVE  CopyPaid'
  BY <1>1, PaidCarried
<1>2. CASE StartSession(r)
  <2>1. Carries(r) /\ req'[r].pc = "cacheStart"
    BY <1>2, GotoCarries DEF StartSession, Labels
  <2> QED
    BY <1>1, <1>2, <2>1 DEF StartSession, At, PaidLabels
<1>3. CASE CacheStart(r)
  <2>1. Carries(r) /\ req'[r].pc = "idle"
    BY <1>3, ReturnCarries DEF CacheStart
  <2> QED
    BY <1>1, <1>3, <2>1 DEF CacheStart, At, PaidLabels, Holding
<1>4. CASE GetSession(r)
  <2>1. CASE row = NoRow
    <3>1. Carries(r) /\ req'[r].pc = "idle"
      BY <1>4, <2>1, ReturnCarries DEF GetSession
    <3> QED
      BY <1>1, <1>4, <3>1 DEF GetSession, At, PaidLabels, Holding
  <2>2. CASE row # NoRow
    <3>1. /\ req'[r].pc = "getBaseline" /\ req'[r].hot.row = row
          /\ \A q \in Requests \ {r} : req'[q] = req[q]
      BY <1>4, <2>2, GetSessionEffect
    <3>2. cache' = cache /\ row.seed \in Seeds /\ row.lastIndex \in Nat
      BY <1>4, <2>2, BoundsAssumption DEF GetSession, AnchorInv, RowInv, TypeOK, Seeds, Rows
    <3>3. Anchor(r)' = row.lastIndex
      BY <3>1, <3>2 DEF Anchor, At
    <3>4. PaidBelow(row.seed, row.lastIndex)
      BY <2>2, RowPaid
    <3>5. PaidBelow(req[r].hot.row.seed, Anchor(r))'
      BY <3>1, <3>2, <3>3, <3>4 DEF PaidBelow, Credited
    <3> QED
      BY <3>1, <3>2, <3>5, PaidKept
  <2> QED
    BY <2>1, <2>2
<1>5. ASSUME req[r].pc \in Holding \ {"cacheAfter"}, \A q \in Requests \ {r} : req'[q] = req[q], cache' = cache,
             \/ req'[r].pc = "idle"
             \/ req'[r].pc \in {"fill", "save"} /\ req'[r].hot.row = req[r].hot.row
      PROVE  CopyPaid'
  <2>1. CASE req'[r].pc = "idle"
    BY <1>5, <2>1, PaidKept DEF PaidLabels, Holding
  <2>2. CASE req'[r].pc \in {"fill", "save"} /\ req'[r].hot.row = req[r].hot.row
    <3>1. req[r].hot.row.seed \in Seeds /\ PaidBelow(req[r].hot.row.seed, Anchor(r))
      BY <1>5, SeedTypes DEF CopyPaid, Copied
    <3>2. Anchor(r)' = Anchor(r)
      BY <1>5, <2>2 DEF Anchor, At
    <3>3. PaidBelow(req[r].hot.row.seed, Anchor(r))'
      BY <2>2, <3>1, <3>2 DEF PaidBelow, Credited
    <3> QED
      BY <1>5, <3>3, PaidKept
  <2> QED
    BY <1>5, <2>1, <2>2
<1>6. CASE GetPlayerBaseline(r)
  BY <1>5, <1>6, GetPlayerBaselineEffect DEF GetPlayerBaseline, At, Holding
<1>7. CASE FillCache(r)
  <2>1. Carries(r) /\ req'[r].pc = "resolve"
    BY <1>7, GotoCarries DEF FillCache, Labels
  <2> QED
    BY <1>1, <1>7, <2>1 DEF FillCache, At, PaidLabels, Holding
<1>8. ASSUME NEW ff \in FastForwards, Resolve(r, ff)
      PROVE  CopyPaid'
  <2>1. cache' = cache /\ req[r].pc \in Holding \ {"cacheAfter"}
    BY <1>8 DEF Resolve, At, Holding
  <2> QED
    BY <1>5, <1>8, <2>1, ResolveEffect
<1>9. CASE SaveResolve(r)
  <2>1. cache' = cache /\ \A q \in Requests \ {r} : req'[q] = req[q]
    BY <1>9, GotoEffect DEF SaveResolve, Labels
  <2> QED
    BY <1>9, <2>1, SavePaid, PaidKept
<1>10. CASE StaleClaim(r)
  <2>1. Carries(r) /\ req'[r].pc = "cacheDel"
    BY <1>10, GotoCarries DEF StaleClaim, Labels
  <2> QED
    BY <1>1, <1>10, <2>1 DEF StaleClaim, At, PaidLabels, Holding
<1>11. CASE CacheAfter(r)
  <2>1. Carries(r) /\ req'[r].pc \in {"idle", "deleteSession"} /\ At(r, "cacheAfter")
    BY <1>11, FinishCarries DEF CacheAfter
  <2>2. cache'.row.seed = req[r].hot.row.seed /\ cache'.row.lastIndex = Anchor(r)
    BY <1>11, <2>1, RequestTypes, AnchorFields DEF CacheAfter, Anchor
  <2>3. req[r].hot.row.seed \in Seeds /\ PaidBelow(req[r].hot.row.seed, Anchor(r))
    BY <2>1, SeedTypes DEF CopyPaid, Copied, Holding, At
  <2>4. PaidBelow(cache.row.seed, cache.row.lastIndex)'
    BY <2>2, <2>3 DEF PaidBelow, Credited
  <2>5. req'[r].pc \notin PaidLabels /\ \A q \in Requests \ {r} : req'[q] = req[q]
    BY <2>1 DEF PaidLabels, Holding, Carries
  <2> QED
    BY <2>4, <2>5, PaidKept
<1>12. CASE CacheDelStale(r)
  <2>1. Carries(r) /\ req'[r].pc \in {"idle", "deleteSession"}
    BY <1>12, FinishCarries DEF CacheDelStale
  <2> QED
    BY <1>1, <1>12, <2>1 DEF CacheDelStale, At, PaidLabels, Holding
<1>13. CASE DeleteSession(r) \/ CacheDelStop(r) \/ ApplyOfflineReward(r)
  <2>1. Carries(r) /\ req'[r].pc \in {"uncache", "touchLogout", "uncacheReward"} /\ cache' \in {cache, NoHot}
    BY <1>13, GotoCarries DEF DeleteSession, CacheDelStop, ApplyOfflineReward, Labels
  <2> QED
    BY <1>1, <2>1 DEF PaidLabels, Holding
<1>14. CASE TouchLogout(r) \/ CheckSession(r) \/ CacheDelReward(r)
  <2>1. Carries(r) /\ req'[r].pc \in {"idle", "readPlayer"} /\ cache' \in {cache, NoHot}
    BY <1>14, ReturnCarries, GotoCarries DEF TouchLogout, CheckSession, CacheDelReward, Labels
  <2> QED
    BY <1>1, <2>1 DEF PaidLabels, Holding
<1>15. CASE ReadPlayer(r)
  <2>1. /\ \A q \in Requests \ {r} : req'[q] = req[q]
        /\ req'[r].pc \in {"idle", "applyReward"} /\ cache' = cache
    BY <1>15, ReadPlayerEffect DEF ReadPlayer
  <2> QED
    BY <2>1, PaidKept DEF PaidLabels, Holding
<1> QED
  BY <1>2, <1>3, <1>4, <1>6, <1>7, <1>8, <1>9, <1>10, <1>11, <1>12, <1>13, <1>14, <1>15 DEF RequestStep

\* The events below the anchor of every copy stay paid until a start overlaps
\* another request.
LEMMA MovesPaid ==
  ASSUME TypeOK, AnchorInv, ~unguarded => OneSession /\ CopyPaid, Moves
  PROVE  ~unguarded' => CopyPaid'
<1> SUFFICES ASSUME ~unguarded' PROVE CopyPaid'
  OBVIOUS
<1>1. OneSession /\ CopyPaid
  BY UnguardedStays
<1>2. \A s \in Seeds, i \in Events : Credited(s, i) => Credited(s, i)'
  BY LedgerGrows
<1>3. ASSUME req' = req, cache' \in {cache, NoHot}
      PROVE  CopyPaid'
  <2>1. PICK r \in Requests : TRUE
    BY RequestsAssumption
  <2>2. ASSUME req[r].pc \in PaidLabels PROVE PaidBelow(req[r].hot.row.seed, Anchor(r))'
    <3>1. req[r].hot.row.seed \in Seeds /\ PaidBelow(req[r].hot.row.seed, Anchor(r))
      BY <1>1, <2>2, SeedTypes, BoundsAssumption DEF CopyPaid, PaidLabels, Copied, At, Seeds, TypeOK
    <3>2. Anchor(r)' = Anchor(r)
      BY <1>3 DEF Anchor, At
    <3> QED
      BY <1>2, <1>3, <3>1, <3>2 DEF PaidBelow, Credited
  <2> QED
    BY <1>1, <1>2, <1>3, <2>2, PaidKept
<1>4. CASE Tick \/ CacheLost \/ Still
  BY <1>3, <1>4 DEF Tick, CacheLost, Still, store
<1>5. ASSUME NEW r \in Requests, GivesUp(r) \/ RedisFails(r)
      PROVE  CopyPaid'
  <2>1. /\ Carries(r) /\ cache' = cache
        /\ req'[r].pc \in PaidLabels => req[r].pc \in PaidLabels /\ ~At(r, "cacheAfter")'
    BY <1>5, FailureEffect DEF PaidLabels, Holding, At
  <2> QED
    BY <1>1, <1>2, <2>1, PaidCarried
<1> QED
  BY <1>1, <1>2, <1>4, <1>5, ArrivalPaid, StepPaid DEF Moves

-----------------------------------------------------------------------------
(* What each step does to the connection.                                  *)

\* The step goes on with the same frames, or is no step of the stream.
Quiet ==
  /\ shown' = shown /\ stream' \in Streams
  /\ UNCHANGED <<stream.lastIdx, stream.fresh, stream.seed, stream.cut, stream.restarted>>
  /\ InState("write")' = InState("write")
  /\ InState("off")' = InState("off")

\* streamSession returns, from a write perhaps after its events were sent.
Ends == stream' = Off /\ (shown' = shown \/ (InState("write") /\ shown' = Sent))

\* A step from one state of the loop to another is quiet.
LEMMA EnterQuiet ==
  ASSUME StreamTypeOK, NEW state \in {"select", "preview", "claim", "claiming", "final"}, Enter(state),
         ~InState("write"), ~InState("off"), shown' = shown
  PROVE  Quiet
<1>1. stream \in Streams /\ stream' = [stream EXCEPT !.pc = state]
  BY DEF StreamTypeOK, Enter
<1>2. stream' \in Streams
  BY <1>1 DEF Streams
<1>3. stream'.pc = state
  BY <1>1 DEF Streams
<1>4. UNCHANGED <<stream.lastIdx, stream.fresh, stream.seed, stream.cut, stream.restarted>>
  BY <1>1 DEF Streams
<1> QED
  BY <1>2, <1>3, <1>4 DEF Quiet, InState

\* To a connection a step is one of five.
LEMMA ConnectionSteps ==
  ASSUME StreamTypeOK, [StreamNext]_allVars
  PROVE  Quiet \/ Ends \/ Connect \/ PreviewResolves \/ WriteFrames
<1>1. ASSUME UNCHANGED streamVars PROVE Quiet
  BY <1>1 DEF streamVars, Quiet, StreamTypeOK, InState
<1>2. CASE UNCHANGED allVars \/ OthersStep
  BY <1>1, <1>2 DEF allVars, OthersStep
<1>3. CASE Disconnect
  <2>1. stream \in Streams /\ stream' = [stream EXCEPT !.open = FALSE]
    BY <1>3 DEF Disconnect, StreamTypeOK
  <2>2. /\ stream' \in Streams /\ stream'.pc = stream.pc
        /\ UNCHANGED <<stream.lastIdx, stream.fresh, stream.seed, stream.cut, stream.restarted>>
    BY <2>1 DEF Streams
  <2> QED
    BY <1>3, <2>2 DEF Disconnect, Quiet, InState
<1>4. CASE TickPreview \/ ClaimOnTick \/ FinalClaim \/ ClaimOnClosed
  BY <1>4, EnterQuiet DEF TickPreview, ClaimOnTick, FinalClaim, ClaimOnClosed, InState
<1>5. CASE PreviewReads
  BY <1>1, <1>5, EnterQuiet DEF PreviewReads, AfterCall, InState, streamVars
<1>6. CASE ClaimProceeds
  <2>1. /\ InState("claiming") \/ InState("final")
        /\ stream' = Off \/ Enter("select") \/ stream' = stream
        /\ shown' = shown
    BY <1>6 DEF ClaimProceeds, AfterCall
  <2>2. CASE stream' = Off
    BY <2>1, <2>2 DEF Ends
  <2>3. CASE stream' = stream
    BY <1>1, <2>1, <2>3 DEF streamVars
  <2>4. CASE (InState("claiming") \/ InState("final")) /\ Enter("select")
    BY <2>1, <2>4, EnterQuiet DEF InState
  <2> QED
    BY <2>1, <2>2, <2>3, <2>4
<1>7. CASE FailsOnClosed
  <2>1. stream' = Off /\ (shown' = shown \/ (InState("write") /\ shown' = Sent))
    <3>1. shown' \in {shown} \union (IF InState("write") THEN {Sent} ELSE {}) /\ stream' = Off
      BY <1>7 DEF FailsOnClosed
    <3>2. CASE InState("write")
      BY <3>1, <3>2
    <3>3. CASE ~InState("write")
      BY <3>1, <3>3
    <3> QED
      BY <3>1, <3>2, <3>3
  <2> QED
    BY <2>1 DEF Ends
<1>8. CASE Cancelled
  <2>1. stream' = Off \/ (InState("claiming") /\ Enter("select"))
    BY <1>8 DEF Cancelled
  <2>2. shown' = shown
    BY <1>8 DEF Cancelled
  <2>3. CASE stream' = Off
    BY <2>2, <2>3 DEF Ends
  <2>4. CASE InState("claiming") /\ Enter("select")
    BY <2>2, <2>4, EnterQuiet DEF InState
  <2> QED
    BY <2>1, <2>3, <2>4
<1>9. CASE StreamFails
  <2>1. /\ stream' = Off \/ (InState("claiming") /\ Enter("select")) \/ stream' = stream
        /\ shown' = shown
    BY <1>9 DEF StreamFails, AfterCall
  <2>2. CASE stream' = Off
    BY <2>1, <2>2 DEF Ends
  <2>3. CASE stream' = stream
    BY <1>1, <2>1, <2>3 DEF streamVars
  <2>4. CASE InState("claiming") /\ Enter("select")
    BY <2>1, <2>4, EnterQuiet DEF InState
  <2> QED
    BY <2>1, <2>2, <2>3, <2>4
<1> QED
  BY <1>2, <1>3, <1>4, <1>5, <1>6, <1>7, <1>8, <1>9 DEF StreamNext, StreamStep

\* Only the fresh events are sent, once each.
LEMMA SentEffect ==
  ASSUME StreamTypeOK
  PROVE  /\ Sent \in [Seeds -> [Events -> Nat]]
         /\ \A s \in Seeds, i \in Events :
              Sent[s][i] = IF s = stream.seed /\ i \in stream.fresh THEN shown[s][i] + 1 ELSE shown[s][i]
<1> DEFINE new == [i \in Events |-> IF i \in stream.fresh THEN shown[stream.seed][i] + 1
                                                          ELSE shown[stream.seed][i]]
<1>1. Sent = [shown EXCEPT ![stream.seed] = new]
  BY DEF Sent
<1>2. ASSUME stream.seed \in Seeds PROVE new \in [Events -> Nat]
  BY <1>2 DEF StreamTypeOK
<1>3. \A i \in Events : new[i] = IF i \in stream.fresh THEN shown[stream.seed][i] + 1
                                                      ELSE shown[stream.seed][i]
  OBVIOUS
<1> HIDE DEF new
<1> QED
  BY <1>1, <1>2, <1>3 DEF StreamTypeOK

\* A preview that is not empty moves lastIdx on to its newest event.
LEMMA PreviewEffect ==
  ASSUME StreamTypeOK, AnchorInv, PreviewResolves,
         NEW r, r = req[Watcher].hot.row, NEW n, n = Resolved(r, 0)
  PROVE  /\ r.lastIndex \in Nat /\ n \in Nat /\ r.lastIndex + n <= MaxEvents /\ r.seed \in Seeds
         /\ Anchor(Watcher) = r.lastIndex /\ At(Watcher, "resolve")
         /\ unguarded' = unguarded /\ ledger' = ledger /\ shown' = shown
         /\ stream' \in Streams /\ stream'.pc = "write" /\ InState("preview")
         /\ stream'.fresh = FreshEvents(r, n) /\ stream'.seed = r.seed
         /\ stream'.restarted = (stream.restarted \/ stream.seed \notin {0, r.seed})
         /\ stream'.fresh = {} => stream'.lastIdx = stream.lastIdx /\ stream'.cut = stream.cut
         /\ stream'.fresh # {} =>
              /\ stream'.lastIdx = r.lastIndex + n - 1 /\ stream.lastIdx < stream'.lastIdx
              /\ stream'.cut = IF n <= LastN THEN stream.cut ELSE r.lastIndex + n - LastN
<1> USE WatcherAssumption
<1> DEFINE fresh == FreshEvents(r, n)
           last == IF fresh = {} THEN stream.lastIdx ELSE r.lastIndex + n - 1
           cut == IF fresh = {} \/ n <= LastN THEN stream.cut ELSE r.lastIndex + n - LastN
           again == stream.restarted \/ stream.seed \notin {0, r.seed}
<1>1. /\ At(Watcher, "resolve") /\ r.lastIndex + n <= MaxEvents
      /\ unguarded' = unguarded /\ ledger' = ledger
  BY DEF PreviewResolves, Resolve, history
<1>2. r \in Rows /\ n \in Nat /\ now \in Nat
  BY RequestTypes, ResolvedType DEF StreamTypeOK, TypeOK
<1>3. r.lastIndex \in Nat /\ r.seed \in Seeds /\ Anchor(Watcher) = r.lastIndex
  <2>1. r.lastIndex \in Nat
    BY <1>2 DEF Rows
  <2> QED
    BY <1>1, <2>1 DEF AnchorInv, RequestInv, Holding, Anchor, At
<1>4. stream \in Streams /\ stream.lastIdx \in Events \union {-1} /\ stream.cut \in 0 .. MaxEvents
  BY DEF StreamTypeOK, Streams
<1>5. \A i \in fresh : i \in r.lastIndex .. r.lastIndex + n - 1 /\ i > stream.lastIdx
  BY DEF FreshEvents, Newest
<1>6. fresh \subseteq Events
  BY <1>1, <1>2, <1>3, <1>5, BoundsAssumption DEF Events
<1>7. ASSUME fresh # {}
      PROVE  r.lastIndex + n - 1 \in Events /\ stream.lastIdx < r.lastIndex + n - 1
  <2>1. PICK i \in fresh : TRUE
    BY <1>7
  <2>2. i \in r.lastIndex .. r.lastIndex + n - 1 /\ i > stream.lastIdx
    BY <1>5
  <2>3. stream.lastIdx \in Int
    BY <1>4, BoundsAssumption DEF Events
  <2> HIDE DEF fresh
  <2> QED
    BY <1>1, <1>2, <1>3, <2>2, <2>3, BoundsAssumption DEF Events
<1>8. ASSUME ~(n <= LastN) PROVE r.lastIndex + n - LastN \in 0 .. MaxEvents
  BY <1>1, <1>2, <1>3, <1>8, BoundsAssumption, StreamAssumption
<1>9. last \in Events \union {-1} /\ cut \in 0 .. MaxEvents /\ again \in BOOLEAN /\ r.seed \in 0 .. MaxStarts
  <2>1. last \in Events \union {-1}
    BY <1>4, <1>7
  <2>2. cut \in 0 .. MaxEvents
    BY <1>4, <1>8
  <2>3. r.seed \in 0 .. MaxStarts
    BY <1>2 DEF Rows
  <2>4. again \in BOOLEAN
    BY <1>4 DEF Streams
  <2> QED
    BY <2>1, <2>2, <2>3, <2>4
<1>10. /\ stream' = [stream EXCEPT !.pc = "write", !.fresh = fresh, !.lastIdx = last, !.cut = cut,
                                   !.seed = r.seed, !.restarted = again]
       /\ InState("preview") /\ shown' = shown
  BY DEF PreviewResolves
<1>11. /\ fresh = {} => last = stream.lastIdx /\ cut = stream.cut
       /\ fresh # {} => /\ last = r.lastIndex + n - 1
                        /\ cut = IF n <= LastN THEN stream.cut ELSE r.lastIndex + n - LastN
  OBVIOUS
<1>12. fresh = FreshEvents(r, n)
  OBVIOUS
<1>13. again = (stream.restarted \/ stream.seed \notin {0, r.seed})
  OBVIOUS
<1> HIDE DEF fresh, last, cut, again
<1>14. /\ stream' \in Streams /\ stream'.pc = "write" /\ stream'.fresh = fresh /\ stream'.seed = r.seed
       /\ stream'.restarted = again /\ stream'.lastIdx = last /\ stream'.cut = cut
  BY <1>4, <1>6, <1>9, <1>10 DEF Streams
<1> QED
  BY <1>1, <1>2, <1>3, <1>7, <1>10, <1>11, <1>12, <1>13, <1>14

\* After a write nothing is fresh.
LEMMA WriteEffect ==
  ASSUME StreamTypeOK, WriteFrames
  PROVE  /\ stream' \in Streams /\ stream'.fresh = {} /\ stream'.pc \in {"claim", "select"}
         /\ UNCHANGED <<stream.lastIdx, stream.seed, stream.cut, stream.restarted>>
<1> DEFINE since == Since(stream.sinceClaim + 1)
           next == IF stream.sinceClaim + 1 >= ClaimEvery THEN "claim" ELSE "select"
<1>1. stream \in Streams /\ next \in {"claim", "select"}
      /\ stream' = [stream EXCEPT !.fresh = {}, !.sinceClaim = since, !.pc = next]
  BY DEF StreamTypeOK, WriteFrames
<1>2. since \in 0 .. ClaimEvery - 1
  <2>1. stream.sinceClaim \in 0 .. ClaimEvery - 1
    BY <1>1 DEF Streams
  <2> QED
    BY <2>1, StreamAssumption DEF Since
<1> HIDE DEF since, next
<1> QED
  BY <1>1, <1>2 DEF Streams

\* A closed stream and a history that is empty are of their types.
LEMMA OffType == Off \in Streams /\ NothingShown \in [Seeds -> [Events -> Nat]]
BY BoundsAssumption, StreamAssumption DEF Off, Streams, NothingShown

\* A new connection was sent nothing.
LEMMA ConnectEffect ==
  ASSUME Connect
  PROVE  /\ stream' \in Streams /\ stream'.fresh = {} /\ stream'.lastIdx = -1 /\ stream'.seed = 0
         /\ stream'.cut = 0 /\ stream'.pc = "select" /\ shown' = NothingShown
<1> DEFINE new == [pc |-> "select", open |-> TRUE, lastIdx |-> -1, sinceClaim |-> 0, fresh |-> {},
                   seed |-> 0, cut |-> 0, restarted |-> FALSE]
<1>1. stream' = new /\ shown' = NothingShown
  BY DEF Connect, Off
<1>2. new \in Streams
  BY BoundsAssumption, StreamAssumption DEF Streams
<1> QED
  BY <1>1, <1>2

-----------------------------------------------------------------------------
(* StreamTypeOK and StreamInv are kept.                                    *)

\* The types are kept by every step.
LEMMA StreamTypeKept ==
  ASSUME StreamTypeOK, AnchorInv, [StreamNext]_allVars
  PROVE  StreamTypeOK'
<1>1. TypeOK'
  BY StreamMoves, NextType DEF StreamTypeOK
<1>2. shown \in [Seeds -> [Events -> Nat]]
  BY DEF StreamTypeOK
<1>3. CASE Quiet
  BY <1>1, <1>2, <1>3 DEF Quiet, StreamTypeOK
<1>4. CASE Ends
  BY <1>1, <1>2, <1>4, OffType, SentEffect DEF Ends, StreamTypeOK
<1>5. CASE Connect
  BY <1>1, <1>5, OffType, ConnectEffect DEF StreamTypeOK
<1>6. CASE PreviewResolves
  BY <1>1, <1>2, <1>6, PreviewEffect DEF StreamTypeOK
<1>7. CASE WriteFrames
  BY <1>1, <1>2, <1>7, WriteEffect, SentEffect DEF StreamTypeOK, WriteFrames
<1> QED
  BY <1>3, <1>4, <1>5, <1>6, <1>7, ConnectionSteps

\* The numbers of a connection.
LEMMA ConnectionTypes ==
  ASSUME StreamTypeOK
  PROVE  /\ stream.lastIdx \in Int /\ stream.cut \in Nat /\ stream.seed \in Seeds \union {0}
         /\ stream.fresh \subseteq Events /\ stream.restarted \in BOOLEAN
         /\ \A s \in Seeds, i \in Events : shown[s][i] \in Nat
         /\ LastN \in Nat \ {0} /\ MaxEvents \in Nat /\ Events \subseteq Nat
BY BoundsAssumption, StreamAssumption DEF StreamTypeOK, Streams, Events, Seeds

\* Events that are fresh were not sent before.
LEMMA SentOnce ==
  ASSUME StreamTypeOK, ConnectionInv
  PROVE  \A s \in Seeds, i \in Events :
           /\ Sent[s][i] \in Nat /\ Sent[s][i] <= 1 /\ shown[s][i] <= Sent[s][i]
           /\ s = stream.seed /\ i \in stream.fresh => Sent[s][i] > 0
           /\ Sent[s][i] > 0 => shown[s][i] > 0 \/ i \in stream.fresh
<1> SUFFICES ASSUME NEW s \in Seeds, NEW i \in Events
             PROVE  /\ Sent[s][i] \in Nat /\ Sent[s][i] <= 1 /\ shown[s][i] <= Sent[s][i]
                    /\ s = stream.seed /\ i \in stream.fresh => Sent[s][i] > 0
                    /\ Sent[s][i] > 0 => shown[s][i] > 0 \/ i \in stream.fresh
  OBVIOUS
<1>1. shown[s][i] \in Nat /\ shown[s][i] <= 1 /\ (i \in stream.fresh => shown[s][i] = 0)
  BY ConnectionTypes DEF ConnectionInv, ShownOnce
<1>2. Sent[s][i] = IF s = stream.seed /\ i \in stream.fresh THEN shown[s][i] + 1 ELSE shown[s][i]
  BY SentEffect
<1> QED
  BY <1>1, <1>2

\* ConnectionInv, step by step: a quiet one does not touch it, ...
LEMMA QuietConnection ==
  ASSUME ConnectionInv, Quiet
  PROVE  ConnectionInv'
BY DEF ConnectionInv, Quiet, ShownOnce

\* ... an end of the stream leaves a history that binds nobody, ...
LEMMA EndsConnection ==
  ASSUME StreamTypeOK, ConnectionInv, Ends
  PROVE  ConnectionInv'
<1>1. ShownOnce'
  BY SentOnce DEF Ends, ConnectionInv, ShownOnce
<1> QED
  BY <1>1 DEF Ends, Off, ConnectionInv, InState

\* ... a connection begins with an empty one, ...
LEMMA ConnectConnection ==
  ASSUME Connect
  PROVE  ConnectionInv'
<1>1. \A s \in Seeds, i \in Events : shown'[s][i] = 0
  BY ConnectEffect DEF NothingShown
<1> QED
  BY <1>1, ConnectEffect DEF ConnectionInv, ShownOnce, InState

\* ... a preview picks events above lastIdx, which were never sent, and makes
\* the highest of them the new lastIdx, ...
LEMMA PreviewConnection ==
  ASSUME StreamTypeOK, AnchorInv, ConnectionInv, PreviewResolves
  PROVE  ConnectionInv'
<1> DEFINE r == req[Watcher].hot.row
           n == Resolved(r, 0)
           L == r.lastIndex
<1>1. /\ L \in Nat /\ n \in Nat /\ L + n <= MaxEvents /\ r.seed \in Seeds /\ shown' = shown
      /\ stream'.pc = "write" /\ InState("preview")
      /\ stream'.fresh = FreshEvents(r, n) /\ stream'.seed = r.seed
      /\ stream'.fresh = {} => stream'.lastIdx = stream.lastIdx /\ stream'.cut = stream.cut
      /\ stream'.fresh # {} =>
           /\ stream'.lastIdx = L + n - 1 /\ stream.lastIdx < stream'.lastIdx
           /\ stream'.cut = IF n <= LastN THEN stream.cut ELSE L + n - LastN
  BY PreviewEffect
<1> HIDE DEF n, L
<1>2. \A i \in stream'.fresh : i \in L .. L + n - 1 /\ i > stream.lastIdx
  BY <1>1 DEF FreshEvents, Newest, L
<1>3. stream.lastIdx <= stream'.lastIdx /\ stream'.lastIdx \in Int
  BY <1>1, ConnectionTypes
<1>4. stream'.cut = 0 \/ stream'.cut + LastN <= stream'.lastIdx + 1
  <2>1. stream.cut = 0 \/ stream.cut + LastN <= stream.lastIdx + 1
    BY DEF ConnectionInv
  <2>2. CASE stream'.cut = stream.cut
    BY <1>3, <2>1, <2>2, ConnectionTypes
  <2>3. CASE stream'.cut = L + n - LastN /\ stream'.lastIdx = L + n - 1
    BY <1>1, <2>3, ConnectionTypes
  <2> QED
    BY <1>1, <2>2, <2>3
<1>5. \A s \in Seeds, i \in Events : shown'[s][i] > 0 => i <= stream.lastIdx
  BY <1>1 DEF ConnectionInv, InState
<1>6. \A s \in Seeds, i \in Events : shown'[s][i] > 0 => i <= stream'.lastIdx
  BY <1>3, <1>5, ConnectionTypes
<1>7. ASSUME NEW i \in stream'.fresh, NEW s \in Seeds PROVE i <= stream'.lastIdx /\ shown'[s][i] = 0
  <2>1. i \in L .. L + n - 1 /\ i > stream.lastIdx /\ stream'.lastIdx = L + n - 1
    BY <1>1, <1>2
  <2>2. i \in Events
    BY <1>1, <2>1, ConnectionTypes DEF Events
  <2>3. shown'[s][i] \in Nat
    BY <1>1, <2>2, ConnectionTypes
  <2>4. ~(shown'[s][i] > 0)
    BY <1>5, <2>1, <2>2, ConnectionTypes
  <2> QED
    BY <1>1, <2>1, <2>3, <2>4
<1>8. \A i \in stream'.fresh : i <= stream'.lastIdx
  BY <1>1, <1>2
<1>9. ShownOnce'
  BY <1>1 DEF ConnectionInv, ShownOnce
<1>10. stream'.seed # 0
  BY <1>1 DEF Seeds
<1> QED
  BY <1>1, <1>4, <1>6, <1>7, <1>8, <1>9, <1>10 DEF ConnectionInv, InState

\* ... and a write sends those and no others.
LEMMA WriteConnection ==
  ASSUME StreamTypeOK, ConnectionInv, WriteFrames
  PROVE  ConnectionInv'
<1>1. /\ shown' = Sent /\ stream'.fresh = {} /\ stream'.pc \in {"claim", "select"} /\ InState("write")
      /\ UNCHANGED <<stream.lastIdx, stream.seed, stream.cut>>
  BY WriteEffect DEF WriteFrames
<1>2. ASSUME NEW s \in Seeds, NEW i \in Events, Sent[s][i] > 0 PROVE i <= stream.lastIdx
  <2>1. shown[s][i] > 0 \/ i \in stream.fresh
    BY <1>2, SentOnce
  <2> QED
    BY <1>1, <2>1 DEF ConnectionInv, InState
<1>3. ShownOnce'
  BY <1>1, SentOnce DEF ShownOnce
<1> QED
  BY <1>1, <1>2, <1>3 DEF ConnectionInv, InState

LEMMA ConnectionKept ==
  ASSUME StreamTypeOK, AnchorInv, ConnectionInv, [StreamNext]_allVars
  PROVE  ConnectionInv'
BY ConnectionSteps, QuietConnection, EndsConnection, ConnectConnection, PreviewConnection, WriteConnection

\* An event was sent, or credited.
Met(s, i) == shown[s][i] > 0 \/ Credited(s, i)

\* What UnseenIsPaid says of a state.
LEMMA UnseenMet ==
  ASSUME StreamTypeOK, ConnectionInv, UnseenIsPaid, ~unguarded, ~stream.restarted,
         NEW i \in stream.cut .. stream.lastIdx
  PROVE  /\ stream.seed \in Seeds /\ i \in Events
         /\ i \in stream.fresh \/ Met(stream.seed, i)
<1>1. stream.lastIdx # -1
  BY ConnectionTypes
<1>2. stream.seed \in Seeds
  BY <1>1, ConnectionTypes DEF ConnectionInv
<1>3. i \in Events
  BY <1>1, BoundsAssumption DEF StreamTypeOK, Streams, Events
<1> QED
  BY <1>2, <1>3 DEF UnseenIsPaid, Met

\* UnseenIsPaid, step by step: what was credited stays so, ...
LEMMA QuietUnseen ==
  ASSUME StreamTypeOK, ConnectionInv, UnseenIsPaid, Quiet, unguarded => unguarded',
         \A s \in Seeds, i \in Events : Credited(s, i) => Credited(s, i)'
  PROVE  UnseenIsPaid'
<1> SUFFICES ASSUME ~unguarded', ~stream'.restarted, NEW i \in stream'.cut .. stream'.lastIdx
             PROVE  (i \in stream.fresh \/ shown[stream.seed][i] > 0 \/ Credited(stream.seed, i))'
  BY DEF UnseenIsPaid
<1>1. UNCHANGED <<stream.lastIdx, stream.fresh, stream.seed, stream.cut, stream.restarted, shown>>
  BY DEF Quiet
<1>2. /\ stream.seed \in Seeds /\ i \in Events
      /\ i \in stream.fresh \/ Met(stream.seed, i)
  BY <1>1, UnseenMet
<1> QED
  BY <1>1, <1>2 DEF Met, Credited

\* ... nothing is promised of a connection that begins or has ended, ...
LEMMA ClosedUnseen ==
  ASSUME Ends \/ Connect
  PROVE  UnseenIsPaid'
<1>1. stream'.cut = 0 /\ stream'.lastIdx = -1
  BY ConnectEffect DEF Ends, Off
<1> QED
  BY <1>1 DEF UnseenIsPaid

\* ... and what was fresh is sent.
LEMMA WriteUnseen ==
  ASSUME StreamTypeOK, ConnectionInv, UnseenIsPaid, WriteFrames
  PROVE  UnseenIsPaid'
<1> SUFFICES ASSUME ~unguarded', ~stream'.restarted, NEW i \in stream'.cut .. stream'.lastIdx
             PROVE  (i \in stream.fresh \/ shown[stream.seed][i] > 0 \/ Credited(stream.seed, i))'
  BY DEF UnseenIsPaid
<1>1. /\ shown' = Sent /\ unguarded' = unguarded /\ ledger' = ledger
      /\ UNCHANGED <<stream.lastIdx, stream.seed, stream.cut, stream.restarted>>
  BY WriteEffect DEF WriteFrames, vars
<1>2. /\ stream.seed \in Seeds /\ i \in Events
      /\ i \in stream.fresh \/ Met(stream.seed, i)
  BY <1>1, UnseenMet
<1>3. /\ i \in stream.fresh => Sent[stream.seed][i] > 0
      /\ shown[stream.seed][i] \in Nat /\ Sent[stream.seed][i] \in Nat
      /\ shown[stream.seed][i] <= Sent[stream.seed][i]
  BY <1>2, SentOnce, ConnectionTypes
<1> QED
  BY <1>1, <1>2, <1>3 DEF Met, Credited

\* A preview resolves the events since an anchor below which all were paid.
LEMMA PreviewUnseen ==
  ASSUME StreamTypeOK, AnchorInv, ConnectionInv, ~unguarded => CopyPaid, UnseenIsPaid, PreviewResolves
  PROVE  UnseenIsPaid'
<1> DEFINE r == req[Watcher].hot.row
           n == Resolved(r, 0)
           L == r.lastIndex
<1> SUFFICES ASSUME ~unguarded', ~stream'.restarted, NEW i \in stream'.cut .. stream'.lastIdx
             PROVE  (i \in stream.fresh \/ shown[stream.seed][i] > 0 \/ Credited(stream.seed, i))'
  BY DEF UnseenIsPaid
<1>1. /\ L \in Nat /\ n \in Nat /\ L + n <= MaxEvents /\ r.seed \in Seeds /\ shown' = shown
      /\ Anchor(Watcher) = L /\ At(Watcher, "resolve") /\ InState("preview")
      /\ unguarded' = unguarded /\ ledger' = ledger
      /\ stream' \in Streams /\ stream'.fresh = FreshEvents(r, n) /\ stream'.seed = r.seed
      /\ stream'.restarted = (stream.restarted \/ stream.seed \notin {0, r.seed})
      /\ stream'.fresh = {} => stream'.lastIdx = stream.lastIdx /\ stream'.cut = stream.cut
      /\ stream'.fresh # {} =>
           /\ stream'.lastIdx = L + n - 1 /\ stream.lastIdx < stream'.lastIdx
           /\ stream'.cut = IF n <= LastN THEN stream.cut ELSE L + n - LastN
  BY PreviewEffect
<1>2. PaidBelow(r.seed, L)
  BY <1>1, WatcherAssumption DEF CopyPaid, Holding, At
<1>3. \A j \in Int : j \in stream'.fresh <=>
        j \in L .. L + n - 1 /\ j >= L + n - LastN /\ j > stream.lastIdx
  BY <1>1 DEF FreshEvents, Newest
<1> HIDE DEF n, L
<1>4. ~unguarded /\ ~stream.restarted /\ stream.seed \in {0, r.seed}
  BY <1>1
<1>5. stream'.cut \in Nat /\ stream'.lastIdx \in Events \union {-1}
  BY <1>1 DEF Streams
<1>6. i \in Events /\ i \in Int /\ i <= stream'.lastIdx /\ stream'.cut <= i
  <2>1. i \in Int /\ i <= stream'.lastIdx /\ stream'.cut <= i
    BY <1>5, BoundsAssumption DEF Events
  <2> QED
    BY <1>5, <2>1, BoundsAssumption DEF Events
\* What the last preview met is still met.
<1>7. ASSUME stream.cut <= i, i <= stream.lastIdx PROVE Met(r.seed, i)
  <2>1. i \in stream.cut .. stream.lastIdx
    BY <1>6, <1>7, ConnectionTypes
  <2>2. stream.seed \in Seeds /\ (i \in stream.fresh \/ Met(stream.seed, i))
    BY <1>4, <2>1, UnseenMet
  <2>3. stream.fresh = {}
    BY <1>1 DEF ConnectionInv, InState
  <2>4. stream.seed = r.seed
    BY <1>4, <2>2 DEF Seeds
  <2> QED
    BY <2>2, <2>3, <2>4
<1>8. ASSUME i < L PROVE Met(r.seed, i)
  BY <1>2, <1>6, <1>8 DEF PaidBelow, Met
<1>9. i \in stream'.fresh \/ Met(r.seed, i)
  <2>1. CASE stream'.fresh = {}
    BY <1>1, <1>6, <1>7, <2>1
  <2>2. CASE stream'.fresh # {} /\ n <= LastN
    <3>1. CASE i < L
      BY <1>8, <3>1
    <3>2. CASE i >= L /\ i <= stream.lastIdx
      BY <1>1, <1>6, <1>7, <2>2, <3>2
    <3>3. CASE i >= L /\ i > stream.lastIdx
      BY <1>1, <1>3, <1>6, <2>2, <3>3, ConnectionTypes
    <3> QED
      BY <1>1, <1>6, <3>1, <3>2, <3>3, ConnectionTypes
  <2>3. CASE stream'.fresh # {} /\ ~(n <= LastN)
    <3>1. stream'.lastIdx = L + n - 1 /\ stream'.cut = L + n - LastN /\ stream.lastIdx < stream'.lastIdx
      BY <1>1, <2>3
    <3>2. stream.cut = 0 \/ stream.cut + LastN <= stream.lastIdx + 1
      BY DEF ConnectionInv
    <3>3. stream.cut <= i
      <4>1. CASE stream.cut = 0
        BY <1>5, <1>6, <4>1
      <4>2. CASE stream.cut + LastN <= stream.lastIdx + 1
        BY <1>1, <1>6, <3>1, <4>2, ConnectionTypes
      <4> QED
        BY <3>2, <4>1, <4>2
    <3>4. CASE i <= stream.lastIdx
      BY <1>7, <3>3, <3>4
    <3>5. CASE i > stream.lastIdx
      BY <1>1, <1>3, <1>6, <2>3, <3>1, <3>5, ConnectionTypes
    <3> QED
      BY <1>6, <3>4, <3>5, ConnectionTypes
  <2> QED
    BY <2>1, <2>2, <2>3
<1> QED
  BY <1>1, <1>9 DEF Met, Credited

\* StreamInv is inductive with what is proved of the requests.
StreamInductiveInv == Inductive /\ StreamTypeOK /\ StreamInv

LEMMA StreamInitInv == StreamInit => StreamInductiveInv
<1> SUFFICES ASSUME StreamInit PROVE StreamInductiveInv
  OBVIOUS
<1>1. Inductive /\ StreamTypeOK
  BY InitInductive, OffType DEF StreamInit, StreamTypeOK, Inductive
<1>2. ConnectionInv
  BY DEF StreamInit, ConnectionInv, ShownOnce, NothingShown, Off, InState
<1>3. UnseenIsPaid
  BY DEF StreamInit, Off, UnseenIsPaid
<1>4. CopyPaid
  <2>1. cache = NoHot /\ \A r \in Requests : req[r].pc = "idle"
    BY DEF StreamInit, Init, Idle
  <2> QED
    BY <2>1, BoundsAssumption DEF CopyPaid, PaidBelow, Holding, NoHot, NoRow, Events
<1> QED
  BY <1>1, <1>2, <1>3, <1>4 DEF StreamInductiveInv, StreamInv

\* The inductive invariant of the stream is kept.
LEMMA StreamInvKept ==
  ASSUME StreamInductiveInv, [StreamNext]_allVars
  PROVE  StreamInductiveInv'
<1>1. /\ Inductive /\ StreamTypeOK /\ ConnectionInv /\ (~unguarded => OneSession /\ CopyPaid) /\ UnseenIsPaid
      /\ TypeOK /\ AnchorInv
  BY DEF StreamInductiveInv, StreamInv, Inductive, SessionInv
<1>2. Moves
  BY <1>1, StreamMoves
<1>3. Inductive' /\ StreamTypeOK' /\ ConnectionInv'
  BY <1>1, StreamInductive, StreamTypeKept, ConnectionKept
<1>4. ~unguarded' => CopyPaid'
  BY <1>1, <1>2, MovesPaid
<1>5. /\ unguarded => unguarded'
      /\ \A s \in Seeds, i \in Events : Credited(s, i) => Credited(s, i)'
  BY <1>1, <1>2, UnguardedStays, LedgerGrows
<1>6. UnseenIsPaid'
  BY <1>1, <1>5, ConnectionSteps, QuietUnseen, ClosedUnseen, PreviewUnseen, WriteUnseen
<1> QED
  BY <1>3, <1>4, <1>6 DEF StreamInductiveInv, StreamInv

-----------------------------------------------------------------------------
(* The theorems about the connection.                                      *)

\* Every variable of a stream and of the session beside it keeps its type.
THEOREM StreamTypeCorrect == StreamSpec => []StreamTypeOK
<1>1. StreamInductiveInv => StreamTypeOK
  BY DEF StreamInductiveInv
<1> QED
  BY <1>1, StreamInitInv, StreamInvKept, PTL DEF StreamSpec

\* StreamInv, for every number of requests, sessions, events and failures: what
\* lies below the anchor of a copy was paid, and lastIdx bounds what was sent.
THEOREM StreamInvCorrect == StreamSpec => []StreamInv
<1>1. StreamInductiveInv => StreamInv
  BY DEF StreamInductiveInv
<1> QED
  BY <1>1, StreamInitInv, StreamInvKept, PTL DEF StreamSpec

\* ShownOnce: a connection is sent no event of a session twice, although each
\* preview resolves again from an anchor that may be old.
THEOREM ShownOnceCorrect == StreamSpec => []ShownOnce
<1>1. StreamInductiveInv => ShownOnce
  BY DEF StreamInductiveInv, StreamInv, ConnectionInv
<1> QED
  BY <1>1, StreamInitInv, StreamInvKept, PTL DEF StreamSpec

\* UnseenIsPaid: an event that the connection has passed over, that lastN did
\* not cut off and that is not about to be sent, was credited by a claim.
THEOREM UnseenIsPaidCorrect == StreamSpec => []UnseenIsPaid
<1>1. StreamInductiveInv => UnseenIsPaid
  BY DEF StreamInductiveInv, StreamInv
<1> QED
  BY <1>1, StreamInitInv, StreamInvKept, PTL DEF StreamSpec
=============================================================================
