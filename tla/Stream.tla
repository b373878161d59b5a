-------------------------------- MODULE Stream --------------------------------
(***************************************************************************)
(* The WebSocket stream of a player who watches, streamSession of          *)
(* internal/httpapi/ws.go, next to the other requests of that player.  Its *)
(* goroutine is the request Watcher of FishingSession: on every tick it    *)
(* previews and writes the events it has not written yet, on every         *)
(* ClaimEvery-th it claims, and when the connection closes it claims a     *)
(* last time.  The client may go away between any two of these steps.      *)
(***************************************************************************)
EXTENDS FishingSession

CONSTANTS
  Watcher,     \* the goroutine of the stream
  OtherEndpoints,  \* what other clients of the player call
  ClaimEvery,  \* wsClaimEvery
  LastN        \* the events a preview returns at most, its newest

ASSUME WatcherAssumption ==
  /\ Watcher \in Requests
  /\ OtherEndpoints \union {"preview", "claim"} \subseteq Endpoints
  /\ 0 \in FastForwards
ASSUME StreamAssumption == ClaimEvery \in Nat \ {0} /\ LastN \in Nat \ {0}

VARIABLES
  stream,  \* the locals of streamSession
  shown    \* history: how often this connection was sent each event

streamVars == <<stream, shown>>
allVars == <<vars, streamVars>>

Others == Requests \ {Watcher}

\* seed, cut and restarted are history: the session of the last preview, the
\* events below which lastN has cut one off, and whether the session has changed
\* since the connection.
Streams ==
  [pc : {"off", "select", "preview", "write", "claim", "claiming", "final"},
   open : BOOLEAN, lastIdx : Events \union {-1}, sinceClaim : 0 .. ClaimEvery - 1,
   fresh : SUBSET Events, seed : 0 .. MaxStarts, cut : 0 .. MaxEvents, restarted : BOOLEAN]

Off == [pc |-> "off", open |-> FALSE, lastIdx |-> -1, sinceClaim |-> 0, fresh |-> {},
        seed |-> 0, cut |-> 0, restarted |-> FALSE]

NothingShown == [s \in Seeds |-> [i \in Events |-> 0]]

StreamTypeOK ==
  /\ TypeOK
  /\ stream \in Streams
  /\ shown \in [Seeds -> [Events -> Nat]]

StreamInit == Init /\ stream = Off /\ shown = NothingShown

-----------------------------------------------------------------------------
InState(state) == stream.pc = state
Enter(state) == stream' = [stream EXCEPT !.pc = state]

Connect ==
  /\ InState("off")
  /\ stream' = [Off EXCEPT !.pc = "select", !.open = TRUE]
  /\ shown' = NothingShown
  /\ UNCHANGED vars

\* CloseRead cancels the context when the client goes away.
Disconnect ==
  /\ stream.open
  /\ stream' = [stream EXCEPT !.open = FALSE]
  /\ UNCHANGED <<vars, shown>>

\* The call in hand is over when its request is idle again.  A preview returns
\* to the loop when there is no session and ends the stream on an error; a
\* claim returns to the loop whatever came of it, the last one ends.
Returned == req'[Watcher].pc = "idle"

\* Seeded fault: the last claim goes back to the loop.
AfterCallLoops(state) == IF Returned THEN Enter("select") ELSE UNCHANGED stream

AfterCall(state) == IF Returned THEN (IF state = "off" THEN stream' = Off ELSE Enter(state))
                    ELSE UNCHANGED stream

-----------------------------------------------------------------------------
(* case <-ticker.C                                                         *)

TickPreview ==
  /\ InState("select")
  /\ stream.open
  /\ PreviewFishing(Watcher)
  /\ Enter("preview")
  /\ UNCHANGED shown

\* ErrNoSession: the client is told that it is idle.
PreviewReads ==
  /\ InState("preview")
  /\ GetSession(Watcher) \/ GetPlayerBaseline(Watcher) \/ FillCache(Watcher)
  /\ AfterCall("select")
  /\ UNCHANGED shown

\* lastN
Newest(r, n) == {i \in r.lastIndex .. r.lastIndex + n - 1 : i >= r.lastIndex + n - LastN}

\* Seeded fault: the events of a preview are all sent.
AllEvents(r, n) == Newest(r, n)

\* e.Index > lastIdx
FreshEvents(r, n) == {i \in Newest(r, n) : i > stream.lastIdx}

PreviewResolves ==
  LET r == req[Watcher].hot.row
      n == Resolved(r, 0)
      fresh == FreshEvents(r, n)
  IN
  /\ InState("preview")
  /\ Resolve(Watcher, 0)
  /\ stream' = [stream EXCEPT
       !.pc = "write", !.fresh = fresh,
       !.lastIdx = IF fresh = {} THEN @ ELSE r.lastIndex + n - 1,
       !.cut = IF fresh = {} \/ n <= LastN THEN @ ELSE r.lastIndex + n - LastN,
       !.seed = r.seed, !.restarted = @ \/ stream.seed \notin {0, r.seed}]
  /\ UNCHANGED shown

Sent ==
  [shown EXCEPT ![stream.seed] = [i \in Events |-> IF i \in stream.fresh THEN @[i] + 1 ELSE @[i]]]

\* Seeded fault: the count goes on after the claim.
SinceUnreset(n) == n

\* sinceClaim, set back by the claim of every ClaimEvery-th tick.
Since(n) == IF n >= ClaimEvery THEN 0 ELSE n

\* The fresh events and the state; then a claim is due on every ClaimEvery-th tick.
WriteFrames ==
  LET since == stream.sinceClaim + 1
  IN
  /\ InState("write")
  /\ stream.open
  /\ shown' = Sent
  /\ stream' = [stream EXCEPT !.fresh = {}, !.sinceClaim = Since(since),
                              !.pc = IF since >= ClaimEvery THEN "claim" ELSE "select"]
  /\ UNCHANGED vars

ClaimOnTick ==
  /\ InState("claim")
  /\ stream.open
  /\ ClaimFishing(Watcher)
  /\ Enter("claiming")
  /\ UNCHANGED shown

\* The calls of a claim, which the stream makes without a fast-forward.
ClaimCall ==
  \/ GetSession(Watcher) \/ GetPlayerBaseline(Watcher) \/ FillCache(Watcher)
  \/ Resolve(Watcher, 0) \/ SaveResolve(Watcher) \/ StaleClaim(Watcher)
  \/ CacheAfter(Watcher) \/ CacheDelStale(Watcher)

ClaimProceeds ==
  /\ \/ InState("claiming") /\ ClaimCall /\ AfterCall("select")
     \/ InState("final") /\ ClaimCall /\ AfterCall("off")
  /\ UNCHANGED shown

-----------------------------------------------------------------------------
(* The connection is closed.                                               *)

\* case <-ctx.Done(): the last claim has a context of its own.
FinalClaim ==
  /\ InState("select")
  /\ ~stream.open
  /\ ClaimFishing(Watcher)
  /\ Enter("final")
  /\ UNCHANGED shown

\* A write, or the preview of a tick that select preferred, fails on the dead
\* context, and streamSession returns.  The events may have been sent before
\* the state could not be.
FailsOnClosed ==
  /\ InState("select") \/ InState("write")
  /\ ~stream.open
  /\ stream' = Off
  /\ shown' \in {shown} \union IF InState("write") THEN {Sent} ELSE {}
  /\ UNCHANGED vars

\* A claim that is due does nothing on the dead context.
ClaimOnClosed ==
  /\ InState("claim")
  /\ ~stream.open
  /\ Enter("select")
  /\ UNCHANGED <<vars, shown>>

\* A call in flight is cancelled.
Cancelled ==
  /\ ~stream.open
  /\ GivesUp(Watcher)
  /\ \/ InState("preview") /\ stream' = Off
     \/ InState("claiming") /\ Enter("select")
  /\ UNCHANGED <<faults, shown>>

StreamStep ==
  \/ TickPreview \/ PreviewReads \/ PreviewResolves \/ WriteFrames
  \/ ClaimOnTick \/ ClaimProceeds
  \/ FinalClaim \/ FailsOnClosed \/ ClaimOnClosed \/ Cancelled

\* A call fails although the connection is open: the last claim runs out of
\* its five seconds, a store answers with an error; or the process dies.
StreamFails ==
  \/ /\ Abort(Watcher)
     /\ IF InState("claiming") THEN Enter("select") ELSE stream' = Off
     /\ UNCHANGED shown
  \/ /\ RedisFails(Watcher)
     /\ AfterCall(IF InState("claiming") THEN "select" ELSE "off")
     /\ UNCHANGED shown
  \/ /\ ~InState("off") /\ ~Active(Watcher)
     /\ Fault
     /\ stream' = Off
     /\ UNCHANGED <<now, store, req, starts, history, unguarded, shown>>

OthersStep ==
  /\ \/ Tick
     \/ CacheLost
     \/ \E r \in Others : (Arrival(r) /\ req'[r].op \in OtherEndpoints) \/ RequestStep(r) \/ Abort(r) \/ RedisFails(r)
  /\ UNCHANGED streamVars

StreamNext == OthersStep \/ Connect \/ Disconnect \/ StreamStep \/ StreamFails

\* The goroutine of the stream is scheduled, its ticker fires, and its calls
\* return.  Nobody else has to do anything.
StreamSpec == StreamInit /\ [][StreamNext]_allVars /\ WF_allVars(StreamStep)

-----------------------------------------------------------------------------
(* Properties.                                                             *)

Due == row # NoRow /\ row.lastTime < now

\* A player who watches and to whom something is always due is credited again
\* and again, unless the session is for ever started over: by the claim of every
\* ClaimEvery-th tick if by no other, whatever stale copy of the anchor the cache
\* was left with and however often claims were lost.
WatchedProgress ==
  <>[](Due /\ stream.open) => []<><<row'.lastIndex # row.lastIndex>>_allVars

\* The goroutine of a closed connection ends.
StreamEnds == ~stream.open ~> InState("off")

\* An event of a session is sent once to a connection, although each preview
\* resolves again all there is since the anchor, and the anchor of the cache
\* may be an old one.
ShownOnce == \A s \in Seeds, i \in Events : shown[s][i] <= 1

Credited(s, i) == \E q \in Seeds : ledger[q][s][i] > 0

\* An event the connection has passed over was credited by a claim between two
\* previews: the anchor of a preview, cached or not, covers no unpaid event.
\* On a connection that outlives the session the events of the next one are
\* withheld up to lastIdx, so this ends with a restart; and with a start that
\* overlaps a claim, which may save the anchor of one session on the row of the
\* next.
UnseenIsPaid ==
  ~unguarded /\ ~stream.restarted =>
    \A i \in stream.cut .. stream.lastIdx :
      i \in stream.fresh \/ shown[stream.seed][i] > 0 \/ Credited(stream.seed, i)

-----------------------------------------------------------------------------
(* The inductive invariants behind ShownOnce and UnseenIsPaid.             *)

PaidBelow(s, n) == \A i \in Events : i < n => Credited(s, i)

\* The events below the anchor of any copy of a session were paid, of a session
\* that was stopped since too.
CopyPaid ==
  /\ PaidBelow(cache.row.seed, cache.row.lastIndex)
  /\ \A r \in Requests :
       req[r].pc \in Holding \union {"startSession", "cacheStart"} =>
         PaidBelow(req[r].hot.row.seed, Anchor(r))

\* lastIdx is the highest event that was sent, or is about to be, to this
\* connection; what lastN cut off lies below the last LastN of those.
ConnectionInv ==
  /\ ShownOnce
  /\ stream.seed = 0 => stream.lastIdx = -1
  /\ stream.cut = 0 \/ stream.cut + LastN <= stream.lastIdx + 1
  /\ ~InState("write") => stream.fresh = {}
  /\ \A i \in stream.fresh : i <= stream.lastIdx /\ \A s \in Seeds : shown[s][i] = 0
  /\ ~InState("off") => \A s \in Seeds, i \in Events : shown[s][i] > 0 => i <= stream.lastIdx

StreamInv == ConnectionInv /\ (~unguarded => CopyPaid) /\ UnseenIsPaid

-----------------------------------------------------------------------------
\* "Só eventos novos (índice maior que o último enviado)" (ws.go:72), one
\* message "por captura/escape resolvida" (ARCHITECTURE.md:763): an event of a
\* preview that the connection was not sent is among the fresh ones.  lastIdx
\* outlives the session it counts, and a new session starts again from zero.
NewIsSent ==
  [][PreviewResolves =>
       LET r == req[Watcher].hot.row
       IN  \A i \in Newest(r, Resolved(r, 0)) : shown[r.seed][i] = 0 => i \in stream'.fresh]_allVars
=============================================================================
