---------------------------- MODULE AtomicSession ----------------------------
(***************************************************************************)
(* What a player's fishing session promises: the players row and the       *)
(* session row change as if every request of internal/usecase ran alone,   *)
(* in one step.  FishingSession runs the requests call by call, through a  *)
(* cache, and implements this module until requests overlap in one of the  *)
(* ways nothing in the code detects; from then on nothing is promised.     *)
(***************************************************************************)
EXTENDS Integers

CONSTANTS Locations, FastForwards, XPPerLevel, OfflineCap, NoLogout, NoRow

VARIABLES
  now,
  player,     \* xp, level, skill points, best location, last logout
  session,    \* the session row, or NoRow
  overlapped  \* requests overlapped in a way nothing detects

vars == <<now, player, session, overlapped>>

\* GAMEPLAY.md:190: level and skill points are those of the XP.
Paid(p, n) ==
  LET xp == p.xp + n
  IN  [p EXCEPT !.xp = xp, !.level = xp \div XPPerLevel + 1, !.points = xp \div XPPerLevel]

\* Fishing at a better location than the best one known makes it the best.
Reached(p, loc) == [p EXCEPT !.highest = IF loc > @ THEN loc ELSE @]

\* The events of the session that have ended by now.
Ended(ff) == (IF now > session.lastTime THEN now - session.lastTime ELSE 0) + ff

Tick ==
  /\ now' = now + 1
  /\ UNCHANGED <<player, session>>

\* A start may overwrite a running session, at the time at which it arrived.
Start ==
  /\ \E loc \in Locations, t \in 0 .. now :
       session' = [session' EXCEPT !.loc = loc, !.startTime = t, !.lastIndex = 0, !.lastTime = t]
  /\ session'.seed # session.seed
  /\ UNCHANGED <<now, player>>

\* Some of the events that are due are paid, each for the first time, and the
\* anchor moves past them.
Claim ==
  /\ session # NoRow
  /\ \E ff \in FastForwards : \E n \in 0 .. Ended(ff) :
       /\ player' = Reached(Paid(player, n), session.loc)
       /\ session' = [session EXCEPT !.lastIndex = @ + n, !.lastTime = @ + n]
  /\ UNCHANGED now

Stop ==
  /\ session' = NoRow
  /\ UNCHANGED <<now, player>>

Leave ==
  /\ player' = [player EXCEPT !.logout = now]
  /\ UNCHANGED <<now, session>>

\* The offline reward: no session, and one reward for one logout.
Reward ==
  /\ session = NoRow
  /\ player.logout # NoLogout
  /\ \E n \in 1 .. OfflineCap : player' = [Paid(player, n) EXCEPT !.logout = NoLogout]
  /\ UNCHANGED <<now, session>>

Next ==
  \/ /\ ~overlapped'
     /\ Tick \/ Start \/ Claim \/ Stop \/ Leave \/ Reward
  \/ overlapped'

Init ==
  /\ now = 0
  /\ session = NoRow
  /\ player.level = player.xp \div XPPerLevel + 1
  /\ player.points = player.xp \div XPPerLevel
  /\ overlapped = FALSE

Spec == Init /\ [][Next]_vars
=============================================================================
