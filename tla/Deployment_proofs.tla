--------------------------- MODULE Deployment_proofs ---------------------------
(***************************************************************************)
(* Proofs about a deployment: what Migrate_proofs and Server_proofs show   *)
(* of runners and servers carries over to the logins they serve, and       *)
(* DeploymentInv is an invariant of the specification.                     *)
(***************************************************************************)
EXTENDS Deployment, Server_proofs

-----------------------------------------------------------------------------
(* The local state of a request.                                           *)

LEMMA NoLoginType == NoLogin \in Logins
<1>1. (CHOOSE s \in Servers : TRUE) \in Servers /\ (CHOOSE a \in Steams : TRUE) \in Steams
  BY ArrivalsAssumption
<1> QED
  BY <1>1 DEF NoLogin, Logins, Steps

\* Every update of a request replaces its frame and no other.
LEMMA FrameEffect ==
  ASSUME AccountsTypeOK, NEW r \in Requests, NEW frame \in Logins,
         login' = [login EXCEPT ![r] = frame]
  PROVE  /\ login' \in [Requests -> Logins]
         /\ login'[r] = frame
         /\ \A q \in Requests \ {r} : login'[q] = login[q]
BY DEF AccountsTypeOK

LEMMA GotoEffect ==
  ASSUME AccountsTypeOK, NEW r \in Requests, NEW step \in Steps, Goto(r, step)
  PROVE  /\ login' \in [Requests -> Logins]
         /\ login'[r] = [login[r] EXCEPT !.pc = step]
         /\ \A q \in Requests \ {r} : login'[q] = login[q]
<1> DEFINE frame == [login[r] EXCEPT !.pc = step]
<1>1. frame \in Logins /\ login' = [login EXCEPT ![r] = frame]
  BY DEF AccountsTypeOK, Goto, Logins
<1> HIDE DEF frame
<1>2. /\ login' \in [Requests -> Logins] /\ login'[r] = frame
      /\ \A q \in Requests \ {r} : login'[q] = login[q]
  BY <1>1, FrameEffect
<1> QED
  BY <1>2 DEF frame

LEMMA PlayerEffect ==
  ASSUME AccountsTypeOK, NEW r \in Requests, NEW step \in Steps, NEW id \in PlayerIds,
         login' = [login EXCEPT ![r].player = id, ![r].pc = step]
  PROVE  /\ login' \in [Requests -> Logins]
         /\ login'[r] = [login[r] EXCEPT !.player = id, !.pc = step]
         /\ \A q \in Requests \ {r} : login'[q] = login[q]
<1> DEFINE frame == [login[r] EXCEPT !.player = id, !.pc = step]
<1>1. frame \in Logins /\ login' = [login EXCEPT ![r] = frame]
  BY DEF AccountsTypeOK, Logins
<1> HIDE DEF frame
<1>2. /\ login' \in [Requests -> Logins] /\ login'[r] = frame
      /\ \A q \in Requests \ {r} : login'[q] = login[q]
  BY <1>1, FrameEffect
<1> QED
  BY <1>2 DEF frame

LEMMA KitEffect ==
  ASSUME AccountsTypeOK, NEW r \in Requests, NEW step \in Steps, NEW kit \in SUBSET Kit,
         login' = [login EXCEPT ![r].kit = kit, ![r].pc = step]
  PROVE  /\ login' \in [Requests -> Logins]
         /\ login'[r] = [login[r] EXCEPT !.kit = kit, !.pc = step]
         /\ \A q \in Requests \ {r} : login'[q] = login[q]
<1> DEFINE frame == [login[r] EXCEPT !.kit = kit, !.pc = step]
<1>1. frame \in Logins /\ login' = [login EXCEPT ![r] = frame]
  BY DEF AccountsTypeOK, Logins
<1> HIDE DEF frame
<1>2. /\ login' \in [Requests -> Logins] /\ login'[r] = frame
      /\ \A q \in Requests \ {r} : login'[q] = login[q]
  BY <1>1, FrameEffect
<1> QED
  BY <1>2 DEF frame

\* A server that answers a login has the starter pack in every table.
LEMMA KnowsTheStarter ==
  ASSUME ServerInv, NEW r \in Requests, AccountsTypeOK, LoginInv(r), ~At(r, "idle"),
         NEW t \in Tables
  PROVE  Knows(r, t)
<1>1. login[r].on \in Servers
  BY DEF AccountsTypeOK, Logins
<1>2. server[login[r].on].pc \in {"serving", "draining"}
  BY DEF LoginInv
<1>3. Shipped(login[r].on, t) \subseteq server[login[r].on].catalogue[t]
  BY <1>1, <1>2, ServesTheStarter DEF ServesWhatItShips
<1>4. Starter \in Shipped(login[r].on, t)
  <2>1. PICK f \in 1 .. Ships[ImageOf[login[r].on]] : PackOf[f] = Starter /\ t \in Seeds[f]
    BY <1>1, StarterShippedAssumption
  <2> QED
    BY <2>1 DEF Shipped
<1> QED
  BY <1>3, <1>4 DEF Knows

-----------------------------------------------------------------------------
(* A step of one request and the others.                                   *)

\* The players there are after a step of r: those before, and one more when
\* its transaction commits.
PlayersAfter(r) ==
  \/ players' = players
  \/ At(r, "commit") /\ players' = players \union {Inserted(r)}

\* What r may not do to the others: enter a transaction on an account that
\* another one holds.
KeepsAway(r) == InTransaction(r)' => login'[r].steam = login[r].steam /\ ~AccountHeld(r)

LEMMA OtherLogins ==
  ASSUME AccountsInv, NEW r \in Requests, PlayersAfter(r), KeepsAway(r),
         \A q \in Requests \ {r} : login'[q] = login[q],
         UNCHANGED server, accounts \subseteq accounts',
         NEW q \in Requests \ {r}
  PROVE  LoginInv(q)'
<1>1. LoginInv(q) /\ LoginInv(r) /\ login'[q] = login[q] /\ players \subseteq players'
  BY DEF AccountsInv, PlayersAfter
<1>2. /\ ~At(q, "idle")' => server'[login'[q].on].pc \in {"serving", "draining"}
      /\ login'[q].pc \notin {"idle", "verify", "upsert"} => login'[q].steam \in accounts'
      /\ login'[q].pc \notin {"issue", "answer"} => login'[q].kit = Given(login'[q].pc)
  BY <1>1 DEF LoginInv, At
<1>3. login'[q].pc \in {"issue", "answer"} =>
        \E p \in players' : p.id = login'[q].player /\ p.account = login'[q].steam
  BY <1>1 DEF LoginInv
<1>4. ASSUME InTransaction(q)'
      PROVE  ~AccountHeld(q)' /\ PlayersOf(login[q].steam)' = {} /\ login'[q].player \in PlayerIds
  <2>1. /\ InTransaction(q) /\ ~AccountHeld(q) /\ PlayersOf(login[q].steam) = {}
        /\ login[q].player \in PlayerIds
    BY <1>1, <1>4 DEF InTransaction, LoginInv
  <2>2. ~AccountHeld(q)'
    <3>1. ASSUME InTransaction(r)', login'[r].steam = login'[q].steam PROVE FALSE
      BY <1>1, <2>1, <3>1 DEF KeepsAway, AccountHeld
    <3> QED
      BY <1>1, <2>1, <3>1 DEF AccountHeld, InTransaction
  <2>3. PlayersOf(login[q].steam)' = {}
    <3>1. At(r, "commit") => login[r].steam # login[q].steam
      BY <1>1, <2>1 DEF LoginInv, InTransaction, AccountHeld, At
    <3>2. Inserted(r).account = login[r].steam
      BY DEF Inserted
    <3> QED
      BY <1>1, <2>1, <3>1, <3>2 DEF PlayersAfter, PlayersOf
  <2> QED
    BY <1>1, <2>1, <2>2, <2>3
<1> QED
  BY <1>2, <1>3, <1>4 DEF LoginInv

\* The player that a commit adds is the only one of its account, with all of
\* the kit.
LEMMA PlayersKept ==
  ASSUME AccountsInv, NEW r \in Requests, PlayersAfter(r), accounts \subseteq accounts'
  PROVE  players' \subseteq PlayerRows /\ OnePlayerPerAccount' /\ KitComplete'
<1>1. AccountsTypeOK /\ OnePlayerPerAccount /\ KitComplete /\ LoginInv(r)
  BY DEF AccountsInv
<1>2. CASE players' = players
  BY <1>1, <1>2 DEF AccountsTypeOK, OnePlayerPerAccount, KitComplete
<1>3. CASE At(r, "commit") /\ players' = players \union {Inserted(r)}
  <2>1. /\ InTransaction(r) /\ PlayersOf(login[r].steam) = {} /\ login[r].player \in PlayerIds
        /\ login[r].kit = Kit /\ login[r].steam \in accounts
    BY <1>1, <1>3 DEF LoginInv, InTransaction, At, Given
  <2>2. login[r].steam \in Steams
    BY <1>1 DEF AccountsTypeOK, Logins
  <2>3. /\ Inserted(r).id = login[r].player /\ Inserted(r).account = login[r].steam
        /\ Inserted(r).kit = Kit /\ Inserted(r) \in PlayerRows
    BY <2>1, <2>2 DEF Inserted, PlayerRows
  <2>4. \A p \in players : p.account # Inserted(r).account
    BY <2>1, <2>3 DEF PlayersOf
  <2> QED
    BY <1>1, <1>3, <2>1, <2>3, <2>4 DEF AccountsTypeOK, OnePlayerPerAccount, KitComplete
<1> QED
  BY <1>2, <1>3 DEF PlayersAfter

LEMMA RequestKeeps ==
  ASSUME AccountsInv, NEW r \in Requests, PlayersAfter(r), KeepsAway(r),
         login' \in [Requests -> Logins],
         \A q \in Requests \ {r} : login'[q] = login[q],
         UNCHANGED server, accounts \subseteq accounts', accounts' \subseteq Steams,
         LoginInv(r)'
  PROVE  AccountsInv'
<1>1. \A q \in Requests \ {r} : LoginInv(q)'
  BY OtherLogins
<1>2. players' \subseteq PlayerRows /\ OnePlayerPerAccount' /\ KitComplete'
  BY PlayersKept
<1> QED
  BY <1>1, <1>2 DEF AccountsInv, AccountsTypeOK

-----------------------------------------------------------------------------
(* The steps of a login.                                                   *)

\* A request that ends leaves nothing behind but a player it has committed.
LEMMA ReturnKeeps ==
  ASSUME AccountsInv, NEW r \in Requests, Return(r), PlayersAfter(r), UNCHANGED <<server, accounts>>
  PROVE  AccountsInv'
<1>1. AccountsTypeOK
  BY DEF AccountsInv
<1>2. /\ login' \in [Requests -> Logins] /\ login'[r] = NoLogin
      /\ \A q \in Requests \ {r} : login'[q] = login[q]
  BY <1>1, NoLoginType, FrameEffect DEF Return
<1>3. login'[r].pc = "idle" /\ login'[r].kit = {}
  BY <1>2 DEF NoLogin
<1>4. LoginInv(r)' /\ KeepsAway(r)
  BY <1>3 DEF LoginInv, KeepsAway, InTransaction, At, Given
<1> QED
  BY <1>1, <1>2, <1>4, RequestKeeps DEF AccountsTypeOK

LEMMA ArriveKeeps ==
  ASSUME AccountsInv, NEW r \in Requests, NEW s \in Servers, NEW a \in Steams, Arrive(r, s, a),
         UNCHANGED server
  PROVE  AccountsInv'
<1> DEFINE frame == [NoLogin EXCEPT !.pc = "verify", !.on = s, !.steam = a]
<1>1. AccountsTypeOK
  BY DEF AccountsInv
<1>2. frame \in Logins /\ frame.pc = "verify" /\ frame.on = s /\ frame.kit = {}
  BY NoLoginType DEF NoLogin, Logins, Steps
<1>3. login' = [login EXCEPT ![r] = frame]
  BY DEF Arrive
<1> HIDE DEF frame
<1>4. /\ login' \in [Requests -> Logins] /\ login'[r] = frame
      /\ \A q \in Requests \ {r} : login'[q] = login[q]
  BY <1>1, <1>2, <1>3, FrameEffect
<1>5. LoginInv(r)' /\ KeepsAway(r)
  BY <1>2, <1>4 DEF LoginInv, KeepsAway, InTransaction, At, Given, Arrive, Serving
<1>6. PlayersAfter(r) /\ UNCHANGED accounts
  BY DEF Arrive, PlayersAfter
<1> QED
  BY <1>1, <1>4, <1>5, <1>6, RequestKeeps DEF AccountsTypeOK

\* The fields of a request after it has moved on.
LEMMA Moved ==
  ASSUME AccountsTypeOK, NEW r \in Requests, NEW step \in Steps, Goto(r, step)
  PROVE  /\ login' \in [Requests -> Logins]
         /\ \A q \in Requests \ {r} : login'[q] = login[q]
         /\ login'[r].pc = step /\ login'[r].on = login[r].on /\ login'[r].steam = login[r].steam
         /\ login'[r].player = login[r].player /\ login'[r].kit = login[r].kit
<1>1. login[r] \in Logins
  BY DEF AccountsTypeOK
<1>2. /\ login' \in [Requests -> Logins]
      /\ login'[r] = [login[r] EXCEPT !.pc = step]
      /\ \A q \in Requests \ {r} : login'[q] = login[q]
  BY GotoEffect
<1> QED
  BY <1>1, <1>2 DEF Logins

LEMMA EarlyStepKeeps ==
  ASSUME AccountsInv, NEW r \in Requests, Verify(r) \/ UpsertAccountBySteam(r) \/ Issue(r),
         UNCHANGED server
  PROVE  AccountsInv'
<1>1. AccountsTypeOK /\ LoginInv(r)
  BY DEF AccountsInv
<1>2. PICK step \in {"upsert", "lookup", "answer"} : Goto(r, step)
  BY DEF Verify, UpsertAccountBySteam, Issue
<1>3. /\ login' \in [Requests -> Logins]
      /\ \A q \in Requests \ {r} : login'[q] = login[q]
      /\ login'[r].pc = step /\ login'[r].on = login[r].on /\ login'[r].steam = login[r].steam
      /\ login'[r].player = login[r].player /\ login'[r].kit = login[r].kit
  BY <1>1, <1>2, Moved DEF Steps
<1>4. /\ players' = players /\ accounts \subseteq accounts' /\ accounts' \subseteq Steams
      /\ PlayersAfter(r)
  BY <1>1 DEF Verify, UpsertAccountBySteam, Issue, AccountsTypeOK, Logins, PlayersAfter
<1>5. CASE Verify(r)
  <2>1. step = "upsert"
    BY <1>1, <1>3, <1>5, Moved DEF Verify, Steps
  <2>2. LoginInv(r)' /\ KeepsAway(r)
    BY <1>1, <1>3, <1>5, <2>1 DEF LoginInv, KeepsAway, InTransaction, At, Given, Verify
  <2> QED
    BY <1>3, <1>4, <2>2, RequestKeeps
<1>6. CASE UpsertAccountBySteam(r)
  <2>1. step = "lookup"
    BY <1>1, <1>3, <1>6, Moved DEF UpsertAccountBySteam, Steps
  <2>2. LoginInv(r)' /\ KeepsAway(r)
    BY <1>1, <1>3, <1>6, <2>1 DEF LoginInv, KeepsAway, InTransaction, At, Given, UpsertAccountBySteam
  <2> QED
    BY <1>3, <1>4, <2>2, RequestKeeps
<1>7. CASE Issue(r)
  <2>1. step = "answer"
    BY <1>1, <1>3, <1>7, Moved DEF Issue, Steps
  <2>2. LoginInv(r)' /\ KeepsAway(r)
    BY <1>1, <1>3, <1>4, <1>7, <2>1 DEF LoginInv, KeepsAway, InTransaction, At, Given, Issue
  <2> QED
    BY <1>3, <1>4, <2>2, RequestKeeps
<1> QED
  BY <1>5, <1>6, <1>7

LEMMA GetPlayerByAccountKeeps ==
  ASSUME AccountsInv, NEW r \in Requests, GetPlayerByAccount(r), UNCHANGED server
  PROVE  AccountsInv'
<1>1. AccountsTypeOK /\ LoginInv(r) /\ At(r, "lookup") /\ UNCHANGED <<accounts, players>>
  BY DEF AccountsInv, GetPlayerByAccount
<1>2. PlayersAfter(r) /\ accounts' \subseteq Steams
  BY <1>1 DEF PlayersAfter, AccountsTypeOK
<1>3. ASSUME NEW p \in PlayersOf(login[r].steam),
             login' = [login EXCEPT ![r].player = p.id, ![r].pc = "issue"]
      PROVE  AccountsInv'
  <2>1. p \in players /\ p.id \in PlayerIds /\ p.account = login[r].steam
    BY <1>1, <1>3 DEF AccountsTypeOK, PlayersOf, PlayerRows
  <2>2. /\ login' \in [Requests -> Logins]
        /\ login'[r] = [login[r] EXCEPT !.player = p.id, !.pc = "issue"]
        /\ \A q \in Requests \ {r} : login'[q] = login[q]
    BY <1>1, <1>3, <2>1, PlayerEffect DEF Steps
  <2>3. /\ login'[r].pc = "issue" /\ login'[r].player = p.id
        /\ login'[r].on = login[r].on /\ login'[r].steam = login[r].steam
    BY <1>1, <2>2 DEF AccountsTypeOK, Logins
  <2>4. LoginInv(r)' /\ KeepsAway(r)
    BY <1>1, <2>1, <2>3 DEF LoginInv, KeepsAway, InTransaction, At
  <2> QED
    BY <1>1, <1>2, <2>2, <2>4, RequestKeeps
<1>4. ASSUME Goto(r, "insert") PROVE AccountsInv'
  <2>1. /\ login' \in [Requests -> Logins]
        /\ \A q \in Requests \ {r} : login'[q] = login[q]
        /\ login'[r].pc = "insert" /\ login'[r].on = login[r].on
        /\ login'[r].steam = login[r].steam /\ login'[r].kit = login[r].kit
    BY <1>1, <1>4, Moved DEF Steps
  <2>2. LoginInv(r)' /\ KeepsAway(r)
    BY <1>1, <2>1 DEF LoginInv, KeepsAway, InTransaction, At, Given
  <2> QED
    BY <1>1, <1>2, <2>1, <2>2, RequestKeeps
<1>5. ASSUME Return(r) PROVE AccountsInv'
  BY <1>1, <1>2, <1>5, ReturnKeeps
<1> QED
  BY <1>3, <1>4, <1>5 DEF GetPlayerByAccount

\* The insert: alone on the account, or refused.
LEMMA InsertPlayerKeeps ==
  ASSUME AccountsInv, NEW r \in Requests, InsertPlayer(r), UNCHANGED server
  PROVE  AccountsInv'
<1>1. /\ AccountsTypeOK /\ LoginInv(r) /\ At(r, "insert") /\ ~AccountHeld(r)
      /\ UNCHANGED <<accounts, players>>
  BY DEF AccountsInv, InsertPlayer
<1>2. PlayersAfter(r) /\ accounts' \subseteq Steams
  BY <1>1 DEF PlayersAfter, AccountsTypeOK
<1>3. ASSUME PlayersOf(login[r].steam) # {}, Goto(r, "refused") PROVE AccountsInv'
  <2>1. /\ login' \in [Requests -> Logins]
        /\ \A q \in Requests \ {r} : login'[q] = login[q]
        /\ login'[r].pc = "refused" /\ login'[r].on = login[r].on
        /\ login'[r].steam = login[r].steam /\ login'[r].kit = login[r].kit
    BY <1>1, <1>3, Moved DEF Steps
  <2>2. LoginInv(r)' /\ KeepsAway(r)
    BY <1>1, <2>1 DEF LoginInv, KeepsAway, InTransaction, At, Given
  <2> QED
    BY <1>1, <1>2, <2>1, <2>2, RequestKeeps
<1>4. ASSUME PlayersOf(login[r].steam) = {}, NEW id \in PlayerIds,
             login' = [login EXCEPT ![r].player = id, ![r].pc = "equipment"]
      PROVE  AccountsInv'
  <2>1. /\ login' \in [Requests -> Logins]
        /\ login'[r] = [login[r] EXCEPT !.player = id, !.pc = "equipment"]
        /\ \A q \in Requests \ {r} : login'[q] = login[q]
    BY <1>1, <1>4, PlayerEffect DEF Steps
  <2>2. /\ login'[r].pc = "equipment" /\ login'[r].player = id /\ login'[r].kit = login[r].kit
        /\ login'[r].on = login[r].on /\ login'[r].steam = login[r].steam
    BY <1>1, <2>1 DEF AccountsTypeOK, Logins
  <2>3. ~AccountHeld(r)' /\ PlayersOf(login[r].steam)' = {}
    BY <1>1, <1>4, <2>1, <2>2 DEF AccountHeld, InTransaction, PlayersOf
  <2>4. LoginInv(r)' /\ KeepsAway(r)
    BY <1>1, <2>2, <2>3 DEF LoginInv, KeepsAway, At, Given
  <2> QED
    BY <1>1, <1>2, <2>1, <2>4, RequestKeeps
<1>5. ASSUME Return(r) PROVE AccountsInv'
  BY <1>1, <1>2, <1>5, ReturnKeeps
<1> QED
  BY <1>3, <1>4, <1>5 DEF InsertPlayer

\* Inside its transaction a login goes on with what its step has given.
LEMMA InsertKeeps ==
  ASSUME AccountsInv, NEW r \in Requests, InTransaction(r), UNCHANGED <<server, accounts, players>>,
         NEW step \in {"baits", "pet", "commit"}, NEW kit \in SUBSET Kit, kit = Given(step),
         login' = [login EXCEPT ![r].kit = kit, ![r].pc = step]
  PROVE  AccountsInv'
<1>1. AccountsTypeOK /\ LoginInv(r)
  BY DEF AccountsInv
<1>2. PlayersAfter(r) /\ accounts' \subseteq Steams
  BY <1>1 DEF PlayersAfter, AccountsTypeOK
<1>3. /\ login' \in [Requests -> Logins]
      /\ login'[r] = [login[r] EXCEPT !.kit = kit, !.pc = step]
      /\ \A q \in Requests \ {r} : login'[q] = login[q]
  BY <1>1, KitEffect DEF Steps
<1>4. /\ login'[r].pc = step /\ login'[r].kit = kit /\ login'[r].player = login[r].player
      /\ login'[r].on = login[r].on /\ login'[r].steam = login[r].steam
  BY <1>1, <1>3 DEF AccountsTypeOK, Logins
<1>5. ~AccountHeld(r) /\ ~AccountHeld(r)' /\ PlayersOf(login[r].steam)' = {}
  BY <1>1, <1>3, <1>4 DEF LoginInv, AccountHeld, InTransaction, PlayersOf
<1>6. /\ server'[login'[r].on].pc \in {"serving", "draining"}
      /\ login'[r].steam \in accounts' /\ login'[r].player \in PlayerIds
  BY <1>1, <1>4 DEF LoginInv, At, InTransaction
<1>7. LoginInv(r)'
  BY <1>4, <1>5, <1>6 DEF LoginInv, At, InTransaction
<1>8. KeepsAway(r)
  BY <1>4, <1>5 DEF KeepsAway
<1> QED
  BY <1>2, <1>3, <1>7, <1>8, RequestKeeps

LEMMA InsertsKeep ==
  ASSUME AccountsInv, ServerInv, NEW r \in Requests,
         InsertEquipment(r) \/ InsertBaits(r) \/ InsertPet(r), UNCHANGED server
  PROVE  AccountsInv'
<1>1. /\ AccountsTypeOK /\ LoginInv(r) /\ InTransaction(r) /\ ~At(r, "idle")
      /\ UNCHANGED <<accounts, players>>
  BY DEF AccountsInv, InsertEquipment, InsertBaits, InsertPet, InTransaction, At
<1>2. login[r].kit = Given(login[r].pc)
  BY <1>1 DEF LoginInv, InTransaction
<1>3. Knows(r, "equipment") /\ Knows(r, "baits")
  BY <1>1, KnowsTheStarter DEF Tables
<1>4. CASE InsertEquipment(r)
  <2> DEFINE kit == login[r].kit \union {"equipment"}
  <2>1. kit = Given("baits") /\ kit \in SUBSET Kit
    BY <1>2, <1>4 DEF InsertEquipment, At, Given, Kit
  <2>2. login' = [login EXCEPT ![r].kit = kit, ![r].pc = "baits"]
    BY <1>1, <1>3, <1>4 DEF InsertEquipment, AccountsTypeOK
  <2> HIDE DEF kit
  <2> QED
    BY <1>1, <2>1, <2>2, InsertKeeps
<1>5. CASE InsertBaits(r)
  <2> DEFINE kit == login[r].kit \union {"consumable", "durable"}
  <2>1. kit = Given("pet") /\ kit \in SUBSET Kit
    BY <1>2, <1>5 DEF InsertBaits, At, Given, Kit
  <2>2. login' = [login EXCEPT ![r].kit = kit, ![r].pc = "pet"]
    BY <1>1, <1>3, <1>5 DEF InsertBaits, AccountsTypeOK
  <2> HIDE DEF kit
  <2> QED
    BY <1>1, <2>1, <2>2, InsertKeeps
<1>6. CASE InsertPet(r) /\ Starter \in Seeded("extras")
  <2> DEFINE kit == login[r].kit \union {"pet"}
  <2>1. kit = Given("commit") /\ kit \in SUBSET Kit
    BY <1>2, <1>6 DEF InsertPet, At, Given, Kit
  <2>2. login' = [login EXCEPT ![r].kit = kit, ![r].pc = "commit"]
    BY <1>1, <1>6 DEF InsertPet, AccountsTypeOK
  <2> HIDE DEF kit
  <2> QED
    BY <1>1, <2>1, <2>2, InsertKeeps
<1>7. CASE InsertPet(r) /\ Starter \notin Seeded("extras")
  BY <1>1, <1>7, ReturnKeeps DEF InsertPet, PlayersAfter
<1> QED
  BY <1>4, <1>5, <1>6, <1>7

LEMMA CommitPlayerKeeps ==
  ASSUME AccountsInv, NEW r \in Requests, CommitPlayer(r), UNCHANGED server
  PROVE  AccountsInv'
<1>1. /\ AccountsTypeOK /\ LoginInv(r) /\ PlayersAfter(r) /\ UNCHANGED accounts
      /\ Inserted(r) \in players' /\ At(r, "commit")
  BY DEF AccountsInv, CommitPlayer, PlayersAfter
<1>2. /\ login' \in [Requests -> Logins]
      /\ \A q \in Requests \ {r} : login'[q] = login[q]
      /\ login'[r].pc = "issue" /\ login'[r].on = login[r].on
      /\ login'[r].steam = login[r].steam /\ login'[r].player = login[r].player
  BY <1>1, Moved DEF Steps, CommitPlayer
<1>3. Inserted(r).id = login[r].player /\ Inserted(r).account = login[r].steam
  BY DEF Inserted
<1>4. LoginInv(r)' /\ KeepsAway(r)
  BY <1>1, <1>2, <1>3 DEF LoginInv, KeepsAway, InTransaction, At
<1> QED
  BY <1>1, <1>2, <1>4, RequestKeeps DEF AccountsTypeOK

\* Every step of a request, and every way it ends.
LEMMA LoginKeeps ==
  ASSUME AccountsInv, ServerInv, UNCHANGED server, NEW r \in Requests,
         \/ LoginStep(r)
         \/ \E s \in Servers, a \in Steams : Arrive(r, s, a)
         \/ AbortLogin(r)
         \/ CommitUnheard(r)
  PROVE  AccountsInv'
<1>1. CASE Verify(r) \/ UpsertAccountBySteam(r) \/ Issue(r)
  BY <1>1, EarlyStepKeeps
<1>2. CASE GetPlayerByAccount(r)
  BY <1>2, GetPlayerByAccountKeeps
<1>3. CASE InsertPlayer(r)
  BY <1>3, InsertPlayerKeeps
<1>4. CASE InsertEquipment(r) \/ InsertBaits(r) \/ InsertPet(r)
  BY <1>4, InsertsKeep
<1>5. CASE CommitPlayer(r)
  BY <1>5, CommitPlayerKeeps
<1>6. CASE Answer(r) \/ AbortLogin(r)
  BY <1>6, ReturnKeeps DEF Answer, AbortLogin, PlayersAfter
<1>7. CASE CommitUnheard(r)
  BY <1>7, ReturnKeeps DEF CommitUnheard, PlayersAfter
<1>8. CASE \E s \in Servers, a \in Steams : Arrive(r, s, a)
  BY <1>8, ArriveKeeps
<1> QED
  BY <1>1, <1>2, <1>3, <1>4, <1>5, <1>6, <1>7, <1>8 DEF LoginStep

-----------------------------------------------------------------------------
(* The steps of servers.                                                   *)

\* A request is only served by a server that serves or drains.
LEMMA ServersKeep ==
  ASSUME AccountsInv, UNCHANGED accountVars,
         \A r \in Requests : ~At(r, "idle") => server'[login[r].on].pc \in {"serving", "draining"}
  PROVE  AccountsInv'
<1>1. AccountsTypeOK' /\ OnePlayerPerAccount' /\ KitComplete'
  BY DEF AccountsInv, AccountsTypeOK, OnePlayerPerAccount, KitComplete, accountVars
<1>2. ASSUME NEW r \in Requests PROVE LoginInv(r)'
  BY DEF AccountsInv, LoginInv, AccountHeld, InTransaction, At, PlayersOf, accountVars
<1> QED
  BY <1>1, <1>2 DEF AccountsInv

LEMMA BootingKeeps ==
  ASSUME AccountsInv, ServerInv, UNCHANGED accountVars, NEW s \in Servers, Booting(s)
  PROVE  AccountsInv'
<1>1. server \in [Servers -> ServerStates] /\ server[s].pc \in Tables \union {"down"}
  BY DEF ServerInv, ServerTypeOK, Booting, Boot, LoadTable, LoadSpawnTables, Tables
<1>2. \A q \in Servers \ {s} : server'[q] = server[q]
  BY <1>1 DEF Booting, Boot, LoadTable, LoadSpawnTables, Load, Exit
<1>3. ASSUME NEW r \in Requests, ~At(r, "idle")
      PROVE  server'[login[r].on].pc \in {"serving", "draining"}
  <2>1. login[r].on \in Servers /\ server[login[r].on].pc \in {"serving", "draining"}
    BY <1>3 DEF AccountsInv, AccountsTypeOK, Logins, LoginInv
  <2>2. login[r].on # s
    BY <1>1, <2>1 DEF Tables
  <2> QED
    BY <1>2, <2>1, <2>2
<1> QED
  BY <1>3, ServersKeep

LEMMA DrainedKeeps ==
  ASSUME AccountsInv, ServerInv, UNCHANGED accountVars, NEW s \in Servers, Drained(s)
  PROVE  AccountsInv'
<1>1. \A q \in Servers \ {s} : server'[q] = server[q]
  BY DEF ServerInv, ServerTypeOK, Drained, Exit
<1>2. ASSUME NEW r \in Requests, ~At(r, "idle")
      PROVE  server'[login[r].on].pc \in {"serving", "draining"}
  BY <1>1, <1>2 DEF AccountsInv, AccountsTypeOK, Logins, LoginInv, Drained, LoginsOn
<1> QED
  BY <1>2, ServersKeep

LEMMA DrainingKeeps ==
  ASSUME AccountsInv, ServerInv, UNCHANGED accountVars, NEW s \in Servers, Shutdown(s)
  PROVE  AccountsInv'
<1>1. /\ server'[s].pc = "draining"
      /\ \A q \in Servers \ {s} : server'[q] = server[q]
  BY PhaseEffect DEF ServerInv, Shutdown
<1>2. ASSUME NEW r \in Requests, ~At(r, "idle")
      PROVE  server'[login[r].on].pc \in {"serving", "draining"}
  BY <1>1, <1>2 DEF AccountsInv, AccountsTypeOK, Logins, LoginInv
<1> QED
  BY <1>2, ServersKeep

\* A process that dies takes its requests along, and no other's.
LEMMA DeathKeeps ==
  ASSUME AccountsInv, ServerInv, NEW s \in Servers, Exit(s), AbortLogins(s)
  PROVE  AccountsInv'
<1>1. AccountsTypeOK /\ OnePlayerPerAccount /\ KitComplete
  BY DEF AccountsInv
<1>2. \A q \in Servers \ {s} : server'[q] = server[q]
  BY DEF ServerInv, ServerTypeOK, Exit
<1>3. /\ login' \in [Requests -> Logins]
      /\ \A r \in Requests : login'[r] = NoLogin \/ (login'[r] = login[r] /\ r \notin LoginsOn(s))
  BY <1>1, NoLoginType DEF AbortLogins, AccountsTypeOK
<1>4. AccountsTypeOK' /\ OnePlayerPerAccount' /\ KitComplete'
  BY <1>1, <1>3 DEF AccountsTypeOK, OnePlayerPerAccount, KitComplete, AbortLogins
<1>5. NoLogin.pc = "idle" /\ NoLogin.kit = {}
  BY DEF NoLogin
<1>6. ASSUME NEW r \in Requests PROVE LoginInv(r)'
  <2>1. CASE login'[r] = NoLogin
    BY <1>5, <2>1 DEF LoginInv, InTransaction, At, Given
  <2>2. CASE login'[r] = login[r] /\ r \notin LoginsOn(s)
    <3>1. LoginInv(r) /\ login[r].on \in Servers
      BY <1>1 DEF AccountsInv, AccountsTypeOK, Logins
    <3>2. ~At(r, "idle")' => server'[login'[r].on].pc \in {"serving", "draining"}
      BY <1>2, <2>2, <3>1 DEF LoginsOn, LoginInv, At
    <3>3. AccountHeld(r)' => AccountHeld(r)
      BY <1>3, <1>5, <2>2 DEF AccountHeld, InTransaction
    <3> QED
      BY <2>2, <3>1, <3>2, <3>3 DEF LoginInv, InTransaction, At, PlayersOf, AbortLogins
  <2> QED
    BY <1>3, <2>1, <2>2
<1> QED
  BY <1>4, <1>6 DEF AccountsInv

-----------------------------------------------------------------------------
(* The deployment.                                                         *)

Inductive == faults \in Nat /\ DeploymentInv

LEMMA InitInductive == Init => Inductive
<1> SUFFICES ASSUME Init PROVE Inductive
  OBVIOUS
<1>1. MigrateInv /\ ServerInv /\ RaceInv
  BY MigrateInitInv, ServerInitInv, RaceInitInv DEF Init
<1>2. AccountsTypeOK
  BY NoLoginType DEF Init, AccountsInit, AccountsTypeOK
<1>3. ASSUME NEW r \in Requests PROVE LoginInv(r)
  BY DEF Init, AccountsInit, NoLogin, LoginInv, InTransaction, At, Given
<1>4. AccountsInv
  BY <1>2, <1>3 DEF Init, AccountsInit, AccountsInv, OnePlayerPerAccount, KitComplete
<1> QED
  BY <1>1, <1>4 DEF Inductive, DeploymentInv, Init

LEMMA NextInductive == Inductive /\ [Next]_vars => Inductive'
<1> SUFFICES ASSUME Inductive, [Next]_vars PROVE Inductive'
  OBVIOUS
<1>1. MigrateInv /\ ServerInv /\ AccountsInv /\ faults \in Nat /\ (faults = 0 => RaceInv)
  BY DEF Inductive, DeploymentInv
<1>2. CASE Migrating
  <2>1. /\ MigrateNext \/ MigrateFault
        /\ UNCHANGED <<server, accountVars>> /\ faults' \in Nat
    BY <1>1, <1>2 DEF Migrating, Fault
  <2>2. MigrateInv' /\ ServerInv'
    BY <1>1, <2>1, MigrateStepInv, VersionsGrow, ServerRestInv
  <2>3. AccountsInv'
    BY <1>1, <2>1, ServersKeep DEF AccountsInv, LoginInv
  <2>4. faults' = 0 => RaceInv'
    BY <1>1, <1>2, RaceStepInv DEF Migrating, Fault
  <2> QED
    BY <2>1, <2>2, <2>3, <2>4 DEF Inductive, DeploymentInv
<1>3. CASE Operating
  <2>1. /\ UNCHANGED migrateVars /\ UNCHANGED versions /\ UNCHANGED accountVars
        /\ faults' \in Nat /\ (faults' = 0 => faults = 0)
    BY <1>1, <1>3 DEF Operating, migrateVars, database
  <2>2. PICK s \in Servers : Booting(s) \/ Drained(s)
    BY <1>3 DEF Operating
  <2>3. ServerInv'
    BY <1>1, <2>1, <2>2, ServerStepInv DEF Booting, Drained
  <2>4. AccountsInv'
    BY <1>1, <2>1, <2>2, BootingKeeps, DrainedKeeps
  <2> QED
    BY <1>1, <2>1, <2>3, <2>4, MigrateStutterInv, RaceStutterInv DEF Inductive, DeploymentInv
<1>4. CASE Terminating
  <2>1. /\ UNCHANGED migrateVars /\ UNCHANGED versions
        /\ faults' \in Nat /\ (faults' = 0 => faults = 0)
    BY <1>1, <1>4 DEF Terminating, Fault, migrateVars, database
  <2>2. PICK s \in Servers :
          \/ Shutdown(s) /\ UNCHANGED accountVars
          \/ Exit(s) /\ AbortLogins(s)
    BY <1>4 DEF Terminating
  <2>3. ServerInv'
    BY <1>1, <2>1, <2>2, ServerStepInv
  <2>4. AccountsInv'
    BY <1>1, <2>2, DrainingKeeps, DeathKeeps
  <2> QED
    BY <1>1, <2>1, <2>3, <2>4, MigrateStutterInv, RaceStutterInv DEF Inductive, DeploymentInv
<1>5. CASE LoggingIn
  <2>1. /\ UNCHANGED migrateVars /\ UNCHANGED versions /\ UNCHANGED server
        /\ faults' \in Nat /\ (faults' = 0 => faults = 0)
    BY <1>1, <1>5 DEF LoggingIn, Fault, migrateVars, database
  <2>2. AccountsInv'
    BY <1>1, <1>5, <2>1, LoginKeeps DEF LoggingIn
  <2> QED
    BY <1>1, <2>1, <2>2, MigrateStutterInv, RaceStutterInv, ServerRestInv DEF Inductive, DeploymentInv
<1>6. CASE UNCHANGED vars
  <2>1. UNCHANGED <<migrateVars, versions, server, accountVars, faults>>
    BY <1>6 DEF vars, migrateVars, database
  <2>2. AccountsInv'
    BY <1>1, <2>1, ServersKeep DEF AccountsInv, LoginInv
  <2> QED
    BY <1>1, <2>1, <2>2, MigrateStutterInv, RaceStutterInv, ServerRestInv DEF Inductive, DeploymentInv
<1> QED
  BY <1>2, <1>3, <1>4, <1>5, <1>6 DEF Next

LEMMA InductiveAlways == Spec => []Inductive
BY InitInductive, NextInductive, PTL DEF Spec

\* The runners, the catalogues of the servers and the players stay what they
\* should be, through races and failures: main.go of cmd/migrate and cmd/api,
\* templates.go, account.go and players.go.
THEOREM DeploymentInvCorrect == Spec => []DeploymentInv
<1>1. Inductive => DeploymentInv
  BY DEF Inductive
<1> QED
  BY <1>1, InductiveAlways, PTL

\* Type correctness of the deployment.
THEOREM DeploymentTypeCorrect == Spec => []TypeOK
<1>1. Inductive => TypeOK
  BY DEF Inductive, DeploymentInv, MigrateInv, ServerInv, AccountsInv, TypeOK
<1> QED
  BY <1>1, InductiveAlways, PTL

\* A recorded migration was applied exactly once and no other was.
THEOREM AppliedOnceCorrect == Spec => []AppliedOnce
<1>1. Inductive => AppliedOnce
  BY DEF Inductive, DeploymentInv, MigrateInv
<1> QED
  BY <1>1, InductiveAlways, PTL

\* Migrations are applied in order, and all of them when a runner ends well.
THEOREM AppliedInOrderCorrect == Spec => []AppliedInOrder
<1>1. Inductive => AppliedInOrder
  BY DEF Inductive, DeploymentInv, MigrateInv
<1> QED
  BY <1>1, InductiveAlways, PTL

\* Of runners that race and fail for no other reason, one ends well.
THEOREM RaceHasAWinnerCorrect == Spec => []RaceHasAWinner
<1>1. Inductive => RaceHasAWinner
  BY DEF Inductive, DeploymentInv, RaceHasAWinner, RaceInv, Ahead, Running
<1> QED
  BY <1>1, InductiveAlways, PTL

\* A server that serves knows all that its image ships.
THEOREM ServesWhatItShipsCorrect == Spec => []ServesWhatItShips
<1>1. Inductive => ServesWhatItShips
  BY ServesTheStarter DEF Inductive, DeploymentInv
<1> QED
  BY <1>1, InductiveAlways, PTL

\* A server next to its own migrations gets past its spawn tables.
THEOREM BootFailsOnNewFishCorrect == Spec => BootFailsOnNewFish
<1> DEFINE Step == \A s \in Servers : LoadSpawnTables(s) /\ server'[s].pc = "down" =>
                     \E p \in Seeded("spawn") : p \notin Shipped(s, "fish")
<1>1. Inductive => Step
  BY FailsOnNewFish DEF Inductive, DeploymentInv
<1> HIDE DEF Step
<1>2. Spec => [][Step]_server
  BY <1>1, InductiveAlways, PTL
<1> QED
  BY <1>2 DEF BootFailsOnNewFish, Step

\* An account never has two players.
THEOREM OnePlayerPerAccountCorrect == Spec => []OnePlayerPerAccount
<1>1. Inductive => OnePlayerPerAccount
  BY DEF Inductive, DeploymentInv, AccountsInv
<1> QED
  BY <1>1, InductiveAlways, PTL

\* No player has a part of the starter kit.
THEOREM KitCompleteCorrect == Spec => []KitComplete
<1>1. Inductive => KitComplete
  BY DEF Inductive, DeploymentInv, AccountsInv
<1> QED
  BY <1>1, InductiveAlways, PTL

\* A token names a committed player of the account that logged in.
THEOREM TokenNamesPlayerCorrect == Spec => []TokenNamesPlayer
<1>1. Inductive => TokenNamesPlayer
  BY DEF Inductive, DeploymentInv, AccountsInv, LoginInv, TokenNamesPlayer, At
<1> QED
  BY <1>1, InductiveAlways, PTL
=============================================================================
