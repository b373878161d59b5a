------------------------------- MODULE Accounts -------------------------------
(***************************************************************************)
(* The first login of an account: LoginSteam of internal/usecase/account.go*)
(* upserts the account, looks for its player and, when there is none,      *)
(* creates one with the starter kit in a transaction.  Lookup and insert   *)
(* are apart, so two logins of one account may both insert; the UNIQUE     *)
(* constraint of migration 000041 lets the second wait for the first.      *)
(* The offline reward of a player who exists is in FishingSession.         *)
(***************************************************************************)
EXTENDS Server

CONSTANTS
  Steams,     \* Steam accounts
  Requests,   \* goroutines that serve a login
  PlayerIds,  \* the identifiers gen_random_uuid draws from
  NoPlayer,   \* the zero value of an id
  Starter     \* the pack of the starter kit, the classes and location 1-1

ASSUME StarterAssumption == Starter \in Packs
ASSUME NoPlayerAssumption == NoPlayer \notin PlayerIds
ASSUME ArrivalsAssumption == Servers # {} /\ Steams # {}

\* Every image ships the starter kit: migrations 000027 to 000038.
ASSUME StarterShippedAssumption ==
  \A s \in Servers, t \in Tables :
    \E f \in 1 .. Ships[ImageOf[s]] : PackOf[f] = Starter /\ t \in Seeds[f]

VARIABLES
  accounts,  \* the Steam ids in the table accounts
  players,   \* the committed players, with the kit each was given
  login      \* the local state of each request

accountVars == <<accounts, players, login>>

Kit == {"equipment", "consumable", "durable", "pet"}
PlayerRows == [id : PlayerIds, account : Steams, kit : SUBSET Kit]

Steps == {"idle", "verify", "upsert", "lookup", "insert", "equipment", "baits", "pet", "commit",
          "refused", "issue", "answer"}
Logins == [pc : Steps, on : Servers, steam : Steams, player : PlayerIds \union {NoPlayer},
           kit : SUBSET Kit]
NoLogin == [pc |-> "idle", on |-> CHOOSE s \in Servers : TRUE, steam |-> CHOOSE a \in Steams : TRUE,
            player |-> NoPlayer, kit |-> {}]

AccountsTypeOK ==
  /\ accounts \subseteq Steams
  /\ players \subseteq PlayerRows
  /\ login \in [Requests -> Logins]

AccountsInit ==
  /\ accounts = {}
  /\ players = {}
  /\ login = [r \in Requests |-> NoLogin]

-----------------------------------------------------------------------------
At(r, step) == login[r].pc = step
Goto(r, step) == login' = [login EXCEPT ![r].pc = step]
Return(r) == login' = [login EXCEPT ![r] = NoLogin]

\* What the catalogue of the server that answers holds.
Knows(r, t) == Starter \in server[login[r].on].catalogue[t]

\* The player its open transaction has inserted, which no other sees.
InTransaction(r) == login[r].pc \in {"equipment", "baits", "pet", "commit"}

Inserted(r) == [id |-> login[r].player, account |-> login[r].steam, kit |-> login[r].kit]

PlayersOf(a) == {p \in players : p.account = a}

Arrive(r, s, a) ==
  /\ At(r, "idle")
  /\ Serving(s)
  /\ login' = [login EXCEPT ![r] = [NoLogin EXCEPT !.pc = "verify", !.on = s, !.steam = a]]
  /\ UNCHANGED <<accounts, players>>

\* The ticket is good; Abort stands for one that is not.
Verify(r) ==
  /\ At(r, "verify")
  /\ Goto(r, "upsert")
  /\ UNCHANGED <<accounts, players>>

\* INSERT ... ON CONFLICT (steam_id) DO UPDATE ... RETURNING id: one statement.
UpsertAccountBySteam(r) ==
  /\ At(r, "upsert")
  /\ accounts' = accounts \union {login[r].steam}
  /\ Goto(r, "lookup")
  /\ UNCHANGED players

\* The player there is, or a new one if the class is in the catalogue.
GetPlayerByAccount(r) ==
  /\ At(r, "lookup")
  /\ \/ \E p \in PlayersOf(login[r].steam) :
          login' = [login EXCEPT ![r].player = p.id, ![r].pc = "issue"]
     \/ /\ PlayersOf(login[r].steam) = {}
        /\ IF Knows(r, "classes") THEN Goto(r, "insert") ELSE Return(r)
  /\ UNCHANGED <<accounts, players>>

FreshId(id) ==
  /\ \A p \in players : p.id # id
  /\ \A q \in Requests : login[q].player # id

\* UNIQUE (account_id): an insert waits while another transaction holds the
\* account, and fails when a committed player has it.
AccountHeld(r) ==
  \E q \in Requests \ {r} : InTransaction(q) /\ login[q].steam = login[r].steam

\* Seeded fault: migration 000041 has no UNIQUE constraint.
InsertPlayerAnyway(r) ==
  /\ At(r, "insert")
  /\ \E id \in PlayerIds : FreshId(id) /\
       login' = [login EXCEPT ![r].player = id, ![r].pc = "equipment"]
  /\ UNCHANGED <<accounts, players>>

\* INSERT INTO players, with the class and location 1-1 as foreign keys.
InsertPlayer(r) ==
  /\ At(r, "insert")
  /\ ~AccountHeld(r)
  /\ \/ PlayersOf(login[r].steam) # {} /\ Goto(r, "refused")
     \/ /\ PlayersOf(login[r].steam) = {}
        /\ IF Starter \in Seeded("classes") \intersect Seeded("locations")
           THEN \E id \in PlayerIds : FreshId(id) /\
                  login' = [login EXCEPT ![r].player = id, ![r].pc = "equipment"]
           ELSE Return(r)
  /\ UNCHANGED <<accounts, players>>

\* The three pieces, from the catalogue: a missing one rolls everything back.
InsertEquipment(r) ==
  /\ At(r, "equipment")
  /\ IF Knows(r, "equipment")
     THEN login' = [login EXCEPT ![r].kit = @ \union {"equipment"}, ![r].pc = "baits"]
     ELSE Return(r)
  /\ UNCHANGED <<accounts, players>>

\* A bait the catalogue does not know is left out without an error.
InsertBaits(r) ==
  /\ At(r, "baits")
  /\ login' = [login EXCEPT ![r].kit = IF Knows(r, "baits") THEN @ \union {"consumable", "durable"} ELSE @,
                            ![r].pc = "pet"]
  /\ UNCHANGED <<accounts, players>>

\* Inserted, with its template as a foreign key, and made the active one.
InsertPet(r) ==
  /\ At(r, "pet")
  /\ IF Starter \in Seeded("extras")
     THEN login' = [login EXCEPT ![r].kit = @ \union {"pet"}, ![r].pc = "commit"]
     ELSE Return(r)
  /\ UNCHANGED <<accounts, players>>

\* Seeded fault: the error of the commit is dropped.
CommitUnchecked(r) ==
  /\ At(r, "commit")
  /\ players' \in {players, players \union {Inserted(r)}}
  /\ Goto(r, "issue")
  /\ UNCHANGED accounts

CommitPlayer(r) ==
  /\ At(r, "commit")
  /\ players' = players \union {Inserted(r)}
  /\ Goto(r, "issue")
  /\ UNCHANGED accounts

\* The token names the player; reading the player back ends the login.
Issue(r) ==
  /\ At(r, "issue")
  /\ Goto(r, "answer")
  /\ UNCHANGED <<accounts, players>>

Answer(r) ==
  /\ At(r, "answer") \/ At(r, "refused")
  /\ Return(r)
  /\ UNCHANGED <<accounts, players>>

LoginStep(r) ==
  \/ Verify(r) \/ UpsertAccountBySteam(r) \/ GetPlayerByAccount(r) \/ InsertPlayer(r)
  \/ InsertEquipment(r) \/ InsertBaits(r) \/ InsertPet(r) \/ CommitPlayer(r)
  \/ Issue(r) \/ Answer(r)

-----------------------------------------------------------------------------
(* Failures.                                                               *)

\* A request ends anywhere; tx.Rollback is deferred.
AbortLogin(r) ==
  /\ ~At(r, "idle")
  /\ Return(r)
  /\ UNCHANGED <<accounts, players>>

\* The commit succeeds and its answer is lost.
CommitUnheard(r) ==
  /\ At(r, "commit")
  /\ players' = players \union {Inserted(r)}
  /\ Return(r)
  /\ UNCHANGED accounts

LoginsOn(s) == {r \in Requests : ~At(r, "idle") /\ login[r].on = s}

\* The process ends, and so do the requests it serves.
AbortLogins(s) ==
  /\ login' = [r \in Requests |-> IF r \in LoginsOn(s) THEN NoLogin ELSE login[r]]
  /\ UNCHANGED <<accounts, players>>

-----------------------------------------------------------------------------
\* "1 jogador por conta nesta fase" (000041), and a player of a known account,
\* although lookup and insert are apart and a commit may go unheard.
OnePlayerPerAccount ==
  /\ \A p, q \in players : p.account = q.account => p = q
  /\ \A p \in players : p.account \in accounts

\* "o kit inicial completo (...), tudo numa transação" (players.go:35): no
\* player is ever seen with a part of the kit, whatever the code that leaves
\* out an unknown bait and whatever failed in between.
KitComplete == \A p \in players : p.kit = Kit

\* A token names a committed player of the account that logged in.
TokenNamesPlayer ==
  \A r \in Requests : At(r, "answer") =>
    \E p \in players : p.id = login[r].player /\ p.account = login[r].steam

-----------------------------------------------------------------------------
(* The inductive invariant behind OnePlayerPerAccount and KitComplete: a   *)
(* transaction that has inserted a player has the account for itself, and  *)
(* it has given the part of the kit that its step says, because the        *)
(* catalogue of a server that serves has the starter pack.                 *)

Given(step) ==
  CASE step = "baits" -> {"equipment"}
    [] step = "pet" -> {"equipment", "consumable", "durable"}
    [] step = "commit" -> Kit
    [] OTHER -> {}

LoginInv(r) ==
  /\ ~At(r, "idle") => server[login[r].on].pc \in {"serving", "draining"}
  /\ login[r].pc \notin {"idle", "verify", "upsert"} => login[r].steam \in accounts
  /\ InTransaction(r) =>
       /\ ~AccountHeld(r)
       /\ PlayersOf(login[r].steam) = {}
       /\ login[r].player \in PlayerIds
  /\ login[r].pc \notin {"issue", "answer"} => login[r].kit = Given(login[r].pc)
  /\ login[r].pc \in {"issue", "answer"} =>
       \E p \in players : p.id = login[r].player /\ p.account = login[r].steam

AccountsInv ==
  /\ AccountsTypeOK
  /\ OnePlayerPerAccount
  /\ KitComplete
  /\ \A r \in Requests : LoginInv(r)
=============================================================================
