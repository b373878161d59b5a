-------------------------------- MODULE Server --------------------------------
(***************************************************************************)
(* The API process, cmd/api/main.go: it waits for PostgreSQL and Redis,    *)
(* reads the tables of templates one query after the other into a          *)
(* catalogue that it never reads again, serves, and on SIGTERM stops       *)
(* accepting and drains.  docker-compose.yml starts it when the migrate    *)
(* service of the same image has ended well; the runner of another image   *)
(* may commit files between two of its queries.                            *)
(*                                                                         *)
(* Content comes in packs: the files of a pack seed its fish, the spawn    *)
(* tables that name them, the locations that name those, and so on.  What  *)
(* a query returns is the set of packs whose rows it found.                *)
(***************************************************************************)
EXTENDS Migrate

CONSTANTS
  Packs,
  PackOf,    \* the pack a file belongs to
  Seeds,     \* the tables a file seeds
  Servers,   \* API processes
  ImageOf    \* the runner of the image of each server

\* The tables in the order in which LoadTemplates reads them; extras are the
\* runes, materials, pets and skills, on which nothing at the boot depends.
Tables == {"fish", "spawn", "worlds", "locations", "classes", "equipment", "baits", "extras"}
TableAfter == [fish |-> "spawn", spawn |-> "worlds", worlds |-> "locations",
               locations |-> "classes", classes |-> "equipment", equipment |-> "baits",
               baits |-> "extras", extras |-> "serving"]

ASSUME PacksAssumption == PackOf \in [Files -> Packs] /\ Seeds \in [Files -> SUBSET Tables]

\* locations.world_id is a foreign key: the world comes first (000003).
ASSUME WorldsAssumption ==
  \A f \in Files : "locations" \in Seeds[f] =>
    \E g \in 1 .. f : PackOf[g] = PackOf[f] /\ "worlds" \in Seeds[g]
ASSUME ImagesAssumption == ImageOf \in [Servers -> Runners]

VARIABLE
  server  \* the local state of each server

Catalogues == [Tables -> SUBSET Packs]
EmptyCatalogue == [t \in Tables |-> {}]
ServerStates == [pc : Tables \union {"down", "serving", "draining"}, catalogue : Catalogues]
Down == [pc |-> "down", catalogue |-> EmptyCatalogue]

ServerTypeOK == server \in [Servers -> ServerStates]

ServerInit == server = [s \in Servers |-> Down]

-----------------------------------------------------------------------------
\* The packs that have rows in a table, and those the image of a server ships.
Seeded(t) == {PackOf[f] : f \in {g \in Files : effects[g] > 0 /\ t \in Seeds[g]}}
Shipped(s, t) == {PackOf[f] : f \in {g \in 1 .. Ships[ImageOf[s]] : t \in Seeds[g]}}

Loading(s) == server[s].pc \in Tables
Serving(s) == server[s].pc = "serving"

\* Seeded fault: nothing makes the server wait for the migrations.
BootAtOnce(s) ==
  /\ server[s].pc = "down"
  /\ server' = [server EXCEPT ![s].pc = "fish"]

\* condition: service_completed_successfully; NewPool and NewRedis answered.
Boot(s) ==
  /\ server[s].pc = "down"
  /\ runner[ImageOf[s]].pc = "done"
  /\ server' = [server EXCEPT ![s].pc = "fish"]

Load(s, t) ==
  server' = [server EXCEPT ![s] =
    [pc |-> TableAfter[t], catalogue |-> [@.catalogue EXCEPT ![t] = Seeded(t)]]]

Exit(s) == server' = [server EXCEPT ![s] = Down]

\* "spawn referencia peixe inexistente": the boot fails on an unknown fish.
LoadSpawnTables(s) ==
  /\ server[s].pc = "spawn"
  /\ IF Seeded("spawn") \subseteq server[s].catalogue["fish"] THEN Load(s, "spawn") ELSE Exit(s)

\* The other queries take what they find.
LoadTable(s) ==
  \E t \in Tables \ {"spawn"} : server[s].pc = t /\ Load(s, t)

\* The locations that are in the list of a world, which is what a client is
\* offered: one whose world was not read is left out without an error.
Placed(s) == server[s].catalogue["locations"] \intersect server[s].catalogue["worlds"]

\* SIGTERM while it serves.
Shutdown(s) ==
  /\ Serving(s)
  /\ server' = [server EXCEPT ![s].pc = "draining"]

-----------------------------------------------------------------------------
\* A server that serves knows every row its own image ships, whatever the
\* runners of other images commit between two of its queries: a location it
\* ships has its spawn table and its place in a world, and the starter kit is
\* there.
ServesWhatItShips ==
  \A s \in Servers : server[s].pc \in {"serving", "draining"} =>
    /\ \A t \in Tables : Shipped(s, t) \subseteq server[s].catalogue[t]
    /\ Shipped(s, "locations") \subseteq Placed(s)

\* A boot fails on an unknown fish only while the image of another runner is
\* being applied: some spawn table names fish that the image of the server does
\* not ship, so a server next to its own migrations always gets past it.
BootFailsOnNewFish ==
  [][\A s \in Servers : LoadSpawnTables(s) /\ server'[s].pc = "down" =>
       \E p \in Seeded("spawn") : p \notin Shipped(s, "fish")]_server

-----------------------------------------------------------------------------
(* The inductive invariant behind ServesWhatItShips: the tables that have  *)
(* been read hold what the image ships, because its files were applied     *)
(* before the first of them was read.                                      *)

\* The tables a server has read.
Read(s) ==
  CASE server[s].pc \in {"down", "fish"} -> {}
    [] server[s].pc = "spawn" -> {"fish"}
    [] server[s].pc = "worlds" -> {"fish", "spawn"}
    [] server[s].pc = "locations" -> {"fish", "spawn", "worlds"}
    [] server[s].pc = "classes" -> {"fish", "spawn", "worlds", "locations"}
    [] server[s].pc = "equipment" -> {"fish", "spawn", "worlds", "locations", "classes"}
    [] server[s].pc = "baits" -> Tables \ {"baits", "extras"}
    [] server[s].pc = "extras" -> Tables \ {"extras"}
    [] OTHER -> Tables

\* Every entry of a spawn table points to a fish of the same catalogue.
SpawnsKnown ==
  \A s \in Servers : server[s].catalogue["spawn"] \subseteq server[s].catalogue["fish"]

ServerInv ==
  /\ ServerTypeOK
  /\ SpawnsKnown
  /\ \A s \in Servers :
       /\ server[s].pc # "down" => 1 .. Ships[ImageOf[s]] \subseteq versions
       /\ \A t \in Read(s) : Shipped(s, t) \subseteq server[s].catalogue[t]
       /\ \A t \in Tables \ Read(s) : server[s].catalogue[t] = {}
=============================================================================
