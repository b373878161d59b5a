----------------------------- MODULE Server_proofs -----------------------------
(***************************************************************************)
(* Proofs about the catalogue of a server: ServerInv is inductive, while   *)
(* any runner migrates.                                                    *)
(***************************************************************************)
EXTENDS Server, Migrate_proofs

-----------------------------------------------------------------------------
(* The tables that have been read.                                         *)

\* What the image of a server ships is in the database once its files are.
LEMMA ShippedIsSeeded ==
  ASSUME MigrateInv, NEW s \in Servers, NEW t \in Tables,
         1 .. Ships[ImageOf[s]] \subseteq versions
  PROVE  Shipped(s, t) \subseteq Seeded(t)
<1>1. \A f \in 1 .. Ships[ImageOf[s]] : f \in Files /\ effects[f] > 0
  BY ImagesAssumption, ShipsFiles DEF MigrateInv, AppliedOnce
<1> QED
  BY <1>1 DEF Shipped, Seeded

LEMMA SeededPacks ==
  ASSUME NEW t \in Tables
  PROVE  Seeded(t) \subseteq Packs
BY PacksAssumption DEF Seeded

LEMMA ReadAfter ==
  ASSUME NEW s \in Servers, NEW t \in Tables, server[s].pc = t, server'[s].pc = TableAfter[t]
  PROVE  Read(s)' = Read(s) \union {t} /\ TableAfter[t] \in Tables \union {"serving"}
<1>1. CASE t = "fish"
  BY <1>1 DEF Read, TableAfter, Tables
<1>2. CASE t = "spawn"
  BY <1>2 DEF Read, TableAfter, Tables
<1>3. CASE t = "locations"
  BY <1>3 DEF Read, TableAfter, Tables
<1>4. CASE t = "classes"
  BY <1>4 DEF Read, TableAfter, Tables
<1>5. CASE t = "equipment"
  BY <1>5 DEF Read, TableAfter, Tables
<1>6. CASE t = "baits"
  BY <1>6 DEF Read, TableAfter, Tables
<1>7. CASE t = "extras"
  BY <1>7 DEF Read, TableAfter, Tables
<1>8. CASE t = "worlds"
  BY <1>8 DEF Read, TableAfter, Tables
<1> QED
  BY <1>1, <1>2, <1>3, <1>4, <1>5, <1>6, <1>7, <1>8 DEF Tables

LEMMA ReadTables ==
  ASSUME NEW s \in Servers
  PROVE  Read(s) \subseteq Tables
<1>1. CASE server[s].pc \in {"down", "fish", "spawn", "worlds", "locations"}
  BY <1>1 DEF Read, Tables
<1>2. CASE server[s].pc \notin {"down", "fish", "spawn", "worlds", "locations"}
  BY <1>2 DEF Read, Tables
<1> QED
  BY <1>1, <1>2

\* The table a server reads next is not yet in its catalogue, and the spawn
\* tables come right after the fish.
LEMMA NextTable ==
  ASSUME NEW s \in Servers, server[s].pc \in Tables
  PROVE  /\ server[s].pc \notin Read(s)
         /\ server[s].pc = "fish" => "spawn" \notin Read(s)
BY DEF Read, Tables

-----------------------------------------------------------------------------
(* A step of one server.                                                   *)

LEMMA LoadEffect ==
  ASSUME ServerTypeOK, NEW s \in Servers, NEW t \in Tables, server[s].pc = t, Load(s, t)
  PROVE  /\ ServerTypeOK'
         /\ server'[s].pc = TableAfter[t]
         /\ server'[s].catalogue[t] = Seeded(t)
         /\ \A u \in Tables \ {t} : server'[s].catalogue[u] = server[s].catalogue[u]
         /\ \A q \in Servers \ {s} : server'[q] = server[q]
<1> DEFINE catalogue == [server[s].catalogue EXCEPT ![t] = Seeded(t)]
           frame == [pc |-> TableAfter[t], catalogue |-> catalogue]
<1>1. server \in [Servers -> ServerStates] /\ server[s] \in ServerStates
  BY DEF ServerTypeOK
<1>2. /\ catalogue \in Catalogues /\ catalogue[t] = Seeded(t)
      /\ \A u \in Tables \ {t} : catalogue[u] = server[s].catalogue[u]
  BY <1>1, SeededPacks DEF ServerStates, Catalogues
<1>3. server' = [server EXCEPT ![s] = frame]
  BY <1>1 DEF Load
<1> HIDE DEF catalogue
<1>4. /\ frame.pc = TableAfter[t] /\ frame.catalogue = catalogue
      /\ TableAfter[t] \in Tables \union {"serving"}
  BY DEF TableAfter, Tables
<1>5. frame \in ServerStates
  BY <1>2, <1>4 DEF ServerStates
<1> HIDE DEF frame
<1>6. server'[s] = frame /\ \A q \in Servers \ {s} : server'[q] = server[q]
  BY <1>1, <1>3
<1>7. ServerTypeOK'
  BY <1>1, <1>3, <1>5 DEF ServerTypeOK
<1> QED
  BY <1>2, <1>4, <1>6, <1>7

LEMMA PhaseEffect ==
  ASSUME ServerTypeOK, NEW s \in Servers, NEW phase \in Tables \union {"draining"},
         server' = [server EXCEPT ![s].pc = phase]
  PROVE  /\ ServerTypeOK'
         /\ server'[s].pc = phase
         /\ server'[s].catalogue = server[s].catalogue
         /\ \A q \in Servers \ {s} : server'[q] = server[q]
<1> DEFINE frame == [server[s] EXCEPT !.pc = phase]
<1>1. server \in [Servers -> ServerStates] /\ server[s] \in ServerStates
  BY DEF ServerTypeOK
<1>2. frame \in ServerStates /\ frame.pc = phase /\ frame.catalogue = server[s].catalogue
  BY <1>1 DEF ServerStates
<1>3. server' = [server EXCEPT ![s] = frame]
  BY <1>1
<1> HIDE DEF frame
<1> QED
  BY <1>1, <1>2, <1>3 DEF ServerTypeOK

-----------------------------------------------------------------------------
(* What a server knows.                                                    *)

\* The part of ServerInv that is about one server.
Knowing(s) ==
  /\ server[s].pc # "down" => 1 .. Ships[ImageOf[s]] \subseteq versions
  /\ \A t \in Read(s) : Shipped(s, t) \subseteq server[s].catalogue[t]
  /\ \A t \in Tables \ Read(s) : server[s].catalogue[t] = {}
  /\ server[s].catalogue["spawn"] \subseteq server[s].catalogue["fish"]

LEMMA KnowingIsServerInv == ServerInv <=> ServerTypeOK /\ \A s \in Servers : Knowing(s)
BY DEF ServerInv, SpawnsKnown, Knowing

LEMMA KnowingSame ==
  ASSUME NEW s \in Servers, Knowing(s), server'[s] = server[s], versions \subseteq versions'
  PROVE  Knowing(s)'
BY DEF Knowing, Read, Shipped

\* Any table but the spawn tables may be read as it is.
LEMMA LoadKnows ==
  ASSUME MigrateInv, ServerInv, NEW s \in Servers, NEW t \in Tables, server[s].pc = t, Load(s, t),
         t = "spawn" => Seeded("spawn") \subseteq server[s].catalogue["fish"],
         UNCHANGED versions
  PROVE  Knowing(s)'
<1>1. ServerTypeOK /\ Knowing(s)
  BY KnowingIsServerInv
<1>2. /\ server'[s].pc = TableAfter[t]
      /\ server'[s].catalogue[t] = Seeded(t)
      /\ \A u \in Tables \ {t} : server'[s].catalogue[u] = server[s].catalogue[u]
  BY <1>1, LoadEffect
<1>3. Read(s)' = Read(s) \union {t}
  BY <1>2, ReadAfter
<1>4. 1 .. Ships[ImageOf[s]] \subseteq versions
  BY <1>1 DEF Knowing, Tables
<1>5. \A u \in Tables : Shipped(s, u)' = Shipped(s, u)
  BY DEF Shipped
<1>6. \A u \in Read(s)' : Shipped(s, u)' \subseteq server'[s].catalogue[u]
  BY <1>1, <1>2, <1>3, <1>4, <1>5, ReadTables, ShippedIsSeeded DEF Knowing
<1>7. \A u \in Tables \ Read(s)' : server'[s].catalogue[u] = {}
  BY <1>1, <1>2, <1>3 DEF Knowing
<1>8. server'[s].catalogue["spawn"] \subseteq server'[s].catalogue["fish"]
  <2>1. CASE t = "spawn"
    BY <1>2, <2>1 DEF Tables
  <2>2. CASE t = "fish"
    <3>1. server[s].catalogue["spawn"] = {}
      BY <1>1, <2>2, NextTable DEF Knowing, Tables
    <3> QED
      BY <1>2, <2>2, <3>1 DEF Tables
  <2>3. CASE t \notin {"fish", "spawn"}
    BY <1>1, <1>2, <2>3 DEF Knowing, Tables
  <2> QED
    BY <2>1, <2>2, <2>3
<1> QED
  BY <1>4, <1>6, <1>7, <1>8 DEF Knowing

LEMMA LoadKeeps ==
  ASSUME MigrateInv, ServerInv, NEW s \in Servers, NEW t \in Tables, server[s].pc = t, Load(s, t),
         t = "spawn" => Seeded("spawn") \subseteq server[s].catalogue["fish"],
         UNCHANGED versions
  PROVE  ServerInv'
<1>1. ServerTypeOK /\ \A q \in Servers : Knowing(q)
  BY KnowingIsServerInv
<1>2. ServerTypeOK' /\ \A q \in Servers \ {s} : server'[q] = server[q]
  BY <1>1, LoadEffect
<1>3. Knowing(s)'
  BY LoadKnows
<1>4. \A q \in Servers \ {s} : Knowing(q)'
  BY <1>1, <1>2, KnowingSame
<1>5. ServerTypeOK' /\ \A q \in Servers : Knowing(q)'
  BY <1>2, <1>3, <1>4
<1> QED
  BY <1>5 DEF ServerInv, SpawnsKnown, Knowing

LEMMA ExitKeeps ==
  ASSUME ServerInv, NEW s \in Servers, Exit(s), UNCHANGED versions
  PROVE  ServerInv'
<1>1. ServerTypeOK /\ \A q \in Servers : Knowing(q)
  BY KnowingIsServerInv
<1>2. Down \in ServerStates
  BY DEF Down, ServerStates, Catalogues, EmptyCatalogue
<1>3. /\ ServerTypeOK' /\ server'[s] = Down
      /\ \A q \in Servers \ {s} : server'[q] = server[q]
  BY <1>1, <1>2 DEF Exit, ServerTypeOK
<1>4. Knowing(s)'
  BY <1>3 DEF Knowing, Read, Down, EmptyCatalogue, Tables
<1>5. \A q \in Servers \ {s} : Knowing(q)'
  BY <1>1, <1>3, KnowingSame
<1>6. ServerTypeOK' /\ \A q \in Servers : Knowing(q)'
  BY <1>3, <1>4, <1>5
<1> QED
  BY <1>6 DEF ServerInv, SpawnsKnown, Knowing

LEMMA BootKeeps ==
  ASSUME MigrateInv, ServerInv, NEW s \in Servers, Boot(s), UNCHANGED versions
  PROVE  ServerInv'
<1>1. ServerTypeOK /\ \A q \in Servers : Knowing(q)
  BY KnowingIsServerInv
<1>2. /\ ServerTypeOK' /\ server'[s].pc = "fish" /\ server'[s].catalogue = server[s].catalogue
      /\ \A q \in Servers \ {s} : server'[q] = server[q]
  BY <1>1, PhaseEffect DEF Boot, Tables
<1>3. 1 .. Ships[ImageOf[s]] \subseteq versions
  BY ImagesAssumption DEF Boot, MigrateInv, AppliedInOrder
<1>4. Knowing(s)'
  BY <1>1, <1>2, <1>3 DEF Knowing, Read, Boot, Tables
<1>5. \A q \in Servers \ {s} : Knowing(q)'
  BY <1>1, <1>2, KnowingSame
<1>6. ServerTypeOK' /\ \A q \in Servers : Knowing(q)'
  BY <1>2, <1>4, <1>5
<1> QED
  BY <1>6 DEF ServerInv, SpawnsKnown, Knowing

LEMMA ShutdownKeeps ==
  ASSUME ServerInv, NEW s \in Servers, Shutdown(s), UNCHANGED versions
  PROVE  ServerInv'
<1>1. ServerTypeOK /\ \A q \in Servers : Knowing(q)
  BY KnowingIsServerInv
<1>2. /\ ServerTypeOK' /\ server'[s].pc = "draining" /\ server'[s].catalogue = server[s].catalogue
      /\ \A q \in Servers \ {s} : server'[q] = server[q]
  BY <1>1, PhaseEffect DEF Shutdown
<1>3. Read(s)' = Read(s)
  BY <1>2 DEF Read, Shutdown, Serving
<1>4. Knowing(s)'
  BY <1>1, <1>2, <1>3 DEF Knowing, Shipped, Shutdown, Serving
<1>5. \A q \in Servers \ {s} : Knowing(q)'
  BY <1>1, <1>2, KnowingSame
<1>6. ServerTypeOK' /\ \A q \in Servers : Knowing(q)'
  BY <1>2, <1>4, <1>5
<1> QED
  BY <1>6 DEF ServerInv, SpawnsKnown, Knowing

-----------------------------------------------------------------------------
(* ServerInv.                                                              *)

LEMMA ServerInitInv == ServerInit => ServerInv
BY DEF ServerInit, ServerInv, ServerTypeOK, SpawnsKnown, ServerStates, Catalogues,
       EmptyCatalogue, Down, Read, Tables

\* The steps of servers, while the database stays.
LEMMA ServerStepInv ==
  ASSUME MigrateInv, ServerInv, UNCHANGED versions, NEW s \in Servers,
         Boot(s) \/ LoadTable(s) \/ LoadSpawnTables(s) \/ Shutdown(s) \/ Exit(s)
  PROVE  ServerInv'
<1>1. CASE Boot(s)
  BY <1>1, BootKeeps
<1>2. CASE LoadTable(s)
  BY <1>2, LoadKeeps DEF LoadTable
<1>3. CASE LoadSpawnTables(s)
  <2>1. CASE Seeded("spawn") \subseteq server[s].catalogue["fish"]
    <3>1. server[s].pc = "spawn" /\ Load(s, "spawn") /\ "spawn" \in Tables
      BY <1>3, <2>1 DEF LoadSpawnTables, Tables
    <3> QED
      BY <2>1, <3>1, LoadKeeps
  <2>2. CASE ~ (Seeded("spawn") \subseteq server[s].catalogue["fish"])
    BY <1>3, <2>2, ExitKeeps DEF LoadSpawnTables
  <2> QED
    BY <2>1, <2>2
<1>4. CASE Shutdown(s)
  BY <1>4, ShutdownKeeps
<1>5. CASE Exit(s)
  BY <1>5, ExitKeeps
<1> QED
  BY <1>1, <1>2, <1>3, <1>4, <1>5

\* The steps of runners, while the servers stay.
LEMMA ServerRestInv ==
  ASSUME ServerInv, versions \subseteq versions', UNCHANGED server
  PROVE  ServerInv'
<1>1. ServerTypeOK /\ \A q \in Servers : Knowing(q)
  BY KnowingIsServerInv
<1>2. ServerTypeOK' /\ \A q \in Servers : Knowing(q)'
  BY <1>1, KnowingSame DEF ServerTypeOK
<1> QED
  BY <1>2 DEF ServerInv, SpawnsKnown, Knowing

\* An image that ships a location ships its world.
LEMMA WorldsShipped ==
  ASSUME NEW s \in Servers
  PROVE  Shipped(s, "locations") \subseteq Shipped(s, "worlds")
<1> SUFFICES ASSUME NEW f \in 1 .. Ships[ImageOf[s]], "locations" \in Seeds[f]
             PROVE  \E g \in 1 .. Ships[ImageOf[s]] : PackOf[g] = PackOf[f] /\ "worlds" \in Seeds[g]
  BY DEF Shipped
<1>1. f \in Files /\ Ships[ImageOf[s]] \in Nat /\ 1 .. f \subseteq 1 .. Ships[ImageOf[s]]
  BY ImagesAssumption, ShipsFiles
<1> QED
  BY <1>1, WorldsAssumption

\* What a server serves, from the invariant.
LEMMA ServesTheStarter ==
  ASSUME ServerInv
  PROVE  ServesWhatItShips
<1>1. ASSUME NEW s \in Servers, server[s].pc \in {"serving", "draining"}, NEW t \in Tables
      PROVE  Shipped(s, t) \subseteq server[s].catalogue[t]
  <2>1. Read(s) = Tables
    BY <1>1 DEF Read, Tables
  <2> QED
    BY <2>1, KnowingIsServerInv DEF Knowing
<1>2. ASSUME NEW s \in Servers, server[s].pc \in {"serving", "draining"}
      PROVE  Shipped(s, "locations") \subseteq Placed(s)
  <2>1. /\ Shipped(s, "locations") \subseteq server[s].catalogue["locations"]
        /\ Shipped(s, "worlds") \subseteq server[s].catalogue["worlds"]
    BY <1>1, <1>2 DEF Tables
  <2> QED
    BY <2>1, WorldsShipped DEF Placed
<1> QED
  BY <1>1, <1>2 DEF ServesWhatItShips

\* A server that has read the fish of its image meets an unknown one only in
\* the spawn tables of another image.
LEMMA FailsOnNewFish ==
  ASSUME ServerInv, NEW s \in Servers, LoadSpawnTables(s), server'[s].pc = "down"
  PROVE  \E p \in Seeded("spawn") : p \notin Shipped(s, "fish")
<1>1. ServerTypeOK /\ Knowing(s) /\ server[s].pc = "spawn"
  BY KnowingIsServerInv DEF LoadSpawnTables
<1>2. Shipped(s, "fish") \subseteq server[s].catalogue["fish"]
  BY <1>1 DEF Knowing, Read
<1>3. ~ (Seeded("spawn") \subseteq server[s].catalogue["fish"])
  <2> SUFFICES ASSUME Load(s, "spawn") PROVE FALSE
    BY DEF LoadSpawnTables
  <2>1. "spawn" \in Tables /\ TableAfter["spawn"] = "worlds"
    BY DEF Tables, TableAfter
  <2>2. server'[s].pc = "worlds"
    BY <1>1, <2>1, LoadEffect
  <2> QED
    BY <2>2
<1> QED
  BY <1>2, <1>3
=============================================================================
