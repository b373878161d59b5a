------------------------------ MODULE Deployment ------------------------------
(***************************************************************************)
(* A deployment as docker-compose.yml runs it, of several images at once:  *)
(* runners that migrate, servers that load their catalogue from what has   *)
(* been migrated, and logins that create players on those servers.         *)
(***************************************************************************)
EXTENDS Accounts

CONSTANT MaxFaults  \* bound on failures, terminations of a server included

ASSUME MaxFaultsAssumption == MaxFaults \in Nat

VARIABLE faults     \* failures so far

vars == <<migrateVars, server, accountVars, faults>>

TypeOK ==
  /\ MigrateTypeOK
  /\ ServerTypeOK
  /\ AccountsTypeOK
  /\ faults \in Nat

Init == MigrateInit /\ ServerInit /\ AccountsInit /\ faults = 0

Fault == faults < MaxFaults /\ faults' = faults + 1

Migrating ==
  /\ \/ MigrateNext /\ UNCHANGED faults
     \/ MigrateFault /\ Fault
  /\ UNCHANGED <<server, accountVars>>

Booting(s) == Boot(s) \/ LoadTable(s) \/ LoadSpawnTables(s)

\* Shutdown returns when the requests in flight have been answered.
Drained(s) == server[s].pc = "draining" /\ LoginsOn(s) = {} /\ Exit(s)

Operating ==
  /\ \E s \in Servers : Booting(s) \/ Drained(s)
  /\ UNCHANGED <<migrateVars, accountVars, faults>>

\* SIGTERM, an error of a query at the boot, ListenAndServe that fails, the
\* end of ShutdownTimeout, a crash.
Terminating ==
  /\ \E s \in Servers :
       \/ Shutdown(s) /\ UNCHANGED accountVars
       \/ server[s].pc # "down" /\ Exit(s) /\ AbortLogins(s)
  /\ Fault
  /\ UNCHANGED migrateVars

LoggingIn ==
  /\ \E r \in Requests :
       \/ (LoginStep(r) \/ \E s \in Servers, a \in Steams : Arrive(r, s, a)) /\ UNCHANGED faults
       \/ (AbortLogin(r) \/ CommitUnheard(r)) /\ Fault
  /\ UNCHANGED <<migrateVars, server>>

Next == Migrating \/ Operating \/ Terminating \/ LoggingIn

Spec == Init /\ [][Next]_vars

-----------------------------------------------------------------------------
\* Of runners that race, with no other failure, one ends well: the loser of a
\* race dies (log.Fatalf on the key of schema_migrations) and never two by
\* each other.  The servers that wait for `done` would wait for ever.
RaceHasAWinner ==
  faults = 0 /\ (\E r \in Runners : runner[r].pc = "failed") =>
    \E r \in Runners : Running(r) \/ runner[r].pc = "done"

\* The inductive invariant of the deployment.
DeploymentInv == MigrateInv /\ ServerInv /\ AccountsInv /\ (faults = 0 => RaceInv)
=============================================================================
