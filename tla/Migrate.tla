------------------------------- MODULE Migrate -------------------------------
(***************************************************************************)
(* The migration runner, cmd/migrate/main.go.  Each process reads which    *)
(* versions schema_migrations holds and applies the other files of its     *)
(* image in lexical order, each in a transaction of its own that runs the  *)
(* file and records the version.  Nothing keeps two processes from running *)
(* at once, and a process dies anywhere: log.Fatal on any error, its       *)
(* deadline of 60 seconds, the container.                                  *)
(*                                                                         *)
(* A file is its place in the order.  Server.tla and Accounts.tla build    *)
(* on what the files have put into the database.                           *)
(***************************************************************************)
EXTENDS Integers

CONSTANTS
  NumFiles,    \* the files of the newest image, *.up.sql in lexical order
  Repeatable,  \* files whose statements all say IF NOT EXISTS
  Runners,     \* migrate processes
  Ships        \* how many of the files the image of each runner holds

Files == 1 .. NumFiles

ASSUME FilesAssumption == NumFiles \in Nat /\ Repeatable \subseteq Files
ASSUME ShipsAssumption == Ships \in [Runners -> 0 .. NumFiles]

VARIABLES
  created,   \* the table schema_migrations is there
  versions,  \* its rows, committed
  effects,   \* how often the statements of a file were committed
  runner     \* the local state of each runner

database == <<created, versions, effects>>
migrateVars == <<database, runner>>

Phases == {"off", "create", "read", "exec", "record", "commit", "done", "failed"}
RunnerStates == [pc : Phases, todo : SUBSET Files]

MigrateTypeOK ==
  /\ created \in BOOLEAN
  /\ versions \subseteq Files
  /\ effects \in [Files -> Nat]
  /\ runner \in [Runners -> RunnerStates]

MigrateInit ==
  /\ created = FALSE
  /\ versions = {}
  /\ effects = [f \in Files |-> 0]
  /\ runner = [r \in Runners |-> [pc |-> "off", todo |-> {}]]

-----------------------------------------------------------------------------
Running(r) == runner[r].pc \in {"create", "read", "exec", "record", "commit"}

Enter(r, phase) == runner' = [runner EXCEPT ![r].pc = phase]

\* The files are sorted, so the next one is the first that is left.
Current(r) == CHOOSE f \in runner[r].todo : \A g \in runner[r].todo : f <= g

\* Round the loop with the files that are left.
Continue(r, todo) ==
  runner' = [runner EXCEPT ![r] = [pc |-> IF todo = {} THEN "done" ELSE "exec", todo |-> todo]]

\* The statements of a file collide with those of an open transaction that
\* ran the same file, and wait for it to end.
Waits(r) ==
  \E q \in Runners \ {r} : runner[q].pc \in {"record", "commit"} /\ Current(q) = Current(r)

\* A process is started, by the orchestrator or again by hand, and looks for
\* schema_migrations.
StartRunner(r) ==
  /\ ~Running(r)
  /\ Enter(r, IF created THEN "read" ELSE "create")
  /\ UNCHANGED database

\* CREATE TABLE IF NOT EXISTS, of a table that was not there when the statement
\* looked: it fails if another runner has made the table since then.
CreateTable(r) ==
  /\ runner[r].pc = "create"
  /\ Enter(r, IF created THEN "failed" ELSE "read")
  /\ created' = TRUE
  /\ UNCHANGED <<versions, effects>>

\* Seeded fault: the pattern is *.sql, and the first *.down.sql sorts before
\* the first *.up.sql.
ReadDownFilesToo(r) ==
  /\ runner[r].pc = "read"
  /\ Continue(r, {f \in 0 .. Ships[r] : f \notin versions})
  /\ UNCHANGED database

\* Seeded fault: the files already applied are not skipped.
ReadNothing(r) ==
  /\ runner[r].pc = "read"
  /\ Continue(r, 1 .. Ships[r])
  /\ UNCHANGED database

ReadApplied(r) ==
  /\ runner[r].pc = "read"
  /\ Continue(r, {f \in 1 .. Ships[r] : f \notin versions})
  /\ UNCHANGED database

\* log.Fatalf: the transaction is rolled back and the process ends.
Fatal(r) ==
  /\ Enter(r, "failed")
  /\ UNCHANGED database

\* A file that is there already fails, on a key or on a name, unless its
\* statements are repeatable; those fail too if they began before it was there.
ExecFails(r) ==
  /\ runner[r].pc = "exec"
  /\ ~Waits(r)
  /\ effects[Current(r)] > 0
  /\ Fatal(r)

ExecFile(r) ==
  /\ runner[r].pc = "exec"
  /\ ~Waits(r)
  /\ effects[Current(r)] > 0 => Current(r) \in Repeatable
  /\ Enter(r, "record")
  /\ UNCHANGED database

\* Seeded fault: the version is recorded ON CONFLICT DO NOTHING.
RecordAnyVersion(r) ==
  /\ runner[r].pc = "record"
  /\ Enter(r, "commit")
  /\ UNCHANGED database

\* INSERT INTO schema_migrations, whose primary key is the version.
RecordVersion(r) ==
  /\ runner[r].pc = "record"
  /\ IF Current(r) \in versions THEN Enter(r, "failed") ELSE Enter(r, "commit")
  /\ UNCHANGED database

Applied(r) ==
  /\ runner[r].pc = "commit"
  /\ versions' = versions \union {Current(r)}
  /\ effects' = [effects EXCEPT ![Current(r)] = @ + 1]
  /\ UNCHANGED created

CommitFile(r) ==
  /\ Applied(r)
  /\ Continue(r, runner[r].todo \ {Current(r)})

MigrateNext ==
  \E r \in Runners :
    \/ StartRunner(r) \/ CreateTable(r) \/ ReadApplied(r) \/ ExecFile(r)
    \/ ExecFails(r) \/ RecordVersion(r) \/ CommitFile(r)

-----------------------------------------------------------------------------
(* Failures.                                                               *)

\* Seeded fault: an error in one file is logged and the next file is applied.
SkipFailedFile(r) ==
  /\ Running(r)
  /\ runner[r].todo # {}
  /\ Continue(r, runner[r].todo \ {Current(r)})
  /\ UNCHANGED database

\* The deadline, a lost connection, a statement that fails: nothing of an
\* open transaction remains.
RunnerDies(r) == Running(r) /\ Fatal(r)

\* The connection is lost after the server has made the table.
CreateUnanswered(r) ==
  /\ runner[r].pc = "create"
  /\ Enter(r, "failed")
  /\ created' = TRUE
  /\ UNCHANGED <<versions, effects>>

\* The connection is lost after the server has committed.
CommitUnanswered(r) == Applied(r) /\ Enter(r, "failed")

\* rows.Err() is not looked at: an error in the middle of the result leaves a
\* part of the versions.
ReadSomeApplied(r) ==
  /\ runner[r].pc = "read"
  /\ \E part \in SUBSET versions : Continue(r, {f \in 1 .. Ships[r] : f \notin part})
  /\ UNCHANGED database

MigrateFault ==
  \E r \in Runners :
    RunnerDies(r) \/ CreateUnanswered(r) \/ CommitUnanswered(r) \/ ReadSomeApplied(r)

-----------------------------------------------------------------------------
\* "Idempotente: rodar de novo não reaplica o que já passou" (main.go:4): a
\* recorded file was applied once and no other was, however many runners
\* raced, died between a file and its record, or misread the versions.
AppliedOnce == \A f \in Files : effects[f] = IF f \in versions THEN 1 ELSE 0

\* Files are applied in order and without a gap, and a runner that ended well
\* leaves all the files of its image applied.  Later files rely on earlier ones.
AppliedInOrder ==
  /\ \A f \in versions : \A g \in 1 .. f : g \in versions
  /\ \A r \in Runners : runner[r].pc = "done" => 1 .. Ships[r] \subseteq versions

-----------------------------------------------------------------------------
(* The inductive invariant behind AppliedOnce and AppliedInOrder: a        *)
(* transaction that has run a file is the only one, and what a runner has  *)
(* left behind it is applied, although what it read may be out of date.    *)

RunnerInv(r) ==
  /\ runner[r].pc \in {"read", "exec", "record", "commit", "done"} => created
  /\ runner[r].todo \subseteq 1 .. Ships[r]
  /\ runner[r].pc \in {"exec", "record", "commit"} =>
       /\ runner[r].todo # {}
       /\ 1 .. Ships[r] \subseteq versions \union runner[r].todo
  /\ runner[r].pc \in {"record", "commit"} => ~Waits(r)
  /\ runner[r].pc = "commit" => Current(r) \notin versions

MigrateInv ==
  /\ MigrateTypeOK
  /\ AppliedOnce
  /\ AppliedInOrder
  /\ \A r \in Runners : RunnerInv(r)

\* The inductive invariant behind RaceHasAWinner, while nothing else fails: the
\* runner that made the table or applied the last file finds none of those it
\* has left applied already, and only such a file ends it.
Ahead(r) ==
  \/ runner[r].pc \in {"read", "done"}
  \/ runner[r].pc \in {"exec", "record", "commit"} /\ runner[r].todo \intersect versions = {}

RaceInv ==
  \/ ~created /\ \A r \in Runners : runner[r].pc # "failed"
  \/ \E r \in Runners : Ahead(r)
=============================================================================
