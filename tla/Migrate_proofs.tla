---------------------------- MODULE Migrate_proofs ----------------------------
(***************************************************************************)
(* Proofs about the migration runner: MigrateInv is inductive, for any     *)
(* number of files and runners and through every failure.                  *)
(***************************************************************************)
EXTENDS Migrate, TLAPS, WellFoundedInduction

-----------------------------------------------------------------------------
(* The files that are left.                                                *)

\* A set of numbers has a least one.
LEMMA LeastNumber ==
  ASSUME NEW T, T \subseteq Nat, T # {}
  PROVE  \E f \in T : \A g \in T : f <= g
<1> DEFINE Less == {ss \in Nat \X Nat : ss[1] < ss[2]}
<1>1. IsWellFoundedOn(Less, Nat)
  BY NatLessThanWellFounded, Zenon DEF OpToRel
<1>2. \A g, f \in Nat : g < f => <<g, f>> \in Less
  OBVIOUS
<1> HIDE DEF Less
<1>3. PICK f \in T : \A g \in T : ~ (<<g, f>> \in Less)
  BY <1>1, WFMin
<1>4. ASSUME NEW g \in T PROVE f <= g
  <2>1. f \in Nat /\ g \in Nat
    OBVIOUS
  <2>2. ~ (g < f)
    BY <1>2, <1>3, <2>1, Zenon
  <2> QED
    BY <2>1, <2>2
<1> QED
  BY <1>4

\* The next file of a runner is one of those left, and all before it are not.
LEMMA CurrentIsNext ==
  ASSUME NEW r \in Runners, runner[r].todo \subseteq Files, runner[r].todo # {}
  PROVE  /\ Current(r) \in runner[r].todo
         /\ Current(r) \in Files
         /\ \A g \in runner[r].todo : Current(r) <= g
<1>1. runner[r].todo \subseteq Nat
  BY FilesAssumption DEF Files
<1>2. \E f \in runner[r].todo : \A g \in runner[r].todo : f <= g
  BY <1>1, LeastNumber
<1> QED
  BY <1>2 DEF Current

LEMMA ShipsFiles ==
  ASSUME NEW r \in Runners
  PROVE  Ships[r] \in Nat /\ 1 .. Ships[r] \subseteq Files
BY FilesAssumption, ShipsAssumption DEF Files

\* The next file depends on the runner alone.
LEMMA CurrentSame ==
  ASSUME NEW r \in Runners, runner'[r].todo = runner[r].todo
  PROVE  Current(r)' = Current(r)
BY DEF Current

-----------------------------------------------------------------------------
(* A step of one runner.                                                   *)

\* A runner that goes on touches no other.
LEMMA EnterEffect ==
  ASSUME MigrateTypeOK, NEW r \in Runners, NEW phase \in Phases, Enter(r, phase)
  PROVE  /\ runner' \in [Runners -> RunnerStates]
         /\ runner'[r].pc = phase
         /\ runner'[r].todo = runner[r].todo
         /\ \A q \in Runners \ {r} : runner'[q] = runner[q]
<1>1. runner \in [Runners -> RunnerStates]
  BY DEF MigrateTypeOK
<1>2. runner[r] \in RunnerStates
  BY <1>1
<1> DEFINE frame == [runner[r] EXCEPT !.pc = phase]
<1>3. frame \in RunnerStates /\ frame.pc = phase /\ frame.todo = runner[r].todo
  BY <1>2 DEF RunnerStates
<1>4. runner' = [runner EXCEPT ![r] = frame]
  BY <1>1 DEF Enter
<1> HIDE DEF frame
<1> QED
  BY <1>1, <1>3, <1>4

LEMMA ContinueEffect ==
  ASSUME MigrateTypeOK, NEW r \in Runners, NEW todo, todo \subseteq Files, Continue(r, todo)
  PROVE  /\ runner' \in [Runners -> RunnerStates]
         /\ runner'[r].pc = IF todo = {} THEN "done" ELSE "exec"
         /\ runner'[r].todo = todo
         /\ \A q \in Runners \ {r} : runner'[q] = runner[q]
BY DEF MigrateTypeOK, Continue, RunnerStates, Phases

\* What the invariant says of the others, when no file is committed and r is
\* not inside a file, or still alone in its file.
LEMMA OthersKept ==
  ASSUME MigrateInv, NEW r \in Runners, UNCHANGED <<versions, effects>>, created => created',
         \A q \in Runners \ {r} : runner'[q] = runner[q],
         \/ runner'[r].pc \notin {"record", "commit"}
         \/ /\ runner'[r].todo = runner[r].todo
            /\ \A q \in Runners \ {r} :
                 runner[q].pc \in {"record", "commit"} => Current(q) # Current(r),
         NEW q \in Runners \ {r}
  PROVE  RunnerInv(q)' /\ (runner'[q].pc = "done" => 1 .. Ships[q] \subseteq versions')
<1>1. \A p \in Runners \ {r} : Current(p)' = Current(p)
  BY CurrentSame
<1>2. RunnerInv(q) /\ (runner[q].pc = "done" => 1 .. Ships[q] \subseteq versions)
  BY DEF MigrateInv, AppliedInOrder
<1>3. CASE runner'[r].pc \notin {"record", "commit"}
  BY <1>1, <1>2, <1>3 DEF RunnerInv, Waits
<1>4. CASE /\ runner'[r].todo = runner[r].todo
           /\ \A p \in Runners \ {r} :
                runner[p].pc \in {"record", "commit"} => Current(p) # Current(r)
  <2>1. Current(r)' = Current(r)
    BY <1>4, CurrentSame
  <2> QED
    BY <1>1, <1>2, <1>4, <2>1 DEF RunnerInv, Waits
<1> QED
  BY <1>3, <1>4

\* A step that commits no file keeps the invariant when it keeps what concerns
\* the runner that made it.
LEMMA DatabaseKept ==
  ASSUME MigrateInv, NEW r \in Runners, UNCHANGED <<versions, effects>>,
         created' \in BOOLEAN, created => created',
         runner' \in [Runners -> RunnerStates],
         \A q \in Runners \ {r} : runner'[q] = runner[q],
         \/ runner'[r].pc \notin {"record", "commit"}
         \/ /\ runner'[r].todo = runner[r].todo
            /\ \A q \in Runners \ {r} :
                 runner[q].pc \in {"record", "commit"} => Current(q) # Current(r),
         RunnerInv(r)',
         runner'[r].pc = "done" => 1 .. Ships[r] \subseteq versions
  PROVE  MigrateInv'
<1>1. \A q \in Runners \ {r} :
        RunnerInv(q)' /\ (runner'[q].pc = "done" => 1 .. Ships[q] \subseteq versions')
  BY OthersKept
<1>2. MigrateTypeOK' /\ AppliedOnce'
  BY DEF MigrateInv, MigrateTypeOK, AppliedOnce
<1>3. AppliedInOrder'
  BY <1>1 DEF MigrateInv, AppliedInOrder
<1> QED
  BY <1>1, <1>2, <1>3 DEF MigrateInv

-----------------------------------------------------------------------------
(* The actions.                                                            *)

LEMMA StartRunnerKeeps ==
  ASSUME MigrateInv, NEW r \in Runners, StartRunner(r)
  PROVE  MigrateInv'
<1>1. MigrateTypeOK /\ RunnerInv(r)
  BY DEF MigrateInv
<1>2. PICK phase \in {"create", "read"} : Enter(r, phase) /\ (phase = "read" => created)
  BY DEF StartRunner
<1>3. /\ runner' \in [Runners -> RunnerStates]
      /\ runner'[r].pc = phase /\ runner'[r].todo = runner[r].todo
      /\ \A q \in Runners \ {r} : runner'[q] = runner[q]
  BY <1>1, <1>2, EnterEffect DEF Phases
<1>4. UNCHANGED <<versions, effects>> /\ created' = created /\ created \in BOOLEAN
  BY <1>1 DEF StartRunner, database, MigrateTypeOK
<1>5. RunnerInv(r)'
  BY <1>1, <1>2, <1>3, <1>4 DEF RunnerInv
<1> QED
  BY <1>2, <1>3, <1>4, <1>5, DatabaseKept

\* The table is there for good, whoever has made it.
LEMMA TableKeeps ==
  ASSUME MigrateInv, NEW r \in Runners, NEW phase \in {"read", "failed"}, Enter(r, phase),
         created' = TRUE, UNCHANGED <<versions, effects>>
  PROVE  MigrateInv'
<1>1. MigrateTypeOK /\ RunnerInv(r)
  BY DEF MigrateInv
<1>2. /\ runner' \in [Runners -> RunnerStates]
      /\ runner'[r].pc = phase /\ runner'[r].todo = runner[r].todo
      /\ \A q \in Runners \ {r} : runner'[q] = runner[q]
  BY <1>1, EnterEffect DEF Phases
<1>3. RunnerInv(r)'
  BY <1>1, <1>2 DEF RunnerInv
<1> QED
  BY <1>2, <1>3, DatabaseKept

LEMMA CreateTableKeeps ==
  ASSUME MigrateInv, NEW r \in Runners, CreateTable(r) \/ CreateUnanswered(r)
  PROVE  MigrateInv'
<1>1. PICK phase \in {"read", "failed"} : Enter(r, phase)
  BY DEF CreateTable, CreateUnanswered
<1>2. created' = TRUE /\ UNCHANGED <<versions, effects>>
  BY DEF CreateTable, CreateUnanswered
<1> QED
  BY <1>1, <1>2, TableKeeps

\* A dead runner has nothing open.
LEMMA FatalKeeps ==
  ASSUME MigrateInv, NEW r \in Runners, Fatal(r)
  PROVE  MigrateInv'
<1>1. MigrateTypeOK /\ RunnerInv(r)
  BY DEF MigrateInv
<1>2. /\ runner' \in [Runners -> RunnerStates]
      /\ runner'[r].pc = "failed" /\ runner'[r].todo = runner[r].todo
      /\ \A q \in Runners \ {r} : runner'[q] = runner[q]
  BY <1>1, EnterEffect DEF Fatal, Phases
<1>3. RunnerInv(r)'
  BY <1>1, <1>2 DEF RunnerInv
<1>4. UNCHANGED <<versions, effects>> /\ created' = created /\ created \in BOOLEAN
  BY <1>1 DEF Fatal, database, MigrateTypeOK
<1> QED
  BY <1>2, <1>3, <1>4, DatabaseKept

\* Whatever part of the versions the query returned, what is not left is applied.
LEMMA ReadKeeps ==
  ASSUME MigrateInv, NEW r \in Runners, NEW part \in SUBSET versions,
         Continue(r, {f \in 1 .. Ships[r] : f \notin part}), UNCHANGED database,
         runner[r].pc = "read"
  PROVE  MigrateInv'
<1> DEFINE todo == {f \in 1 .. Ships[r] : f \notin part}
<1>1. todo \subseteq 1 .. Ships[r] /\ 1 .. Ships[r] \subseteq versions \union todo
  OBVIOUS
<1>2. todo \subseteq Files /\ Continue(r, todo) /\ MigrateTypeOK
  BY <1>1, ShipsFiles DEF MigrateInv
<1> HIDE DEF todo
<1>3. /\ runner' \in [Runners -> RunnerStates]
      /\ runner'[r].pc = IF todo = {} THEN "done" ELSE "exec"
      /\ runner'[r].todo = todo
      /\ \A q \in Runners \ {r} : runner'[q] = runner[q]
  BY <1>2, ContinueEffect
<1>4. UNCHANGED <<versions, effects>> /\ created' = created /\ created
  BY DEF MigrateInv, RunnerInv, database
<1>5. RunnerInv(r)'
  BY <1>1, <1>3, <1>4 DEF RunnerInv
<1>6. runner'[r].pc = "done" => 1 .. Ships[r] \subseteq versions
  BY <1>1, <1>3
<1> QED
  BY <1>3, <1>4, <1>5, <1>6, DatabaseKept

\* A runner that runs a file is the only one to have it open.
LEMMA ExecFileKeeps ==
  ASSUME MigrateInv, NEW r \in Runners, ExecFile(r)
  PROVE  MigrateInv'
<1>1. MigrateTypeOK /\ RunnerInv(r)
  BY DEF MigrateInv
<1>2. /\ runner' \in [Runners -> RunnerStates]
      /\ runner'[r].pc = "record" /\ runner'[r].todo = runner[r].todo
      /\ \A q \in Runners \ {r} : runner'[q] = runner[q]
  BY <1>1, EnterEffect DEF ExecFile, Phases
<1>3. \A q \in Runners \ {r} :
        runner[q].pc \in {"record", "commit"} => Current(q) # Current(r)
  BY DEF ExecFile, Waits
<1>4. UNCHANGED <<versions, effects>> /\ created' = created /\ created \in BOOLEAN
  BY <1>1 DEF ExecFile, database, MigrateTypeOK
<1>5. RunnerInv(r)'
  <2>1. \A q \in Runners : Current(q)' = Current(q)
    BY <1>2, CurrentSame
  <2> QED
    BY <1>1, <1>2, <1>3, <1>4, <2>1 DEF RunnerInv, Waits, ExecFile
<1> QED
  BY <1>2, <1>3, <1>4, <1>5, DatabaseKept

\* Who may commit has seen the key free, and nobody else holds it.
LEMMA RecordVersionKeeps ==
  ASSUME MigrateInv, NEW r \in Runners, RecordVersion(r)
  PROVE  MigrateInv'
<1>1. MigrateTypeOK /\ RunnerInv(r)
  BY DEF MigrateInv
<1>2. CASE Current(r) \in versions
  BY <1>2, FatalKeeps DEF RecordVersion, Fatal
<1>3. CASE Current(r) \notin versions
  <2>1. /\ runner' \in [Runners -> RunnerStates]
        /\ runner'[r].pc = "commit" /\ runner'[r].todo = runner[r].todo
        /\ \A q \in Runners \ {r} : runner'[q] = runner[q]
    BY <1>1, <1>3, EnterEffect DEF RecordVersion, Phases
  <2>2. \A q \in Runners \ {r} :
          runner[q].pc \in {"record", "commit"} => Current(q) # Current(r)
    BY <1>1 DEF RecordVersion, RunnerInv, Waits
  <2>3. UNCHANGED <<versions, effects>> /\ created' = created /\ created \in BOOLEAN
    BY <1>1 DEF RecordVersion, database, MigrateTypeOK
  <2>4. RunnerInv(r)'
    <3>1. \A q \in Runners : Current(q)' = Current(q)
      BY <2>1, CurrentSame
    <3> QED
      BY <1>1, <1>3, <2>1, <2>2, <2>3, <3>1 DEF RunnerInv, Waits, RecordVersion
  <2> QED
    BY <2>1, <2>2, <2>3, <2>4, DatabaseKept
<1> QED
  BY <1>2, <1>3

-----------------------------------------------------------------------------
(* The commit of a file.                                                   *)

\* The file of a commit extends what is applied by exactly the next file.
LEMMA AppliedExtends ==
  ASSUME MigrateInv, NEW r \in Runners, Applied(r)
  PROVE  /\ versions' \subseteq Files /\ effects' \in [Files -> Nat]
         /\ AppliedOnce'
         /\ \A f \in versions' : \A g \in 1 .. f : g \in versions'
<1>1. /\ MigrateTypeOK /\ RunnerInv(r) /\ runner[r].pc = "commit"
      /\ AppliedOnce /\ AppliedInOrder
  BY DEF MigrateInv, Applied
<1>2. runner[r].todo \subseteq Files /\ runner[r].todo # {}
  BY <1>1, ShipsFiles DEF RunnerInv
<1>3. PICK c \in Files : c = Current(r) /\ \A g \in runner[r].todo : c <= g
  BY <1>2, CurrentIsNext
<1>4. c \notin versions /\ c \in 1 .. Ships[r] /\ 1 .. Ships[r] \subseteq versions \union runner[r].todo
  BY <1>1, <1>2, <1>3, CurrentIsNext DEF RunnerInv
<1>5. versions' = versions \union {c} /\ effects' = [effects EXCEPT ![c] = @ + 1]
  BY <1>3 DEF Applied
<1>6. versions' \subseteq Files /\ effects' \in [Files -> Nat]
  BY <1>1, <1>3, <1>5 DEF MigrateTypeOK
<1>7. AppliedOnce'
  BY <1>1, <1>3, <1>4, <1>5 DEF AppliedOnce, MigrateTypeOK
<1>8. ASSUME NEW g \in 1 .. c PROVE g \in versions'
  <2>1. c \in Nat /\ g \in 1 .. Ships[r]
    BY <1>3, <1>4, ShipsFiles DEF Files
  <2>2. g \in runner[r].todo => g = c
    BY <1>3, <2>1
  <2> QED
    BY <1>4, <1>5, <2>1, <2>2
<1>9. \A f \in versions' : \A g \in 1 .. f : g \in versions'
  BY <1>1, <1>5, <1>8 DEF AppliedInOrder
<1> QED
  BY <1>6, <1>7, <1>9

\* No other runner is in the file, and the versions only grow.
LEMMA OthersAfterApplied ==
  ASSUME MigrateInv, NEW r \in Runners, Applied(r),
         \A q \in Runners \ {r} : runner'[q] = runner[q],
         runner'[r].pc \notin {"record", "commit"},
         NEW q \in Runners \ {r}
  PROVE  RunnerInv(q)' /\ (runner'[q].pc = "done" => 1 .. Ships[q] \subseteq versions')
<1>1. \A p \in Runners \ {r} : Current(p)' = Current(p)
  BY CurrentSame
<1>2. /\ RunnerInv(q) /\ RunnerInv(r) /\ runner[r].pc = "commit"
      /\ runner[q].pc = "done" => 1 .. Ships[q] \subseteq versions
      /\ versions' = versions \union {Current(r)} /\ created' = created
  BY DEF MigrateInv, AppliedInOrder, Applied
<1>3. runner[q].pc = "commit" => Current(q) # Current(r)
  BY <1>2 DEF RunnerInv, Waits
<1> QED
  BY <1>1, <1>2, <1>3 DEF RunnerInv, Waits

\* A commit adds the next file to a prefix, once.
LEMMA CommitFileKeeps ==
  ASSUME MigrateInv, NEW r \in Runners, CommitFile(r)
  PROVE  MigrateInv'
<1> DEFINE todo == runner[r].todo \ {Current(r)}
<1>1. MigrateTypeOK /\ RunnerInv(r) /\ Applied(r) /\ runner[r].pc = "commit"
  BY DEF MigrateInv, CommitFile, Applied
<1>2. /\ todo \subseteq 1 .. Ships[r] /\ todo \subseteq Files
      /\ 1 .. Ships[r] \subseteq versions' \union todo
      /\ created' = created /\ created
  BY <1>1, ShipsFiles DEF RunnerInv, Applied
<1>3. Continue(r, todo)
  BY DEF CommitFile
<1> HIDE DEF todo
<1>4. /\ runner' \in [Runners -> RunnerStates]
      /\ runner'[r].pc = IF todo = {} THEN "done" ELSE "exec"
      /\ runner'[r].todo = todo
      /\ \A q \in Runners \ {r} : runner'[q] = runner[q]
  BY <1>1, <1>2, <1>3, ContinueEffect
<1>5. RunnerInv(r)' /\ (runner'[r].pc = "done" => 1 .. Ships[r] \subseteq versions')
  BY <1>2, <1>4 DEF RunnerInv
<1>6. \A q \in Runners \ {r} :
        RunnerInv(q)' /\ (runner'[q].pc = "done" => 1 .. Ships[q] \subseteq versions')
  BY <1>1, <1>4, OthersAfterApplied
<1>7. MigrateTypeOK' /\ AppliedOnce' /\ AppliedInOrder'
  BY <1>1, <1>2, <1>4, <1>5, <1>6, AppliedExtends DEF MigrateTypeOK, AppliedInOrder
<1> QED
  BY <1>5, <1>6, <1>7 DEF MigrateInv

\* So does one that the runner never hears of.
LEMMA CommitUnansweredKeeps ==
  ASSUME MigrateInv, NEW r \in Runners, CommitUnanswered(r)
  PROVE  MigrateInv'
<1>1. MigrateTypeOK /\ RunnerInv(r) /\ Applied(r)
  BY DEF MigrateInv, CommitUnanswered
<1>2. /\ runner' \in [Runners -> RunnerStates]
      /\ runner'[r].pc = "failed" /\ runner'[r].todo = runner[r].todo
      /\ \A q \in Runners \ {r} : runner'[q] = runner[q]
  BY <1>1, EnterEffect DEF CommitUnanswered, Phases
<1>3. RunnerInv(r)'
  BY <1>1, <1>2 DEF RunnerInv
<1>4. \A q \in Runners \ {r} :
        RunnerInv(q)' /\ (runner'[q].pc = "done" => 1 .. Ships[q] \subseteq versions')
  BY <1>1, <1>2, OthersAfterApplied
<1>5. MigrateTypeOK' /\ AppliedOnce' /\ AppliedInOrder'
  BY <1>1, <1>2, <1>4, AppliedExtends DEF MigrateTypeOK, AppliedInOrder, Applied
<1> QED
  BY <1>3, <1>4, <1>5 DEF MigrateInv

-----------------------------------------------------------------------------
(* MigrateInv.                                                             *)

LEMMA MigrateInitInv == MigrateInit => MigrateInv
<1> SUFFICES ASSUME MigrateInit PROVE MigrateInv
  OBVIOUS
<1>1. created \in BOOLEAN /\ versions \subseteq Files
  BY DEF MigrateInit
<1>2. \A r \in Runners : runner[r].pc = "off" /\ runner[r].todo = {}
  BY DEF MigrateInit
<1>3. MigrateTypeOK
  BY <1>1 DEF MigrateInit, MigrateTypeOK, RunnerStates, Phases
<1>4. AppliedOnce /\ AppliedInOrder
  BY <1>2 DEF MigrateInit, AppliedOnce, AppliedInOrder
<1>5. \A r \in Runners : RunnerInv(r)
  BY <1>2 DEF RunnerInv
<1> QED
  BY <1>3, <1>4, <1>5 DEF MigrateInv

LEMMA MigrateStepInv ==
  ASSUME MigrateInv, MigrateNext \/ MigrateFault
  PROVE  MigrateInv'
<1>1. PICK r \in Runners :
        \/ StartRunner(r) \/ CreateTable(r) \/ ReadApplied(r) \/ ExecFile(r) \/ ExecFails(r)
        \/ RecordVersion(r) \/ CommitFile(r)
        \/ RunnerDies(r) \/ CreateUnanswered(r) \/ CommitUnanswered(r) \/ ReadSomeApplied(r)
  BY DEF MigrateNext, MigrateFault
<1>2. CASE StartRunner(r)
  BY <1>2, StartRunnerKeeps
<1>3. CASE ReadApplied(r)
  BY <1>3, ReadKeeps DEF ReadApplied
<1>4. CASE ExecFile(r)
  BY <1>4, ExecFileKeeps
<1>5. CASE ExecFails(r) \/ RunnerDies(r)
  BY <1>5, FatalKeeps DEF ExecFails, RunnerDies
<1>6. CASE RecordVersion(r)
  BY <1>6, RecordVersionKeeps
<1>7. CASE CommitFile(r)
  BY <1>7, CommitFileKeeps
<1>8. CASE CommitUnanswered(r)
  BY <1>8, CommitUnansweredKeeps
<1>9. CASE ReadSomeApplied(r)
  <2>1. PICK part \in SUBSET versions :
          Continue(r, {f \in 1 .. Ships[r] : f \notin part})
    BY <1>9 DEF ReadSomeApplied
  <2> QED
    BY <1>9, <2>1, ReadKeeps DEF ReadSomeApplied
<1>10. CASE CreateTable(r) \/ CreateUnanswered(r)
  BY <1>10, CreateTableKeeps
<1> QED
  BY <1>1, <1>2, <1>3, <1>4, <1>5, <1>6, <1>7, <1>8, <1>9, <1>10

LEMMA MigrateStutterInv ==
  ASSUME MigrateInv, UNCHANGED migrateVars
  PROVE  MigrateInv'
BY DEF MigrateInv, MigrateTypeOK, AppliedOnce, AppliedInOrder, RunnerInv, Waits, Current,
       migrateVars, database

\* What is in the database stays there.
LEMMA VersionsGrow ==
  ASSUME MigrateNext \/ MigrateFault
  PROVE  versions \subseteq versions'
BY DEF MigrateNext, MigrateFault, StartRunner, CreateTable, ReadApplied, ExecFile, ExecFails,
       RecordVersion, CommitFile, RunnerDies, CreateUnanswered, CommitUnanswered,
       ReadSomeApplied, Fatal, Applied, database

-----------------------------------------------------------------------------
(* RaceInv.                                                                *)

\* A runner whose next file is there already has been overtaken.
LEMMA OvertakenIsBehind ==
  ASSUME MigrateInv, NEW r \in Runners, ExecFails(r) \/ (RecordVersion(r) /\ Current(r) \in versions)
  PROVE  ~Ahead(r) /\ created
<1>1. /\ created
      /\ runner[r].pc \in {"exec", "record"} /\ runner[r].todo \subseteq Files /\ runner[r].todo # {}
  BY ShipsFiles DEF ExecFails, RecordVersion, MigrateInv, RunnerInv
<1>2. Current(r) \in runner[r].todo /\ Current(r) \in Files
  BY <1>1, CurrentIsNext
<1>3. Current(r) \in versions
  BY <1>2 DEF ExecFails, MigrateInv, AppliedOnce
<1> QED
  BY <1>1, <1>2, <1>3 DEF Ahead

\* The runner that commits a file is the one ahead.
LEMMA CommitterIsAhead ==
  ASSUME MigrateInv, NEW r \in Runners, CommitFile(r)
  PROVE  Ahead(r)'
<1> DEFINE todo == runner[r].todo \ {Current(r)}
<1>1. /\ MigrateTypeOK /\ runner[r].pc = "commit" /\ versions' = versions \union {Current(r)}
      /\ runner[r].todo \subseteq Files /\ runner[r].todo # {} /\ Current(r) \notin versions
      /\ todo \subseteq Files /\ Continue(r, todo)
  BY ShipsFiles DEF CommitFile, Applied, MigrateInv, RunnerInv
<1>2. Current(r) \in Files /\ \A g \in todo : Current(r) <= g
  BY <1>1, CurrentIsNext
<1>3. todo \intersect versions' = {}
  <2> SUFFICES ASSUME NEW g \in todo, g \in versions PROVE FALSE
    BY <1>1
  <2>1. Current(r) \in 1 .. g
    BY <1>1, <1>2, FilesAssumption DEF Files
  <2> QED
    BY <1>1, <2>1 DEF MigrateInv, AppliedInOrder
<1> HIDE DEF todo
<1>4. runner'[r].pc = (IF todo = {} THEN "done" ELSE "exec") /\ runner'[r].todo = todo
  BY <1>1, ContinueEffect
<1> QED
  BY <1>3, <1>4 DEF Ahead

\* Before the table is made nobody has failed.
LEMMA RaceInitInv == MigrateInit => RaceInv
BY DEF MigrateInit, RaceInv

\* RaceInv is kept while nothing else fails: whoever makes the table or commits
\* is ahead after, and a runner that is ahead is not the one that finds the
\* table or its file there.
LEMMA RaceStepInv ==
  ASSUME MigrateInv, RaceInv, MigrateNext
  PROVE  RaceInv'
<1> USE DEF Phases
<1>1. MigrateTypeOK
  BY DEF MigrateInv
<1>2. PICK r \in Runners :
        \/ StartRunner(r) \/ CreateTable(r) \/ ReadApplied(r) \/ ExecFile(r) \/ ExecFails(r)
        \/ RecordVersion(r) \/ CommitFile(r)
  BY DEF MigrateNext
\* The database stays, and r is still ahead if it was.
<1>3. ASSUME UNCHANGED database, \A q \in Runners \ {r} : runner'[q] = runner[q],
             Ahead(r) => Ahead(r)', runner'[r].pc # "failed"
      PROVE  RaceInv'
  <2>1. CASE ~created /\ \A q \in Runners : runner[q].pc # "failed"
    BY <1>3, <2>1 DEF RaceInv, database
  <2>2. ASSUME NEW q \in Runners, Ahead(q) PROVE RaceInv'
    <3>1. Ahead(q)'
      BY <1>3, <2>2 DEF Ahead, database
    <3> QED
      BY <3>1 DEF RaceInv
  <2> QED
    BY <2>1, <2>2 DEF RaceInv
\* Somebody else is ahead.
<1>4. ASSUME UNCHANGED versions, ~Ahead(r), created, \A q \in Runners \ {r} : runner'[q] = runner[q]
      PROVE  RaceInv'
  BY <1>4 DEF RaceInv, Ahead
\* r is ahead of the files, or the table is not there.
<1>5. CASE StartRunner(r)
  <2>1. CASE created
    <3>1. runner'[r].pc = "read"
      BY <1>1, <1>5, <2>1, EnterEffect DEF StartRunner
    <3> QED
      BY <3>1 DEF RaceInv, Ahead
  <2>2. CASE ~created
    <3>1. ~Ahead(r)
      BY <2>2 DEF Ahead, MigrateInv, RunnerInv
    <3>2. /\ UNCHANGED database /\ runner'[r].pc = "create"
          /\ \A q \in Runners \ {r} : runner'[q] = runner[q]
      BY <1>1, <1>5, <2>2, EnterEffect DEF StartRunner
    <3> QED
      BY <1>3, <3>1, <3>2
  <2> QED
    BY <2>1, <2>2
<1>6. CASE ReadApplied(r)
  <2> DEFINE todo == {f \in 1 .. Ships[r] : f \notin versions}
  <2>1. Continue(r, todo) /\ todo \subseteq Files /\ todo \intersect versions = {} /\ versions' = versions
    BY <1>6, ShipsFiles DEF ReadApplied, database
  <2> HIDE DEF todo
  <2>2. runner'[r].pc = (IF todo = {} THEN "done" ELSE "exec") /\ runner'[r].todo = todo
    BY <1>1, <2>1, ContinueEffect
  <2> QED
    BY <2>1, <2>2 DEF RaceInv, Ahead
<1>7. CASE ExecFile(r)
  BY <1>1, <1>3, <1>7, EnterEffect DEF ExecFile, Ahead, database
<1>8. CASE ExecFails(r)
  BY <1>1, <1>4, <1>8, OvertakenIsBehind, EnterEffect DEF ExecFails, Fatal, database
<1>9. CASE RecordVersion(r)
  <2>1. CASE Current(r) \in versions
    BY <1>1, <1>4, <1>9, <2>1, OvertakenIsBehind, EnterEffect DEF RecordVersion, database
  <2>2. CASE Current(r) \notin versions
    BY <1>1, <1>3, <1>9, <2>2, EnterEffect DEF RecordVersion, Ahead, database
  <2> QED
    BY <2>1, <2>2
<1>10. CASE CommitFile(r)
  BY <1>10, CommitterIsAhead DEF RaceInv
<1>11. CASE CreateTable(r)
  <2>1. CASE created
    <3>1. ~Ahead(r)
      BY <1>11 DEF CreateTable, Ahead
    <3> QED
      BY <1>1, <1>4, <1>11, <2>1, <3>1, EnterEffect DEF CreateTable
  <2>2. CASE ~created
    <3>1. runner'[r].pc = "read"
      BY <1>1, <1>11, <2>2, EnterEffect DEF CreateTable
    <3> QED
      BY <3>1 DEF RaceInv, Ahead
  <2> QED
    BY <2>1, <2>2
<1> QED
  BY <1>2, <1>5, <1>6, <1>7, <1>8, <1>9, <1>10, <1>11

LEMMA RaceStutterInv ==
  ASSUME RaceInv, UNCHANGED migrateVars
  PROVE  RaceInv'
BY DEF RaceInv, Ahead, migrateVars, database
=============================================================================
