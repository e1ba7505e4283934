------------------------------ MODULE Migrations ------------------------------
(***************************************************************************)
(* PromptRepository.applyMigrations: every process that opens the main     *)
(* database brings its schema up to date, file by file and statement by    *)
(* statement, each statement committed on its own.  A process may crash    *)
(* between two statements, throw at one, and be started again; several may *)
(* start on one file.  The desktop application has a runner of its own     *)
(* (apply_migrations in main.rs), with the files up to 005.                *)
(*                                                                         *)
(* A schema is the set of its objects; runs of statements of one kind in a *)
(* file (indexes, triggers of one table) are one object.                   *)
(***************************************************************************)
EXTENDS Naturals, Sequences

CONSTANTS
  Runners,         \* the processes that open the file
  StartVersions,   \* the versions of the database files found; 0 is an empty one
  CrashFiles,      \* the files inside which a process may crash
  MaxCrashes       \* bound

ASSUME VersionsExist == StartVersions \subseteq 0..7 /\ CrashFiles \subseteq 1..7
ASSUME CrashesCount == MaxCrashes \in Nat

VARIABLES
  schema,       \* the objects of the database
  userVersion,  \* PRAGMA user_version
  runner,       \* per process: where it is
  crashes

migrationVars == <<schema, userVersion, runner, crashes>>

-----------------------------------------------------------------------------
(* The files *)

Columns == {"category", "format", "deleted_at", "is_favorite", "rating"}
OldTriggers == {"old prompt triggers", "old delete trigger", "old version triggers"}
NewTriggers == {"new prompt triggers", "new delete trigger", "new version triggers"}
DeleteTriggers == {"old delete trigger", "fts5 delete trigger", "new delete trigger"}
Triggers == OldTriggers \cup NewTriggers \cup DeleteTriggers
PromptTriggers == Triggers \ {"old version triggers", "new version triggers"}
Index == {"old fts", "new fts", "new fts rows"}

(* A statement is skipped when one of `unless' exists, and throws when one *)
(* of `clash' exists or one of `needs' does not.                           *)
Statement(unless, clash, needs, drops, adds) ==
  [unless |-> unless, clash |-> clash, needs |-> needs, drops |-> drops, adds |-> adds]

IfNotExists(object, needs, adds) == Statement({object}, {}, needs, {}, {object} \cup adds)
AddColumn(column, table) == Statement({}, {column}, {table}, {}, {column})
DropIfExists(objects) == Statement({}, {}, {}, objects, {})
Create(objects, clash, needs) == Statement({}, clash, needs, {}, objects)

(* `guard': the columns of which one is enough to skip the whole file.     *)
File(version, guard, statements) ==
  [version |-> version, guard |-> guard, statements |-> statements]

(* In the order of the numbers; the two files 002 in that of their names.  *)
Migrations == <<
  File(1, {}, <<
    IfNotExists("prompts", {}, {"category", "deleted_at", "is_favorite", "rating"}),
    IfNotExists("prompt_versions", {}, {"format"}),
    IfNotExists("tags", {}, {}),
    IfNotExists("prompt_tags", {}, {}),
    Statement({"old fts", "new fts"}, {}, {}, {}, {"old fts"}),
    Statement(Triggers, {}, {"prompts", "prompt_versions"}, {}, OldTriggers),
    IfNotExists("indexes", {"prompts", "prompt_versions", "tags", "prompt_tags"}, {}),
    IfNotExists("view", {}, {}) >>),
  File(2, {"category"}, << AddColumn("category", "prompts") >>),
  File(2, {}, << IfNotExists("more indexes",
                   {"prompts", "prompt_versions", "tags", "prompt_tags"}, {}) >>),
  File(3, {"format"}, << AddColumn("format", "prompt_versions") >>),
  File(4, {"deleted_at"}, << AddColumn("deleted_at", "prompts") >>),
  File(5, {"is_favorite", "rating"}, <<
    AddColumn("is_favorite", "prompts"),
    AddColumn("rating", "prompts") >>),
  File(6, {}, <<
    DropIfExists(DeleteTriggers),
    Create({"fts5 delete trigger"}, DeleteTriggers, {"prompts"}) >>),
  File(7, {}, <<
    DropIfExists(Triggers),
    DropIfExists(Index),
    Create({"new fts"}, {"old fts", "new fts"}, {}),
    Create({"new fts rows"}, {}, {"new fts", "prompts", "prompt_versions", "deleted_at"}),
    Create({"new prompt triggers", "new delete trigger"}, PromptTriggers, {"prompts"}),
    Create({"new version triggers"}, {"old version triggers", "new version triggers"},
           {"prompt_versions"}) >>) >>

AddMissing(column, table) == Statement({column}, {}, {table}, {}, {column})

(* The files of the desktop application; 005 is two statements of its own. *)
NativeMigrations == <<
  File(1, {"prompts"}, Migrations[1].statements),
  File(2, {}, <<AddMissing("category", "prompts"), Migrations[3].statements[1]>>),
  File(3, {}, <<AddMissing("format", "prompt_versions")>>),
  File(4, {}, <<AddMissing("deleted_at", "prompts")>>),
  File(5, {}, <<AddMissing("is_favorite", "prompts"), AddMissing("rating", "prompts")>>) >>

Programs == {"node", "native"}
Files(program) == IF program = "node" THEN Migrations ELSE NativeMigrations

(* What the queries and triggers of the present release refer to. *)
Complete ==
  {"prompts", "prompt_versions", "tags", "prompt_tags", "new fts", "new fts rows"}
  \cup Columns \cup NewTriggers

(* The desktop application searches in memory, without the index. *)
Needed(program) ==
  IF program = "node" THEN Complete
  ELSE {"prompts", "prompt_versions", "tags", "prompt_tags"} \cup Columns

(* The database of an earlier release that had the files up to `version'.  *)
Released(version) ==
  IF version = 0 THEN {} ELSE
    {"prompts", "prompt_versions", "tags", "prompt_tags", "indexes", "view"}
    \cup (IF version >= 2 THEN {"category", "more indexes"} ELSE {})
    \cup (IF version >= 3 THEN {"format"} ELSE {})
    \cup (IF version >= 4 THEN {"deleted_at"} ELSE {})
    \cup (IF version >= 5 THEN {"is_favorite", "rating"} ELSE {})
    \cup (IF version = 7 THEN {"new fts", "new fts rows"} \cup NewTriggers
          ELSE {"old fts"} \cup
               (IF version = 6 THEN (OldTriggers \ DeleteTriggers) \cup {"fts5 delete trigger"}
                ELSE OldTriggers))

-----------------------------------------------------------------------------
(* The runners *)

(* Fault: the column is taken to be missing. *)
NeverHasColumn(column) == FALSE

HasColumn(column) == column \in schema

(* Errors of the PRAGMAs aside, a version is inferred from the columns.    *)
InferSchemaVersion ==
  IF Columns \subseteq schema THEN 5
  ELSE IF {"category", "deleted_at", "format"} \subseteq schema THEN 2
  ELSE IF {"prompts", "prompt_versions"} \cap schema # {} THEN 1
  ELSE 0

(* infer_schema_version *)
InferNative == IF "prompts" \notin schema THEN 0 ELSE InferSchemaVersion

Larger(a, b) == IF a >= b THEN a ELSE b

CurrentVersion(program) ==
  Larger(userVersion, IF program = "node" THEN InferSchemaVersion ELSE InferNative)

(* `file' is the place of the next file in the list, or the one after it.   *)
Stopped == [at |-> "stopped"]
Ready(program) == [at |-> "ready", program |-> program]
Between(program, file) == [at |-> "between files", program |-> program, file |-> file]
Inside(program, file, next) ==
  [at |-> "inside a file", program |-> program, file |-> file, next |-> next]

FileOf(x) == Files(runner[x].program)[runner[x].file]
AllDone(x) == runner[x].file > Len(Files(runner[x].program))

Move(x, place) == runner' = [runner EXCEPT ![x] = place]

MigrationInit ==
  /\ \E v \in StartVersions :
       schema = Released(v) /\ userVersion \in {0, v}
  /\ runner = [x \in Runners |-> Stopped]
  /\ crashes = 0

(* The pending files are settled here, once: the list is in the order of   *)
(* the versions, so they are those from the first newer one on.  The       *)
(* desktop application also records the version that it starts from.       *)
Start(x, program) ==
  LET pending == {i \in 1..Len(Files(program)) :
                    Files(program)[i].version > CurrentVersion(program)}
  IN /\ runner[x] = Stopped
     /\ IF pending = {} THEN Move(x, Ready(program))
        ELSE \E i \in pending : (\A k \in pending : i <= k) /\ Move(x, Between(program, i))
     /\ userVersion' = IF pending = {} \/ program = "native"
                       THEN CurrentVersion(program) ELSE userVersion
     /\ UNCHANGED <<schema, crashes>>

(* Fault: the version is recorded before the file has run. *)
OpenFileRecordingFirst(x) ==
  /\ runner[x].at = "between files" /\ ~AllDone(x)
  /\ userVersion' = FileOf(x).version
  /\ Move(x, IF \E column \in FileOf(x).guard : HasColumn(column)
             THEN Between(runner[x].program, runner[x].file + 1)
             ELSE Inside(runner[x].program, runner[x].file, 1))
  /\ UNCHANGED <<schema, crashes>>

(* The next file: skipped when a column it adds is there, else begun.      *)
OpenFile(x) ==
  /\ runner[x].at = "between files" /\ ~AllDone(x)
  /\ IF \E column \in FileOf(x).guard : HasColumn(column)
     THEN /\ userVersion' = FileOf(x).version
          /\ Move(x, Between(runner[x].program, runner[x].file + 1))
     ELSE /\ Move(x, Inside(runner[x].program, runner[x].file, 1))
          /\ UNCHANGED userVersion
  /\ UNCHANGED <<schema, crashes>>

(* A statement that throws ends the process: the constructor fails.        *)
ExecuteStatement(x) ==
  /\ runner[x].at = "inside a file"
  /\ runner[x].next <= Len(FileOf(x).statements)
  /\ LET s == FileOf(x).statements[runner[x].next]
         skipped == s.unless \cap schema # {}
         throws == ~skipped /\ (s.clash \cap schema # {} \/ ~(s.needs \subseteq schema))
     IN /\ schema' = IF skipped \/ throws THEN schema ELSE (schema \ s.drops) \cup s.adds
        /\ Move(x, IF throws THEN Stopped
                   ELSE Inside(runner[x].program, runner[x].file, runner[x].next + 1))
  /\ UNCHANGED <<userVersion, crashes>>

FinishFile(x) ==
  /\ runner[x].at = "inside a file"
  /\ runner[x].next > Len(FileOf(x).statements)
  /\ userVersion' = FileOf(x).version
  /\ Move(x, Between(runner[x].program, runner[x].file + 1))
  /\ UNCHANGED <<schema, crashes>>

FinishAll(x) ==
  /\ runner[x].at = "between files" /\ AllDone(x)
  /\ Move(x, Ready(runner[x].program))
  /\ UNCHANGED <<schema, userVersion, crashes>>

(* At the boundary of a file, before its first statement or between its    *)
(* last one and the PRAGMA; anywhere inside a file of CrashFiles.          *)
MayCrash(x) ==
  \/ runner[x].at = "between files"
  \/ /\ runner[x].at = "inside a file"
     /\ \/ runner[x].next \in {1, Len(FileOf(x).statements) + 1}
        \/ FileOf(x).version \in CrashFiles

Crash(x) ==
  /\ crashes < MaxCrashes
  /\ MayCrash(x)
  /\ Move(x, Stopped)
  /\ crashes' = crashes + 1
  /\ UNCHANGED <<schema, userVersion>>

Step(x) ==
  \/ \E program \in Programs : Start(x, program)
  \/ OpenFile(x) \/ ExecuteStatement(x) \/ FinishFile(x) \/ FinishAll(x)

MigrationNext == \E x \in Runners : Step(x) \/ Crash(x)

(* A process that can go on does, and one that stopped is started again.   *)
Fairness == \A x \in Runners : WF_migrationVars(Step(x))

MigrationSpec == MigrationInit /\ [][MigrationNext]_migrationVars /\ Fairness

-----------------------------------------------------------------------------
(* Properties *)

MigrationTypeOK ==
  /\ schema \subseteq Complete \cup Triggers \cup Index \cup {"indexes", "view", "more indexes"}
  /\ userVersion \in 0..7
  /\ \A x \in Runners :
       runner[x].at \in {"stopped", "ready", "between files", "inside a file"}
  /\ crashes \in 0..MaxCrashes

(* architecture.md:15: the schema is current once the repository is there: *)
(* whatever crashes and failed starts came before, when no process is left *)
(* in the middle of its files, one that is ready finds every object that   *)
(* its queries use.                                                        *)
ReadyIsComplete ==
  /\ MigrationTypeOK
  /\ (\A x \in Runners : runner[x].at \in {"ready", "stopped"}) =>
       \A x \in Runners : \A program \in Programs :
         runner[x] = Ready(program) => Needed(program) \subseteq schema

(* Once it no longer crashes, a process that is started again after every  *)
(* failure gets through its files.                                         *)
GetsReady == \A x \in Runners : <>[](runner[x].at = "ready")

=============================================================================
