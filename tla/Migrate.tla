------------------------------ MODULE Migrate ------------------------------
(***************************************************************************)
(* `dbos migrate` and `dbos rollback` (src/src/dbos-runtime/migrate.ts,   *)
(* migrate, createDBOSTables and rollbackMigration) run by several         *)
(* processes at once, e.g. one per deployed instance.                      *)
(*                                                                         *)
(* The state is the set of database objects that exist.  Each migrator    *)
(* checks for the application database, creates it if absent, runs the    *)
(* user's migration commands, then checks for and creates the dbos        *)
(* schema, the transaction_outputs table, its index and the system         *)
(* database, one check-then-create pair each, and finally loads the       *)
(* system schema with migrateSystemDatabase.  A CREATE of an object that   *)
(* exists raises an error (CREATE DATABASE has no IF NOT EXISTS; the DDL   *)
(* strings of user_db_schema are not under src/, and the code's comment    *)
(* "check if the schema/table exists before creating it" treats them the   *)
(* same way).                                                              *)
(***************************************************************************)
EXTENDS Naturals, Sequences, TLC

CONSTANTS
  Procs,         \* concurrent `dbos migrate` / `dbos rollback` processes
  MigrateCmds,   \* length of configFile.database.migrate
  RollbackCmds   \* length of configFile.database.rollback

\* An absent list (`?.forEach` on undefined) runs no command.
ASSUME MigrateCmds \in Nat /\ RollbackCmds \in Nat

\* The objects createDBOSTables creates, in the order it creates them.
DBOSObjects == <<"schema", "txnOutputs", "txnIndex", "sysDb">>

AllObjects == {"appDb", "sysTables"} \cup {DBOSObjects[i] : i \in 1 .. Len(DBOSObjects)}

VARIABLES
  db,    \* the objects that exist in the Postgres server
  mig    \* per process: the CLI command, pc, next shell command, stage in
         \* DBOSObjects, return code, and whether an error of its own (not a
         \* concurrency conflict) occurred

vars == <<db, mig>>

\* The shell commands of a CLI command's list in the configuration file.
CmdCount == [migrate |-> MigrateCmds, rollback |-> RollbackCmds]

\* The migrator returns code r (the `return 1` / `return 0` of migrate);
\* own tells whether the error, if any, was its own.
Return(p, r, own) ==
  mig' = [mig EXCEPT ![p].pc = "end", ![p].ret = r, ![p].ownError = own]

\* Object i of DBOSObjects is in place: go on to the next one, or to the
\* system schema after the last.
NextStage(m, i) ==
  IF i = Len(DBOSObjects) THEN [m EXCEPT !.pc = "sysMigrate"]
  ELSE [m EXCEPT !.pc = "check", !.stage = i + 1]

-----------------------------------------------------------------------------

\* checkDatabaseExists: a connection to the application database succeeds
\* exactly when it exists.
checkDatabaseExists(p) ==
  /\ mig[p].pc = "checkDb"
  /\ mig' = [mig EXCEPT ![p].pc = IF "appDb" \in db THEN "migrateCmds"
                                                       ELSE "createAppDb"]
  /\ UNCHANGED db

\* CREATE DATABASE for the application database; an error is logged and
\* migrate returns 1.
CreateAppDatabase(p) ==
  /\ mig[p].pc = "createAppDb"
  /\ IF "appDb" \in db
       THEN /\ Return(p, 1, FALSE) /\ UNCHANGED db
       ELSE /\ db' = db \cup {"appDb"}
            /\ mig' = [mig EXCEPT ![p].pc = "migrateCmds"]

\* `commands?.forEach((cmd) => execSync(cmd))` in a try: the next command
\* runs; one that exits non-zero throws out of the loop, the catch logs it
\* (logMigrationError) and returns 1.  After the last command the process
\* goes on to m2.
ExecCommands(p, m2) ==
  LET m == mig[p] IN
  IF m.cmd > CmdCount[m.command]
    THEN mig' = [mig EXCEPT ![p] = m2]
    ELSE \/ mig' = [mig EXCEPT ![p].cmd = m.cmd + 1]
         \/ Return(p, 1, TRUE)

\* The user's migration commands, then createDBOSTables.
RunMigrationCommands(p) ==
  /\ mig[p].pc = "migrateCmds"
  /\ ExecCommands(p, [mig[p] EXCEPT !.pc = "check", !.stage = 1])
  /\ UNCHANGED db

\* rollbackMigration: the user's rollback commands, then `return 0`.
rollbackMigration(p) ==
  /\ mig[p].pc = "rollbackCmds"
  /\ ExecCommands(p, [mig[p] EXCEPT !.pc = "end", !.ret = 0])
  /\ UNCHANGED db

\* `SELECT EXISTS (...)` for the next object: skip it if it exists.
CheckExists(p) ==
  LET i == mig[p].stage IN
  /\ mig[p].pc = "check"
  /\ mig' = [mig EXCEPT ![p] = IF DBOSObjects[i] \in db THEN NextStage(@, i)
                                ELSE [@ EXCEPT !.pc = "create"]]
  /\ UNCHANGED db

\* The CREATE after a check that found nothing.  If another migrator
\* created the object in between, CREATE DATABASE fails (Postgres has no
\* IF NOT EXISTS for it); the DDL of the schema, table and index is not
\* under src/, so their CREATE may fail or, with IF NOT EXISTS, succeed.
\* A failure makes createDBOSTables throw; migrate logs it and returns 1.
CreateObject(p) ==
  LET i == mig[p].stage  o == DBOSObjects[i] IN
  /\ mig[p].pc = "create"
  /\ IF o \in db
       THEN \/ Return(p, 1, FALSE) /\ UNCHANGED db
            \/ /\ o # "sysDb"
               /\ mig' = [mig EXCEPT ![p] = NextStage(@, i)]
               /\ UNCHANGED db
       ELSE /\ db' = db \cup {o}
            /\ mig' = [mig EXCEPT ![p] = NextStage(@, i)]

\* Mutant: a failed migrateSystemDatabase is ignored without checking that
\* someone else created the system tables.
migrateSystemTablesBlind(p) ==
  /\ mig[p].pc = "sysMigrate"
  /\ \/ /\ db' = db \cup {"sysTables"}
        /\ Return(p, 0, FALSE)
     \/ /\ Return(p, 0, FALSE)
        /\ UNCHANGED db

\* migrateSystemDatabase (system_database, not under src/) either loads
\* the system schema or fails.  On failure the code asks whether
\* dbos.operation_outputs exists: if so a concurrent migrator made it and
\* the error is only a warning, otherwise it is rethrown and migrate
\* returns 1.
migrateSystemTables(p) ==
  /\ mig[p].pc = "sysMigrate"
  /\ \/ /\ db' = db \cup {"sysTables"}
        /\ Return(p, 0, FALSE)
     \/ /\ UNCHANGED db
        /\ IF "sysTables" \in db THEN Return(p, 0, FALSE)
                                  ELSE Return(p, 1, TRUE)

\* All migrators have returned.
Terminated ==
  /\ \A p \in Procs : mig[p].pc = "end"
  /\ UNCHANGED vars

Init ==
  /\ db = {}
  /\ \E command \in [Procs -> {"migrate", "rollback"}] :
       mig = [p \in Procs |->
                [command |-> command[p], cmd |-> 1, stage |-> 1, ret |-> 0,
                 ownError |-> FALSE,
                 pc |-> IF command[p] = "migrate" THEN "checkDb"
                                                 ELSE "rollbackCmds"]]

Next ==
  \/ \E p \in Procs :
       \/ checkDatabaseExists(p) \/ CreateAppDatabase(p)
       \/ RunMigrationCommands(p) \/ CheckExists(p) \/ CreateObject(p)
       \/ migrateSystemTables(p) \/ rollbackMigration(p)
  \/ Terminated

Spec == Init /\ [][Next]_vars

-----------------------------------------------------------------------------
(* Properties                                                              *)

\* A process that returns 0 ("Migration successful!", or the `return 0` of
\* rollbackMigration) has run every command of its list, and a migrate
\* leaves every DBOS object in place, including the system tables whose
\* creation failure the catch in createDBOSTables tolerates, whatever the
\* other migrators and rollbacks did meanwhile.
SuccessIsComplete ==
  \A p \in Procs : mig[p].pc = "end" /\ mig[p].ret = 0 =>
    /\ mig[p].cmd = CmdCount[mig[p].command] + 1
    /\ mig[p].command = "migrate" => AllObjects \subseteq db

\* createDBOSTables checks before every create and tolerates a system-table
\* failure "that may conflict with concurrent tasks": a migrator whose own
\* commands and system migration did not fail returns 0, however the
\* migrators interleave.
ConcurrentMigrationsSucceed ==
  \A p \in Procs : mig[p].pc = "end" /\ ~mig[p].ownError => mig[p].ret = 0

=============================================================================
