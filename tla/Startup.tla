------------------------------- MODULE Startup -------------------------------
(***************************************************************************)
(* The life of the shared SQLite file: what Program.cs does with it when a *)
(* process starts (SchemaMigrator.Migrate, UserSeeder.SeedIfEmpty) and     *)
(* what the first request does (SimulationService.EnsureLibrary, which     *)
(* calls PlcProgramService.EnsureSeededAsync).                             *)
(*                                                                         *)
(* Several processes may run on one file: the default path is per user and *)
(* the port is chosen at start. Every statement outside a transaction      *)
(* commits on its own; a process may die anywhere and start again.         *)
(***************************************************************************)
EXTENDS Naturals, Sequences, FiniteSets

CONSTANTS
  Processes,      \* instances of the program on the same file
  NoProcess,      \* nobody holds the write lock of the file
  LatestVersion,  \* SchemaMigrator.LatestVersion
  AddsColumns,    \* versions whose script fails when it is run again (ALTER TABLE)
  Seed,           \* Auth:Seed, the users to create, in order
  Demos           \* the initial programs of the library, in order

Versions == 1..LatestVersion
Usernames == {Seed[i] : i \in DOMAIN Seed}
DemoPrograms == {Demos[i] : i \in DOMAIN Demos}

ASSUME ProcessAssumption == IsFiniteSet(Processes) /\ NoProcess \notin Processes
ASSUME VersionAssumption == LatestVersion \in Nat \ {0} /\ AddsColumns \subseteq Versions
ASSUME SeedAssumption == Seed \in Seq(Usernames) /\ Seed # <<>>
ASSUME DemosAssumption ==
  /\ Demos \in Seq(DemoPrograms) /\ Demos # <<>>
  /\ \A i, j \in DOMAIN Demos : Demos[i] = Demos[j] => i = j

VARIABLES
  applied,   \* SchemaMigrations: the recorded versions
  scripts,   \* history: the migration scripts that took effect, in order
  users,     \* Users: the usernames with a row
  programs,  \* PlcPrograms: rows by demo (every build of a demo has a new id)
  writer,    \* who holds the write lock: a transaction in progress
  pc,        \* where each process is
  known,     \* applied versions, as Migrate read them before its loop
  version,   \* the version Migrate handled last, or is handling
  seeded,    \* how many users or demos this process has saved so far
  catalog    \* SimulationService._catalog: the demos it has, {} before it is loaded

file == <<applied, scripts, users, programs>>
process == <<pc, known, version, seeded, catalog>>
vars == <<file, writer, process>>

Init ==
  /\ applied = {} /\ scripts = <<>>
  /\ users = {} /\ programs = [d \in DemoPrograms |-> 0]
  /\ writer = NoProcess
  /\ pc = [p \in Processes |-> "down"]
  /\ known = [p \in Processes |-> {}]
  /\ version = [p \in Processes |-> 0]
  /\ seeded = [p \in Processes |-> 0]
  /\ catalog = [p \in Processes |-> {}]

Goto(p, here, there) == pc[p] = here /\ pc' = [pc EXCEPT ![p] = there]

-----------------------------------------------------------------------------
(* SchemaMigrator.Migrate.                                                 *)

\* A new process opens the file and reads, outside any transaction, what is applied.
Start(p) ==
  /\ pc[p] \in {"down", "failed"}
  /\ pc' = [pc EXCEPT ![p] = "migrating"]
  /\ known' = [known EXCEPT ![p] = applied]
  /\ version' = [version EXCEPT ![p] = 0]
  /\ seeded' = [seeded EXCEPT ![p] = 0]
  /\ UNCHANGED <<file, writer, catalog>>

\* The versions the loop has left: not yet handled and not known as applied.
Pending(p) == {v \in Versions : v > version[p] /\ v \notin known[p]}

\* Mutated form: the versions are not taken in order.
BeginMigration_AnyOrder(p) ==
  /\ Goto(p, "migrating", "script")
  /\ writer = NoProcess /\ writer' = p
  /\ \E v \in Pending(p) : version' = [version EXCEPT ![p] = v]
  /\ UNCHANGED <<file, known, seeded, catalog>>

\* BeginTransaction takes the write lock (BEGIN IMMEDIATE).
BeginMigration(p) ==
  /\ Goto(p, "migrating", "script")
  /\ writer = NoProcess /\ writer' = p
  /\ \E v \in Pending(p) :
       /\ \A w \in Pending(p) : v <= w
       /\ version' = [version EXCEPT ![p] = v]
  /\ UNCHANGED <<file, known, seeded, catalog>>

\* Another transaction outlasts the busy timeout of a statement: the exception ends the
\* process while it starts. It ends only the request that saves the library, and the next
\* request finds what was saved before.
BusyTimeout(p) ==
  /\ writer \notin {NoProcess, p}
  /\ \/ Pending(p) # {} /\ Goto(p, "migrating", "failed")
     \/ Goto(p, "seeding", "failed")
     \/ Goto(p, "saving", "up")
  /\ UNCHANGED <<file, writer, known, version, seeded, catalog>>

\* Mutated form: the transaction is not disposed, and the process lives on with it.
Rollback_KeepsLock(p) ==
  /\ pc' = [pc EXCEPT ![p] = "failed"]
  /\ UNCHANGED writer

\* The exception rolls the transaction back and ends the process.
Rollback(p) ==
  /\ pc' = [pc EXCEPT ![p] = "failed"]
  /\ writer' = NoProcess

\* A script that adds columns fails on a schema that has them.
RunScript(p) ==
  /\ pc[p] = "script"
  /\ IF version[p] \in AddsColumns \cap applied
       THEN Rollback(p)
       ELSE Goto(p, "script", "record") /\ UNCHANGED writer
  /\ UNCHANGED <<file, known, version, seeded, catalog>>

\* Mutated form: INSERT OR REPLACE.
RecordVersion_Replaces(p) ==
  /\ Goto(p, "record", "commit")
  /\ UNCHANGED <<file, writer, known, version, seeded, catalog>>

\* Version is the primary key of SchemaMigrations: a version another process has applied
\* since it was read cannot be inserted again.
RecordVersion(p) ==
  /\ pc[p] = "record"
  /\ IF version[p] \in applied
       THEN Rollback(p)
       ELSE Goto(p, "record", "commit") /\ UNCHANGED writer
  /\ UNCHANGED <<file, known, version, seeded, catalog>>

Commit(p) ==
  /\ Goto(p, "commit", "migrating")
  /\ applied' = applied \cup {version[p]}
  /\ scripts' = Append(scripts, version[p])
  /\ writer' = NoProcess
  /\ UNCHANGED <<users, programs, known, version, seeded, catalog>>

\* Mutated form: the loop ends with the last migration of the previous release.
Migrated_StopsEarly(p) ==
  /\ Goto(p, "migrating", "users")
  /\ Pending(p) \subseteq {LatestVersion}
  /\ UNCHANGED <<file, writer, known, version, seeded, catalog>>

Migrated(p) ==
  /\ Goto(p, "migrating", "users")
  /\ Pending(p) = {}
  /\ UNCHANGED <<file, writer, known, version, seeded, catalog>>

-----------------------------------------------------------------------------
(* UserSeeder.SeedIfEmpty.                                                 *)

\* Users that exist, or a configuration without seed or password, mean nothing to do.
SeedIfEmpty(p) ==
  /\ \/ Goto(p, "users", "up")
     \/ users = {} /\ Goto(p, "users", "seeding")
  /\ UNCHANGED <<file, writer, known, version, seeded, catalog>>

\* Mutated form: the counter advances before the row is read.
UpsertUser_Skips(p) ==
  /\ pc[p] = "seeding" /\ writer = NoProcess
  /\ seeded' = [seeded EXCEPT ![p] = @ + 1]
  /\ users' = users \cup {Seed[IF seeded'[p] < Len(Seed) THEN seeded'[p] + 1 ELSE 1]}
  /\ pc' = [pc EXCEPT ![p] = IF seeded'[p] = Len(Seed) THEN "up" ELSE "seeding"]
  /\ UNCHANGED <<applied, scripts, programs, writer, known, version, catalog>>

\* Each Upsert commits on its own.
UpsertUser(p) ==
  /\ pc[p] = "seeding" /\ writer = NoProcess
  /\ seeded' = [seeded EXCEPT ![p] = @ + 1]
  /\ users' = users \cup {Seed[seeded'[p]]}
  /\ pc' = [pc EXCEPT ![p] = IF seeded'[p] = Len(Seed) THEN "up" ELSE "seeding"]
  /\ UNCHANGED <<applied, scripts, programs, writer, known, version, catalog>>

-----------------------------------------------------------------------------
(* SimulationService.EnsureLibrary, under its lock.                        *)

LibraryIsEmpty == \A d \in DemoPrograms : programs[d] = 0

\* Mutated form: the demos are saved whatever the library holds.
EnsureSeeded_Always(p) ==
  /\ Goto(p, "up", "saving")
  /\ seeded' = [seeded EXCEPT ![p] = 0]
  /\ UNCHANGED <<file, writer, known, version, catalog>>

\* EnsureSeededAsync: one read decides, the saves follow.
EnsureSeeded(p) ==
  /\ Goto(p, "up", IF LibraryIsEmpty THEN "saving" ELSE "loading")
  /\ seeded' = [seeded EXCEPT ![p] = 0]
  /\ UNCHANGED <<file, writer, known, version, catalog>>

SaveDemo(p) ==
  /\ pc[p] = "saving" /\ writer = NoProcess
  /\ seeded' = [seeded EXCEPT ![p] = @ + 1]
  /\ programs' = [programs EXCEPT ![Demos[seeded'[p]]] = @ + 1]
  /\ pc' = [pc EXCEPT ![p] = IF seeded'[p] = Len(Demos) THEN "loading" ELSE "saving"]
  /\ UNCHANGED <<applied, scripts, users, writer, known, version, catalog>>

\* Mutated form: the list read before seeding is the one that is kept.
LoadCatalog_Stale(p) ==
  /\ Goto(p, "loading", "serving")
  /\ catalog' = [catalog EXCEPT ![p] = IF seeded[p] > 0 THEN {} ELSE {d \in DemoPrograms : programs[d] > 0}]
  /\ UNCHANGED <<file, writer, known, version, seeded>>

\* The rows are read again and kept for the life of the process.
LoadCatalog(p) ==
  /\ Goto(p, "loading", "serving")
  /\ catalog' = [catalog EXCEPT ![p] = {d \in DemoPrograms : programs[d] > 0}]
  /\ UNCHANGED <<file, writer, known, version, seeded>>

-----------------------------------------------------------------------------
\* Memory is lost, an open transaction is rolled back and its lock released.
Crash(p) ==
  /\ pc[p] # "down"
  /\ pc' = [pc EXCEPT ![p] = "down"]
  /\ known' = [known EXCEPT ![p] = {}]
  /\ version' = [version EXCEPT ![p] = 0]
  /\ seeded' = [seeded EXCEPT ![p] = 0]
  /\ catalog' = [catalog EXCEPT ![p] = {}]
  /\ writer' = IF writer = p THEN NoProcess ELSE writer
  /\ UNCHANGED file

\* What a process does when nothing fails from outside.
Step(p) ==
  \/ Start(p) \/ BeginMigration(p) \/ RunScript(p) \/ RecordVersion(p) \/ Commit(p)
  \/ Migrated(p) \/ SeedIfEmpty(p) \/ UpsertUser(p)
  \/ EnsureSeeded(p) \/ SaveDemo(p) \/ LoadCatalog(p)

Next == \E p \in Processes : Step(p) \/ BusyTimeout(p) \/ Crash(p)

Spec == Init /\ [][Next]_vars

\* A process runs, the system restarts one that failed, and BEGIN IMMEDIATE retries.
Fairness == \A p \in Processes : SF_vars(Step(p))

FairSpec == Spec /\ Fairness

-----------------------------------------------------------------------------
(* Properties.                                                             *)

Migrating == {"migrating", "script", "record", "commit"}
Migrated_ == {"users", "seeding", "up", "saving", "loading", "serving"}
InTransaction == {"script", "record", "commit"}

\* Every variable holds a value of its type, and the lock belongs to a transaction.
TypeOK ==
  /\ applied \subseteq Versions /\ scripts \in Seq(Versions)
  /\ users \subseteq Usernames /\ programs \in [DemoPrograms -> Nat]
  /\ writer \in Processes \cup {NoProcess}
  /\ pc \in [Processes -> {"down", "failed"} \cup Migrating \cup Migrated_]
  /\ known \in [Processes -> SUBSET Versions]
  /\ version \in [Processes -> 0..LatestVersion]
  /\ seeded \in [Processes -> Nat]
  /\ catalog \in [Processes -> SUBSET DemoPrograms]
  /\ \A p \in Processes : pc[p] \in InTransaction <=> writer = p

History == INSTANCE SchemaHistory WITH
  LatestVersion <- LatestVersion, applied <- applied, scripts <- scripts

\* SchemaMigrator implements SchemaHistory: each version runs once and in order, although
\* the applied versions are read outside the transactions that add to them.
SchemaIsVersioned == History!Spec

\* A process that goes past Migrate works on the latest schema.
ServesLatestSchema == \A p \in Processes : pc[p] \in Migrated_ => applied = Versions

\* The users that exist are the first ones of the seed: a later one never exists without
\* those before it, however many processes seed and wherever they die.
SeedIsPrefix ==
  \E n \in 0..Len(Seed) : users = {Seed[i] : i \in 1..n}

\* The library holds at most one copy of a demo for each process: restarts add none.
CopiesAreBounded == \A d \in DemoPrograms : programs[d] <= Cardinality(Processes)

\* BootstrapTankDemo always finds a program: the library a process keeps is never empty.
LibraryNotEmpty == \A p \in Processes : pc[p] = "serving" => catalog[p] # {}

\* If processes stop dying, each of them ends up serving, although a start may fail when
\* another process migrates at the same time.
EveryoneServes ==
  (\A p \in Processes : <>[](pc[p] # "down")) =>
    \A p \in Processes : <>[](pc[p] = "serving")
=============================================================================
