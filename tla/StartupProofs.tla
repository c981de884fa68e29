---------------------------- MODULE StartupProofs ----------------------------
(***************************************************************************)
(* Safety of Startup for any number of processes, versions, users and      *)
(* demos. What a process read before its loop may be out of date, so the   *)
(* invariant relates it to the file: everything it skipped is applied, and *)
(* what it is about to apply is the next version of the file.              *)
(***************************************************************************)
EXTENDS Startup, FiniteSetTheorems, TLAPS

\* The versions of the file are the first ones, one script each.
FileIsPrefix == applied = 1..Len(scripts) /\ Len(scripts) <= LatestVersion

\* What process p has skipped or applied is in the file; a version that is about to be
\* committed is not.
Handled(p) ==
  /\ known[p] \subseteq applied
  /\ pc[p] = "migrating" => 1..version[p] \subseteq applied
  /\ pc[p] \in InTransaction => version[p] \in Versions /\ 1..(version[p] - 1) \subseteq applied
  /\ pc[p] = "commit" => version[p] \notin applied
  /\ pc[p] \in Migrated_ => applied = Versions

\* A process that seeds knows how far it has come.
Counts(p) ==
  /\ pc[p] \in Migrating \cup {"users"} => seeded[p] = 0
  /\ pc[p] = "seeding" => seeded[p] < Len(Seed)
  /\ pc[p] = "saving" => seeded[p] < Len(Demos)

First(n) == {Seed[i] : i \in 1..n}

\* The users are a prefix of the seed, at least as long as any process has seeded.
UsersArePrefix ==
  \E n \in 0..Len(Seed) :
    users = First(n) /\ \A p \in Processes : pc[p] = "seeding" => seeded[p] <= n

\* Whoever loads the catalog finds a row.
LibraryIsFound ==
  \A p \in Processes :
    /\ pc[p] = "loading" => ~LibraryIsEmpty
    /\ pc[p] = "serving" => catalog[p] # {}

\* The processes that may still save demo i, which they do once each.
Savers(i) == {p \in Processes : pc[p] = "saving" /\ seeded[p] < i}

\* A copy uses up a saver, and nobody becomes one once there is a copy of anything.
CopiesAndSavers ==
  \A i \in 1..Len(Demos) :
    programs[Demos[i]] + Cardinality(Savers(i)) <= Cardinality(Processes)

IInv ==
  /\ TypeOK /\ FileIsPrefix /\ (\A p \in Processes : Handled(p) /\ Counts(p))
  /\ UsersArePrefix /\ LibraryIsFound /\ CopiesAndSavers

-----------------------------------------------------------------------------
(* The invariant holds initially and every step keeps each of its parts.   *)

\* No list of users or demos is empty, and its elements are of its set.
LEMMA Lists ==
  /\ Len(Seed) \in Nat \ {0} /\ DOMAIN Seed = 1..Len(Seed)
  /\ Len(Demos) \in Nat \ {0} /\ DOMAIN Demos = 1..Len(Demos)
  /\ \A i \in 1..Len(Seed) : Seed[i] \in Usernames
  /\ \A i \in 1..Len(Demos) : Demos[i] \in DemoPrograms
  <1>1. Seed \in Seq(Usernames) /\ Seed # <<>> /\ Demos \in Seq(DemoPrograms) /\ Demos # <<>>
    BY SeedAssumption, DemosAssumption
  <1>2. QED
    BY <1>1

\* An empty file, and no process on it, satisfy the invariant.
LEMMA InitHolds == Init => IInv
  <1> SUFFICES ASSUME Init PROVE IInv
    OBVIOUS
  <1>1. TypeOK
    BY ProcessAssumption, VersionAssumption DEF Init, TypeOK, Versions, Migrating, InTransaction
  <1>2. FileIsPrefix
    BY VersionAssumption DEF Init, FileIsPrefix
  <1>3. \A p \in Processes : Handled(p) /\ Counts(p)
    BY DEF Init, Handled, Counts, Migrating, InTransaction, Migrated_
  <1>4. UsersArePrefix
    <2>1. users = First(0) /\ 0 \in 0..Len(Seed)
      BY Lists DEF Init, First
    <2>2. QED
      BY <2>1 DEF Init, UsersArePrefix
  <1>5. LibraryIsFound
    BY DEF Init, LibraryIsFound
  <1>6. CopiesAndSavers
    <2>1. ASSUME NEW i \in 1..Len(Demos) PROVE programs[Demos[i]] = 0 /\ Savers(i) = {}
      BY Lists DEF Init, Savers
    <2>2. Cardinality({}) = 0 /\ Cardinality(Processes) \in Nat
      BY FS_EmptySet, FS_CardinalityType, ProcessAssumption
    <2>3. ASSUME NEW i \in 1..Len(Demos)
          PROVE  programs[Demos[i]] + Cardinality(Savers(i)) <= Cardinality(Processes)
      <3>1. programs[Demos[i]] = 0 /\ Cardinality(Savers(i)) = 0
        BY <2>1, <2>2
      <3>2. QED
        BY <2>2, <3>1
    <2>4. QED
      BY <2>3 DEF CopiesAndSavers
  <1>7. QED
    BY <1>1, <1>2, <1>3, <1>4, <1>5, <1>6 DEF IInv

\* Every statement, crash and timeout keeps the types, and with them the single writer.
LEMMA TypesStep ==
  ASSUME TypeOK, \A p \in Processes : Handled(p) /\ Counts(p), [Next]_vars
  PROVE  TypeOK'
  <1> USE VersionAssumption, ProcessAssumption
  <1>1. ASSUME NEW p \in Processes, Start(p) PROVE TypeOK'
    BY <1>1 DEF TypeOK, Start, file, Migrating, InTransaction
  <1>2. ASSUME NEW p \in Processes, BeginMigration(p) PROVE TypeOK'
    BY <1>2 DEF TypeOK, BeginMigration, Pending, Goto, file, Migrating, InTransaction, Versions
  <1>3. ASSUME NEW p \in Processes, RunScript(p) PROVE TypeOK'
    <2>1. CASE version[p] \in AddsColumns \cap applied
      <3>1. pc[p] \in InTransaction /\ writer' = NoProcess /\ pc' = [pc EXCEPT ![p] = "failed"]
        BY <1>3, <2>1 DEF RunScript, Rollback, InTransaction
      <3>2. \A q \in Processes : pc'[q] \in InTransaction <=> writer' = q
        BY <3>1 DEF TypeOK, InTransaction
      <3>3. QED
        BY <1>3, <3>1, <3>2 DEF TypeOK, RunScript, file, Migrating
    <2>2. CASE ~(version[p] \in AddsColumns \cap applied)
      <3>1. pc[p] \in InTransaction /\ writer' = writer /\ pc' = [pc EXCEPT ![p] = "record"]
        BY <1>3, <2>2 DEF RunScript, Goto, InTransaction
      <3>2. QED
        BY <1>3, <3>1 DEF TypeOK, RunScript, file, Migrating, InTransaction
    <2>3. QED
      BY <2>1, <2>2
  <1>4. ASSUME NEW p \in Processes, RecordVersion(p) PROVE TypeOK'
    <2>1. CASE version[p] \in applied
      <3>1. pc[p] \in InTransaction /\ writer' = NoProcess /\ pc' = [pc EXCEPT ![p] = "failed"]
        BY <1>4, <2>1 DEF RecordVersion, Rollback, InTransaction
      <3>2. \A q \in Processes : pc'[q] \in InTransaction <=> writer' = q
        BY <3>1 DEF TypeOK, InTransaction
      <3>3. QED
        BY <1>4, <3>1, <3>2 DEF TypeOK, RecordVersion, file, Migrating
    <2>2. CASE ~(version[p] \in applied)
      <3>1. pc[p] \in InTransaction /\ writer' = writer /\ pc' = [pc EXCEPT ![p] = "commit"]
        BY <1>4, <2>2 DEF RecordVersion, Goto, InTransaction
      <3>2. QED
        BY <1>4, <3>1 DEF TypeOK, RecordVersion, file, Migrating, InTransaction
    <2>3. QED
      BY <2>1, <2>2
  <1>5. ASSUME NEW p \in Processes, Commit(p) PROVE TypeOK'
    <2>1. version[p] \in Versions
      BY <1>5 DEF Commit, Goto, Handled, InTransaction
    <2>2. applied' \subseteq Versions /\ scripts' \in Seq(Versions)
      BY <1>5, <2>1 DEF TypeOK, Commit
    <2>3. QED
      BY <1>5, <2>2 DEF TypeOK, Commit, Goto, Migrating, InTransaction
  <1>6. ASSUME NEW p \in Processes, Migrated(p) PROVE TypeOK'
    BY <1>6 DEF TypeOK, Migrated, Goto, file, Migrating, Migrated_, InTransaction
  <1>7. ASSUME NEW p \in Processes, SeedIfEmpty(p) PROVE TypeOK'
    BY <1>7 DEF TypeOK, SeedIfEmpty, Goto, file, Migrating, Migrated_, InTransaction
  <1>8. ASSUME NEW p \in Processes, UpsertUser(p) PROVE TypeOK'
    <2>1. seeded'[p] = seeded[p] + 1 /\ seeded'[p] \in 1..Len(Seed)
      BY <1>8, Lists DEF TypeOK, UpsertUser, Counts
    <2>2. Seed[seeded'[p]] \in Usernames
      BY <2>1, Lists
    <2>3. users' \subseteq Usernames
      BY <1>8, <2>2 DEF TypeOK, UpsertUser
    <2>4. QED
      BY <1>8, <2>3 DEF TypeOK, UpsertUser, Migrating, Migrated_, InTransaction
  <1>9. ASSUME NEW p \in Processes, EnsureSeeded(p) PROVE TypeOK'
    BY <1>9 DEF TypeOK, EnsureSeeded, Goto, file, Migrating, Migrated_, InTransaction
  <1>10. ASSUME NEW p \in Processes, SaveDemo(p) PROVE TypeOK'
    <2>1. seeded'[p] = seeded[p] + 1 /\ seeded'[p] \in 1..Len(Demos)
      BY <1>10, Lists DEF TypeOK, SaveDemo, Counts
    <2>2. Demos[seeded'[p]] \in DemoPrograms
      BY <2>1, Lists
    <2>3. programs' \in [DemoPrograms -> Nat]
      BY <1>10, <2>2 DEF TypeOK, SaveDemo
    <2>4. QED
      BY <1>10, <2>3 DEF TypeOK, SaveDemo, Migrating, Migrated_, InTransaction
  <1>11. ASSUME NEW p \in Processes, LoadCatalog(p) PROVE TypeOK'
    BY <1>11 DEF TypeOK, LoadCatalog, Goto, file, Migrating, Migrated_, InTransaction
  <1>12. ASSUME NEW p \in Processes, BusyTimeout(p) PROVE TypeOK'
    BY <1>12 DEF TypeOK, BusyTimeout, Goto, file, Migrating, Migrated_, InTransaction
  <1>13. ASSUME NEW p \in Processes, Crash(p) PROVE TypeOK'
    BY <1>13 DEF TypeOK, Crash, file, Migrating, InTransaction
  <1>14. CASE UNCHANGED vars
    BY <1>14 DEF TypeOK, vars, file, process
  <1>15. QED
    BY <1>1, <1>2, <1>3, <1>4, <1>5, <1>6, <1>7, <1>8, <1>9, <1>10, <1>11, <1>12, <1>13, <1>14
    DEF Next, Step

\* Only a commit changes what is applied, and it appends the next version.
LEMMA AppliedStep ==
  ASSUME TypeOK, FileIsPrefix, \A p \in Processes : Handled(p), [Next]_vars
  PROVE  \/ UNCHANGED <<applied, scripts>>
         \/ /\ Len(scripts) < LatestVersion
            /\ scripts' = Append(scripts, Len(scripts) + 1)
            /\ applied' = applied \cup {Len(scripts) + 1}
  <1>1. ASSUME NEW p \in Processes, Commit(p)
        PROVE  /\ Len(scripts) < LatestVersion
               /\ scripts' = Append(scripts, Len(scripts) + 1)
               /\ applied' = applied \cup {Len(scripts) + 1}
    <2>1. /\ version[p] \in Versions /\ version[p] \notin applied
          /\ 1..(version[p] - 1) \subseteq applied
      BY <1>1 DEF Commit, Goto, Handled, InTransaction
    <2>2. Len(scripts) \in Nat /\ applied = 1..Len(scripts) /\ LatestVersion \in Nat
      BY VersionAssumption DEF TypeOK, FileIsPrefix
    <2>3. version[p] \in 1..LatestVersion
      BY <2>1 DEF Versions
    <2>4. version[p] > Len(scripts)
      BY <2>1, <2>2, <2>3
    <2>5. version[p] - 1 <= Len(scripts)
      BY <2>1, <2>2, <2>3
    <2>6. version[p] = Len(scripts) + 1
      BY <2>2, <2>3, <2>4, <2>5
    <2>7. QED
      BY <1>1, <2>2, <2>3, <2>6 DEF Commit
  <1>2. QED
    BY <1>1 DEF Next, Step, Start, BeginMigration, RunScript, RecordVersion, Migrated, SeedIfEmpty,
                UpsertUser, EnsureSeeded, SaveDemo, LoadCatalog, BusyTimeout, Crash, file, vars

\* A commit adds the version after the last one, and nothing else adds any.
LEMMA FileStep ==
  ASSUME TypeOK, FileIsPrefix, \A p \in Processes : Handled(p), [Next]_vars
  PROVE  FileIsPrefix'
  <1>1. CASE UNCHANGED <<applied, scripts>>
    BY <1>1 DEF FileIsPrefix
  <1>2. CASE /\ Len(scripts) < LatestVersion
             /\ scripts' = Append(scripts, Len(scripts) + 1)
             /\ applied' = applied \cup {Len(scripts) + 1}
    <2>1. Len(scripts) \in Nat /\ LatestVersion \in Nat
      BY VersionAssumption DEF TypeOK
    <2>2. Len(scripts') = Len(scripts) + 1
      BY <1>2 DEF TypeOK
    <2>3. QED
      BY <1>2, <2>1, <2>2 DEF FileIsPrefix
  <1>3. QED
    BY <1>1, <1>2, AppliedStep

\* What a process knows of the file stays true while others migrate it, since nobody
\* else commits while it holds the lock.
LEMMA HandledStep ==
  ASSUME TypeOK, TypeOK', FileIsPrefix, \A p \in Processes : Handled(p), [Next]_vars,
         NEW q \in Processes
  PROVE  Handled(q)'
  <1> USE VersionAssumption, ProcessAssumption
  <1>1. applied \subseteq applied' /\ applied' \subseteq Versions
    BY AppliedStep DEF TypeOK
  <1>2. pc[q] = "commit" /\ pc'[q] = "commit" => applied' = applied
    <2>1. ASSUME NEW p \in Processes, Commit(p), pc[q] = "commit", pc'[q] = "commit" PROVE FALSE
      BY <2>1 DEF TypeOK, Commit, Goto, InTransaction
    <2>2. QED
      BY <2>1 DEF Next, Step, Start, BeginMigration, RunScript, RecordVersion, Migrated, SeedIfEmpty,
                  UpsertUser, EnsureSeeded, SaveDemo, LoadCatalog, BusyTimeout, Crash, file, vars
  <1>3. CASE pc'[q] = pc[q] /\ known'[q] = known[q] /\ version'[q] = version[q]
    BY <1>1, <1>2, <1>3 DEF Handled
  <1>4. ASSUME Start(q) \/ Crash(q) PROVE Handled(q)'
    <2>1. version'[q] = 0 /\ known'[q] \subseteq applied' /\ pc'[q] \in {"down", "migrating"}
      BY <1>1, <1>4 DEF Start, Crash, TypeOK, file
    <2>2. QED
      BY <2>1 DEF Handled, InTransaction, Migrated_
  <1>5. ASSUME BeginMigration(q) PROVE Handled(q)'
    <2>1. PICK v \in Pending(q) : (\A w \in Pending(q) : v <= w) /\ version' = [version EXCEPT ![q] = v]
      BY <1>5 DEF BeginMigration
    <2>2. v \in Versions /\ version'[q] = v /\ pc'[q] = "script" /\ known' = known /\ applied' = applied
      BY <1>5, <2>1 DEF BeginMigration, Goto, Pending, TypeOK, file
    <2>3. known[q] \subseteq applied /\ 1..version[q] \subseteq applied /\ version[q] \in Nat
      BY <1>5 DEF BeginMigration, Goto, Handled, TypeOK
    <2>4. ASSUME NEW w \in 1..(v - 1) PROVE w \in applied
      <3>1. w \in Versions /\ ~(v <= w)
        BY <2>2, <2>4 DEF Versions
      <3>2. w \notin Pending(q)
        BY <2>1, <3>1
      <3>3. CASE w \in known[q]
        BY <2>3, <3>3
      <3>4. CASE ~(w > version[q])
        BY <2>3, <3>1, <3>4 DEF Versions
      <3>5. QED
        BY <3>1, <3>2, <3>3, <3>4 DEF Pending
    <2>5. QED
      BY <2>2, <2>3, <2>4 DEF Handled, InTransaction, Migrated_
  <1>6. ASSUME RunScript(q) PROVE Handled(q)'
    <2>1. /\ pc[q] = "script" /\ pc'[q] \in {"failed", "record"}
          /\ known' = known /\ version' = version /\ applied' = applied
      BY <1>6 DEF RunScript, Rollback, Goto, TypeOK, file
    <2>2. QED
      BY <2>1 DEF Handled, InTransaction, Migrated_
  <1>7. ASSUME RecordVersion(q) PROVE Handled(q)'
    <2>1. pc[q] = "record" /\ known' = known /\ version' = version /\ applied' = applied
      BY <1>7 DEF RecordVersion, file
    <2>2. CASE version[q] \in applied
      <3>1. pc'[q] = "failed"
        BY <1>7, <2>2 DEF RecordVersion, Rollback, TypeOK
      <3>2. QED
        BY <2>1, <3>1 DEF Handled, InTransaction, Migrated_
    <2>3. CASE version[q] \notin applied
      <3>1. pc'[q] = "commit"
        BY <1>7, <2>3 DEF RecordVersion, Rollback, Goto, TypeOK
      <3>2. QED
        BY <2>1, <2>3, <3>1 DEF Handled, InTransaction, Migrated_
    <2>4. QED
      BY <2>2, <2>3
  <1>8. ASSUME Commit(q) PROVE Handled(q)'
    <2>1. /\ pc'[q] = "migrating" /\ known' = known /\ version' = version
          /\ applied' = applied \cup {version[q]}
      BY <1>8 DEF Commit, Goto, TypeOK
    <2>2. version[q] \in Nat /\ 1..(version[q] - 1) \subseteq applied /\ known[q] \subseteq applied
      BY <1>8 DEF Commit, Goto, Handled, InTransaction, TypeOK
    <2>3. 1..version[q] \subseteq applied'
      BY <2>1, <2>2
    <2>4. QED
      BY <2>1, <2>2, <2>3 DEF Handled, InTransaction, Migrated_
  <1>9. ASSUME Migrated(q) PROVE Handled(q)'
    <2>1. /\ pc'[q] = "users" /\ known' = known /\ version' = version /\ applied' = applied
          /\ known[q] \subseteq applied /\ 1..version[q] \subseteq applied /\ version[q] \in Nat
      BY <1>9 DEF Migrated, Goto, Handled, TypeOK, file
    <2>2. ASSUME NEW v \in Versions PROVE v \in applied
      <3>1. v \notin Pending(q)
        BY <1>9 DEF Migrated
      <3>2. CASE v \in known[q]
        BY <2>1, <3>2
      <3>3. CASE ~(v > version[q])
        BY <2>1, <3>3 DEF Versions
      <3>4. QED
        BY <3>1, <3>2, <3>3 DEF Pending
    <2>3. QED
      BY <1>1, <2>1, <2>2 DEF Handled, InTransaction
  <1>10. ASSUME SeedIfEmpty(q) \/ UpsertUser(q) \/ EnsureSeeded(q) \/ SaveDemo(q) \/ LoadCatalog(q)
         PROVE  Handled(q)'
    <2>1. /\ pc[q] \in Migrated_ /\ pc'[q] \in Migrated_
          /\ known' = known /\ version' = version /\ applied' = applied
      BY <1>10 DEF SeedIfEmpty, UpsertUser, EnsureSeeded, SaveDemo, LoadCatalog, Goto, TypeOK, file, Migrated_
    <2>2. QED
      BY <2>1 DEF Handled, InTransaction, Migrated_
  <1>11. ASSUME BusyTimeout(q) PROVE Handled(q)'
    <2>1. /\ pc'[q] = "failed" \/ (pc'[q] = "up" /\ pc[q] \in Migrated_)
          /\ known' = known /\ version' = version /\ applied' = applied
      BY <1>11 DEF BusyTimeout, Goto, TypeOK, file, Migrated_
    <2>2. QED
      BY <1>1, <2>1 DEF Handled, InTransaction, Migrated_
  <1>12. ASSUME NEW p \in Processes \ {q}, Step(p) \/ BusyTimeout(p) \/ Crash(p)
         PROVE  pc'[q] = pc[q] /\ known'[q] = known[q] /\ version'[q] = version[q]
    <2>1. ASSUME Start(p) \/ BeginMigration(p) \/ RunScript(p) \/ RecordVersion(p) \/ Commit(p)
          PROVE  pc'[q] = pc[q] /\ known'[q] = known[q] /\ version'[q] = version[q]
      BY <2>1 DEF Start, BeginMigration, RunScript, RecordVersion, Commit, Rollback, Goto, TypeOK
    <2>2. ASSUME \/ Migrated(p) \/ SeedIfEmpty(p) \/ UpsertUser(p) \/ EnsureSeeded(p)
                 \/ SaveDemo(p) \/ LoadCatalog(p) \/ BusyTimeout(p) \/ Crash(p)
          PROVE  pc'[q] = pc[q] /\ known'[q] = known[q] /\ version'[q] = version[q]
      BY <2>2 DEF Migrated, SeedIfEmpty, UpsertUser, EnsureSeeded, SaveDemo, LoadCatalog, BusyTimeout,
                  Crash, Goto, TypeOK
    <2>3. QED
      BY <1>12, <2>1, <2>2 DEF Step
  <1>13. CASE UNCHANGED vars
    BY <1>3, <1>13 DEF vars, process
  <1>14. CASE Step(q) \/ BusyTimeout(q) \/ Crash(q)
    BY <1>4, <1>5, <1>6, <1>7, <1>8, <1>9, <1>10, <1>11, <1>14 DEF Step
  <1>15. QED
    BY <1>3, <1>12, <1>13, <1>14 DEF Next

\* A process that seeds or saves has come to one of the users or demos there are.
LEMMA CountsStep ==
  ASSUME TypeOK, \A p \in Processes : Counts(p), [Next]_vars, NEW q \in Processes
  PROVE  Counts(q)'
  <1>1. CASE pc'[q] = pc[q] /\ seeded'[q] = seeded[q]
    BY <1>1 DEF Counts
  <1>2. ASSUME Start(q) \/ Crash(q) \/ BusyTimeout(q) PROVE Counts(q)'
    <2>1. CASE Start(q)
      BY <2>1 DEF Start, Counts, Migrating, TypeOK
    <2>2. CASE Crash(q) \/ BusyTimeout(q)
      BY <2>2 DEF Crash, BusyTimeout, Goto, Counts, Migrating, TypeOK
    <2>3. QED
      BY <1>2, <2>1, <2>2
  <1>3. ASSUME \/ BeginMigration(q) \/ RunScript(q) \/ RecordVersion(q) \/ Commit(q) \/ Migrated(q)
        PROVE  Counts(q)'
    <2>1. /\ pc[q] \in Migrating /\ seeded' = seeded
          /\ pc'[q] \in Migrating \cup {"users", "failed"}
      BY <1>3 DEF BeginMigration, RunScript, RecordVersion, Commit, Migrated, Rollback, Goto, TypeOK, Migrating
    <2>2. QED
      BY <2>1 DEF Counts, Migrating
  <1>4. ASSUME SeedIfEmpty(q) \/ EnsureSeeded(q) \/ LoadCatalog(q) PROVE Counts(q)'
    <2>1. \/ pc'[q] \in {"up", "loading", "serving"}
          \/ pc[q] = "users" /\ pc'[q] = "seeding" /\ seeded' = seeded
          \/ pc'[q] = "saving" /\ seeded'[q] = 0
      BY <1>4 DEF SeedIfEmpty, EnsureSeeded, LoadCatalog, Goto, TypeOK
    <2>2. QED
      BY <2>1, Lists DEF Counts, Migrating
  <1>5. ASSUME UpsertUser(q) PROVE Counts(q)'
    <2>1. seeded[q] < Len(Seed) /\ seeded[q] \in Nat /\ seeded'[q] = seeded[q] + 1
      BY <1>5 DEF UpsertUser, Counts, TypeOK
    <2>2. pc'[q] = IF seeded'[q] = Len(Seed) THEN "up" ELSE "seeding"
      BY <1>5 DEF UpsertUser, TypeOK
    <2>3. QED
      BY <2>1, <2>2, Lists DEF Counts, Migrating
  <1>6. ASSUME SaveDemo(q) PROVE Counts(q)'
    <2>1. seeded[q] < Len(Demos) /\ seeded[q] \in Nat /\ seeded'[q] = seeded[q] + 1
      BY <1>6 DEF SaveDemo, Counts, TypeOK
    <2>2. pc'[q] = IF seeded'[q] = Len(Demos) THEN "loading" ELSE "saving"
      BY <1>6 DEF SaveDemo, TypeOK
    <2>3. QED
      BY <2>1, <2>2, Lists DEF Counts, Migrating
  <1>7. ASSUME NEW p \in Processes \ {q}, Step(p) \/ BusyTimeout(p) \/ Crash(p)
        PROVE  pc'[q] = pc[q] /\ seeded'[q] = seeded[q]
    <2>1. ASSUME Start(p) \/ BeginMigration(p) \/ RunScript(p) \/ RecordVersion(p) \/ Commit(p)
          PROVE  pc'[q] = pc[q] /\ seeded'[q] = seeded[q]
      BY <2>1 DEF Start, BeginMigration, RunScript, RecordVersion, Commit, Rollback, Goto, TypeOK
    <2>2. ASSUME \/ Migrated(p) \/ SeedIfEmpty(p) \/ UpsertUser(p) \/ EnsureSeeded(p)
                 \/ SaveDemo(p) \/ LoadCatalog(p) \/ BusyTimeout(p) \/ Crash(p)
          PROVE  pc'[q] = pc[q] /\ seeded'[q] = seeded[q]
      BY <2>2 DEF Migrated, SeedIfEmpty, UpsertUser, EnsureSeeded, SaveDemo, LoadCatalog, BusyTimeout,
                  Crash, Goto, TypeOK
    <2>3. QED
      BY <1>7, <2>1, <2>2 DEF Step
  <1>8. CASE UNCHANGED vars
    BY <1>1, <1>8 DEF vars, process
  <1>9. CASE Step(q) \/ BusyTimeout(q) \/ Crash(q)
    BY <1>2, <1>3, <1>4, <1>5, <1>6, <1>9 DEF Step
  <1>10. QED
    BY <1>1, <1>7, <1>8, <1>9 DEF Next

\* A process that seeds adds the next user, or one that is already there.
LEMMA UsersStep ==
  ASSUME TypeOK, \A p \in Processes : Counts(p), UsersArePrefix, [Next]_vars
  PROVE  UsersArePrefix'
  <1>1. PICK n \in 0..Len(Seed) :
          users = First(n) /\ \A p \in Processes : pc[p] = "seeding" => seeded[p] <= n
    BY DEF UsersArePrefix
  <1>2. ASSUME NEW p \in Processes, UpsertUser(p) PROVE UsersArePrefix'
    <2>1. /\ seeded[p] <= n /\ seeded[p] \in Nat /\ seeded[p] < Len(Seed)
          /\ seeded'[p] = seeded[p] + 1 /\ users' = users \cup {Seed[seeded[p] + 1]}
      BY <1>1, <1>2 DEF UpsertUser, Counts, TypeOK
    <2>2. \A q \in Processes \ {p} : pc'[q] = pc[q] /\ seeded'[q] = seeded[q] /\ seeded[q] \in Nat
      BY <1>2 DEF UpsertUser, TypeOK
    <2>3. CASE seeded[p] < n
      <3>1. seeded[p] + 1 \in 1..n
        BY <2>1, <2>3
      <3>2. users' = First(n)
        BY <1>1, <2>1, <3>1 DEF First
      <3>3. \A q \in Processes : pc'[q] = "seeding" => seeded'[q] <= n
        BY <1>1, <2>1, <2>2, <2>3
      <3>4. QED
        BY <3>2, <3>3 DEF UsersArePrefix
    <2>4. CASE seeded[p] = n
      <3>1. n + 1 \in 0..Len(Seed) /\ 1..(n + 1) = (1..n) \cup {n + 1}
        BY <2>1, <2>4, Lists
      <3>2. users' = First(n + 1)
        BY <1>1, <2>1, <2>4, <3>1 DEF First
      <3>3. \A q \in Processes : pc'[q] = "seeding" => seeded'[q] <= n + 1
        BY <1>1, <2>1, <2>2, <2>4
      <3>4. QED
        BY <3>1, <3>2, <3>3 DEF UsersArePrefix
    <2>5. QED
      BY <2>1, <2>3, <2>4
  <1>3. ASSUME users' = users, \A q \in Processes : pc'[q] = "seeding" => seeded'[q] <= n
        PROVE  UsersArePrefix'
    BY <1>1, <1>3 DEF UsersArePrefix
  <1>4. ASSUME NEW p \in Processes, SeedIfEmpty(p) PROVE UsersArePrefix'
    <2>1. users' = users /\ seeded' = seeded /\ seeded[p] = 0
      BY <1>4 DEF SeedIfEmpty, Goto, Counts, file
    <2>2. \A q \in Processes \ {p} : pc'[q] = pc[q]
      BY <1>4 DEF SeedIfEmpty, Goto, TypeOK
    <2>3. QED
      BY <1>1, <1>3, <2>1, <2>2
  <1>5. ASSUME NEW p \in Processes,
               \/ Start(p) \/ BeginMigration(p) \/ RunScript(p) \/ RecordVersion(p) \/ Commit(p)
               \/ Migrated(p) \/ BusyTimeout(p)
        PROVE  UsersArePrefix'
    <2>1. users' = users /\ pc'[p] # "seeding"
      BY <1>5 DEF Start, BeginMigration, RunScript, RecordVersion, Commit, Migrated, BusyTimeout, Rollback, Goto,
                  TypeOK, file
    <2>2. \A q \in Processes \ {p} : pc'[q] = pc[q] /\ seeded'[q] = seeded[q]
      BY <1>5 DEF Start, BeginMigration, RunScript, RecordVersion, Commit, Migrated, BusyTimeout, Rollback, Goto,
                  TypeOK
    <2>3. QED
      BY <1>1, <1>3, <2>1, <2>2
  <1>6. ASSUME NEW p \in Processes, EnsureSeeded(p) \/ SaveDemo(p) \/ LoadCatalog(p) \/ Crash(p)
        PROVE  UsersArePrefix'
    <2>1. users' = users /\ pc'[p] # "seeding"
      BY <1>6 DEF EnsureSeeded, SaveDemo, LoadCatalog, Crash, Goto, TypeOK, file
    <2>2. \A q \in Processes \ {p} : pc'[q] = pc[q] /\ seeded'[q] = seeded[q]
      BY <1>6 DEF EnsureSeeded, SaveDemo, LoadCatalog, Crash, Goto, TypeOK
    <2>3. QED
      BY <1>1, <1>3, <2>1, <2>2
  <1>7. CASE UNCHANGED vars
    BY <1>1, <1>3, <1>7 DEF vars, file, process
  <1>8. QED
    BY <1>2, <1>4, <1>5, <1>6, <1>7 DEF Next, Step

\* Rows are never removed: a library that was not empty stays so.
LEMMA LibraryStep ==
  ASSUME TypeOK, \A p \in Processes : Counts(p), LibraryIsFound, [Next]_vars
  PROVE  LibraryIsFound'
  <1>1. ASSUME NEW p \in Processes, SaveDemo(p) PROVE ~LibraryIsEmpty'
    <2>1. seeded'[p] = seeded[p] + 1 /\ seeded'[p] \in 1..Len(Demos)
      BY <1>1, Lists DEF TypeOK, SaveDemo, Counts
    <2>2. Demos[seeded'[p]] \in DemoPrograms
      BY <2>1, Lists
    <2>3. programs'[Demos[seeded'[p]]] # 0
      BY <1>1, <2>2 DEF TypeOK, SaveDemo
    <2>4. QED
      BY <2>2, <2>3 DEF LibraryIsEmpty
  <1>2. ~LibraryIsEmpty => ~LibraryIsEmpty'
    BY <1>1 DEF Next, Step, Start, BeginMigration, RunScript, RecordVersion, Commit, Migrated, SeedIfEmpty,
                UpsertUser, EnsureSeeded, LoadCatalog, BusyTimeout, Crash, LibraryIsEmpty, file, vars
  <1>3. SUFFICES ASSUME NEW q \in Processes
                 PROVE  /\ pc'[q] = "loading" => ~LibraryIsEmpty'
                        /\ pc'[q] = "serving" => catalog'[q] # {}
    BY DEF LibraryIsFound
  <1>4. CASE pc'[q] = pc[q] /\ catalog'[q] = catalog[q]
    BY <1>2, <1>4 DEF LibraryIsFound
  <1>5. CASE pc'[q] \notin {"loading", "serving"}
    BY <1>5
  <1>6. CASE EnsureSeeded(q)
    BY <1>2, <1>6 DEF EnsureSeeded, Goto, TypeOK
  <1>7. CASE SaveDemo(q)
    BY <1>1, <1>7 DEF SaveDemo, TypeOK
  <1>8. CASE LoadCatalog(q)
    <2>1. pc[q] = "loading" /\ pc'[q] = "serving" /\ catalog'[q] = {d \in DemoPrograms : programs[d] > 0}
      BY <1>8 DEF LoadCatalog, Goto, TypeOK
    <2>2. PICK d \in DemoPrograms : programs[d] # 0
      BY <2>1 DEF LibraryIsFound, LibraryIsEmpty
    <2>3. programs[d] > 0
      BY <2>2 DEF TypeOK
    <2>4. QED
      BY <2>1, <2>3
  <1>9. CASE \/ Start(q) \/ BeginMigration(q) \/ RunScript(q) \/ RecordVersion(q) \/ Commit(q)
             \/ Migrated(q) \/ SeedIfEmpty(q) \/ UpsertUser(q) \/ BusyTimeout(q) \/ Crash(q)
    BY <1>5, <1>9 DEF Start, BeginMigration, RunScript, RecordVersion, Commit, Migrated, SeedIfEmpty,
                UpsertUser, BusyTimeout, Crash, Rollback, Goto, TypeOK
  <1>10. ASSUME NEW p \in Processes \ {q}, Step(p) \/ BusyTimeout(p) \/ Crash(p)
         PROVE  pc'[q] = pc[q] /\ catalog'[q] = catalog[q]
    <2>1. ASSUME Start(p) \/ BeginMigration(p) \/ RunScript(p) \/ RecordVersion(p) \/ Commit(p)
          PROVE  pc'[q] = pc[q] /\ catalog'[q] = catalog[q]
      BY <2>1 DEF Start, BeginMigration, RunScript, RecordVersion, Commit, Rollback, Goto, TypeOK
    <2>2. ASSUME \/ Migrated(p) \/ SeedIfEmpty(p) \/ UpsertUser(p) \/ EnsureSeeded(p)
                 \/ SaveDemo(p) \/ LoadCatalog(p) \/ BusyTimeout(p) \/ Crash(p)
          PROVE  pc'[q] = pc[q] /\ catalog'[q] = catalog[q]
      BY <2>2 DEF Migrated, SeedIfEmpty, UpsertUser, EnsureSeeded, SaveDemo, LoadCatalog, BusyTimeout,
                  Crash, Goto, TypeOK
    <2>3. QED
      BY <1>10, <2>1, <2>2 DEF Step
  <1>11. CASE UNCHANGED vars
    BY <1>4, <1>11 DEF vars, process
  <1>12. QED
    BY <1>4, <1>6, <1>7, <1>8, <1>9, <1>10, <1>11 DEF Next, Step

\* The processes about to save a demo can be counted.
LEMMA SaversAreFinite ==
  ASSUME NEW i
  PROVE  /\ IsFiniteSet(Savers(i)) /\ Cardinality(Savers(i)) \in Nat
         /\ Cardinality(Processes) \in Nat /\ Cardinality(Savers(i)) <= Cardinality(Processes)
  <1>1. Savers(i) \subseteq Processes
    BY DEF Savers
  <1>2. QED
    BY <1>1, ProcessAssumption, FS_Subset, FS_CardinalityType

\* Nothing but a save, or the first look at an empty library, disturbs the count.
LEMMA CopiesStep ==
  ASSUME TypeOK, TypeOK', \A p \in Processes : Counts(p), CopiesAndSavers, [Next]_vars
  PROVE  CopiesAndSavers'
  <1> SUFFICES ASSUME NEW i \in 1..Len(Demos)
               PROVE  programs'[Demos[i]] + Cardinality(Savers(i)') <= Cardinality(Processes)
    BY DEF CopiesAndSavers
  <1> DEFINE d == Demos[i]
  <1>1. /\ d \in DemoPrograms /\ programs[d] \in Nat
        /\ programs[d] + Cardinality(Savers(i)) <= Cardinality(Processes)
    BY Lists DEF TypeOK, CopiesAndSavers
  <1>2. Cardinality(Savers(i)) \in Nat /\ Cardinality(Processes) \in Nat
    BY SaversAreFinite
  <1>3. /\ Savers(i)' \subseteq Processes
        /\ Cardinality(Savers(i)') \in Nat /\ Cardinality(Savers(i)') <= Cardinality(Processes)
    <2>1. Savers(i)' \subseteq Processes
      BY DEF Savers
    <2>2. QED
      BY <2>1, ProcessAssumption, FS_Subset, FS_CardinalityType
  <1>4. ASSUME programs'[d] = programs[d], Savers(i)' \subseteq Savers(i)
        PROVE  programs'[d] + Cardinality(Savers(i)') <= Cardinality(Processes)
    <2>1. Cardinality(Savers(i)') <= Cardinality(Savers(i))
      BY <1>4, SaversAreFinite, FS_Subset
    <2>2. QED
      BY <1>1, <1>2, <1>3, <1>4, <2>1
  <1>5. ASSUME NEW p \in Processes, SaveDemo(p)
        PROVE  programs'[d] + Cardinality(Savers(i)') <= Cardinality(Processes)
    <2>1. /\ pc[p] = "saving" /\ seeded[p] \in Nat /\ seeded[p] < Len(Demos)
          /\ seeded'[p] = seeded[p] + 1
          /\ \A q \in Processes \ {p} : pc'[q] = pc[q] /\ seeded'[q] = seeded[q]
      BY <1>5 DEF SaveDemo, Counts, TypeOK
    <2>2. programs' = [programs EXCEPT ![Demos[seeded[p] + 1]] = @ + 1]
      BY <1>5, <2>1 DEF SaveDemo
    <2>3. CASE seeded[p] + 1 = i
      <3>1. programs'[d] = programs[d] + 1
        BY <1>1, <2>2, <2>3 DEF TypeOK
      <3>2. Savers(i)' \subseteq Savers(i) \ {p}
        BY <2>1, <2>3 DEF Savers
      <3>3. p \in Savers(i)
        BY <2>1, <2>3 DEF Savers
      <3>4. IsFiniteSet(Savers(i) \ {p}) /\ Cardinality(Savers(i) \ {p}) = Cardinality(Savers(i)) - 1
        BY <3>3, SaversAreFinite, FS_RemoveElement
      <3>5. Cardinality(Savers(i)') <= Cardinality(Savers(i)) - 1
        BY <3>2, <3>4, FS_Subset
      <3>6. QED
        BY <1>1, <1>2, <1>3, <3>1, <3>5
    <2>4. CASE seeded[p] + 1 # i
      <3>1. Demos[seeded[p] + 1] # d
        <4>1. seeded[p] + 1 \in DOMAIN Demos /\ i \in DOMAIN Demos
          BY <2>1, Lists
        <4>2. QED
          BY <2>4, <4>1, DemosAssumption
      <3>2. programs'[d] = programs[d]
        BY <1>1, <2>2, <3>1 DEF TypeOK
      <3>3. Savers(i)' \subseteq Savers(i)
        <4>1. seeded'[p] < i => seeded[p] < i
          BY <2>1
        <4>2. QED
          BY <2>1, <4>1 DEF Savers
      <3>4. QED
        BY <1>4, <3>2, <3>3
    <2>5. QED
      BY <2>3, <2>4
  <1>6. ASSUME NEW p \in Processes, EnsureSeeded(p)
        PROVE  programs'[d] + Cardinality(Savers(i)') <= Cardinality(Processes)
    <2>1. programs' = programs /\ \A q \in Processes \ {p} : pc'[q] = pc[q] /\ seeded'[q] = seeded[q]
      BY <1>6 DEF EnsureSeeded, Goto, TypeOK, file
    <2>2. CASE LibraryIsEmpty
      <3>1. programs'[d] = 0
        BY <1>1, <2>1, <2>2 DEF LibraryIsEmpty
      <3>2. QED
        BY <1>2, <1>3, <3>1
    <2>3. CASE ~LibraryIsEmpty
      <3>1. pc'[p] = "loading"
        BY <1>6, <2>3 DEF EnsureSeeded, Goto, TypeOK
      <3>2. Savers(i)' \subseteq Savers(i)
        BY <2>1, <3>1 DEF Savers
      <3>3. QED
        BY <1>4, <2>1, <3>2
    <2>4. QED
      BY <2>2, <2>3
  <1>7. ASSUME programs' = programs, NEW p \in Processes, pc'[p] # "saving",
               \A q \in Processes \ {p} : pc'[q] = pc[q] /\ seeded'[q] = seeded[q]
        PROVE  programs'[d] + Cardinality(Savers(i)') <= Cardinality(Processes)
    <2>1. Savers(i)' \subseteq Savers(i)
      BY <1>7 DEF Savers
    <2>2. QED
      BY <1>4, <1>7, <2>1
  <1>8. ASSUME NEW p \in Processes, Start(p) \/ BeginMigration(p) \/ RunScript(p) \/ RecordVersion(p) \/ Commit(p)
        PROVE  programs'[d] + Cardinality(Savers(i)') <= Cardinality(Processes)
    <2>1. /\ programs' = programs /\ pc'[p] # "saving"
          /\ \A q \in Processes \ {p} : pc'[q] = pc[q] /\ seeded'[q] = seeded[q]
      BY <1>8 DEF Start, BeginMigration, RunScript, RecordVersion, Commit, Rollback, Goto, TypeOK, file
    <2>2. QED
      BY <1>7, <2>1
  <1>9. ASSUME NEW p \in Processes,
               \/ Migrated(p) \/ SeedIfEmpty(p) \/ UpsertUser(p) \/ LoadCatalog(p) \/ BusyTimeout(p) \/ Crash(p)
        PROVE  programs'[d] + Cardinality(Savers(i)') <= Cardinality(Processes)
    <2>1. /\ programs' = programs /\ pc'[p] # "saving"
          /\ \A q \in Processes \ {p} : pc'[q] = pc[q] /\ seeded'[q] = seeded[q]
      BY <1>9 DEF Migrated, SeedIfEmpty, UpsertUser, LoadCatalog, BusyTimeout, Crash, Goto, TypeOK, file
    <2>2. QED
      BY <1>7, <2>1
  <1>10. CASE UNCHANGED vars
    <2>1. programs' = programs /\ Savers(i)' \subseteq Savers(i)
      BY <1>10 DEF vars, file, process, Savers
    <2>2. QED
      BY <1>4, <2>1
  <1>11. QED
    BY <1>5, <1>6, <1>8, <1>9, <1>10 DEF Next, Step

-----------------------------------------------------------------------------
(* The theorems.                                                           *)

\* IInv is an invariant: whatever order the processes start, migrate, seed and die in.
THEOREM Invariance == Spec => []IInv
  <1>1. Init => IInv
    BY InitHolds
  <1>2. IInv /\ [Next]_vars => IInv'
    <2> SUFFICES ASSUME IInv, [Next]_vars PROVE IInv'
      OBVIOUS
    <2>1. TypeOK'
      BY TypesStep DEF IInv
    <2>2. FileIsPrefix'
      BY FileStep DEF IInv
    <2>3. \A p \in Processes : Handled(p)' /\ Counts(p)'
      BY <2>1, HandledStep, CountsStep DEF IInv
    <2>4. UsersArePrefix' /\ LibraryIsFound' /\ CopiesAndSavers'
      BY <2>1, UsersStep, LibraryStep, CopiesStep DEF IInv
    <2>5. QED
      BY <2>1, <2>2, <2>3, <2>4 DEF IInv
  <1>3. QED
    BY <1>1, <1>2, PTL DEF Spec

\* Every variable of the start-up keeps to its type.
THEOREM TypesHold == Spec => []TypeOK
  BY Invariance, PTL DEF IInv

\* Whatever part of the migration a process has seen, it seeds and serves on the latest
\* schema.
THEOREM LatestSchema == Spec => []ServesLatestSchema
  <1>1. IInv => ServesLatestSchema
    BY DEF IInv, Handled, ServesLatestSchema
  <1>2. QED
    BY <1>1, Invariance, PTL

\* The users are a prefix of the configured seed, for any number of processes that seed.
THEOREM PrefixOfSeed == Spec => []SeedIsPrefix
  <1>1. IInv => SeedIsPrefix
    BY DEF IInv, UsersArePrefix, First, SeedIsPrefix
  <1>2. QED
    BY <1>1, Invariance, PTL

\* A process never serves an empty library.
THEOREM LibraryIsServed == Spec => []LibraryNotEmpty
  <1>1. IInv => LibraryNotEmpty
    BY DEF IInv, LibraryIsFound, LibraryNotEmpty
  <1>2. QED
    BY <1>1, Invariance, PTL

\* Processes that find the library empty at the same time copy a demo at most once each,
\* however often they die and start again.
THEOREM Copies == Spec => []CopiesAreBounded
  <1>1. IInv => CopiesAreBounded
    <2> SUFFICES ASSUME IInv, NEW d \in DemoPrograms PROVE programs[d] <= Cardinality(Processes)
      BY DEF CopiesAreBounded
    <2>1. PICK i \in 1..Len(Demos) : d = Demos[i]
      BY Lists DEF DemoPrograms
    <2>2. programs[d] + Cardinality(Savers(i)) <= Cardinality(Processes) /\ programs[d] \in Nat
      BY <2>1 DEF IInv, CopiesAndSavers, TypeOK
    <2>3. QED
      BY <2>2, SaversAreFinite
  <1>2. QED
    BY <1>1, Invariance, PTL

\* Start-up implements the history of the schema: every step is the next migration, whole
\* and in order, or changes neither what is recorded nor what took effect.
THEOREM Refinement == Spec => SchemaIsVersioned
  <1>1. Init => History!Init
    BY DEF Init, History!Init
  <1>2. IInv /\ [Next]_vars => [History!Apply]_<<applied, scripts>>
    BY AppliedStep DEF IInv, History!Apply
  <1>3. QED
    BY <1>1, <1>2, Invariance, PTL DEF Spec, SchemaIsVersioned, History!Spec
=============================================================================
