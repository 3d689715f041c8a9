---------------------------- MODULE ArchivesProofs ----------------------------
(* Theorems about the archives of Backups: their names, that they stay, and that *)
(* they are snapshots (ArchiveStore), for every value of the constants.          *)
EXTENDS BackupsProofs, FiniteSetTheorems, WellFoundedInduction

-----------------------------------------------------------------------------
(* The inductive invariant of the archives' names *)

Taken == {n \in ArchiveName : archives[n] # Absent}
AtLock == {b \in Backup : On(b, "waiting")}

\* A backup that waits for the lock will still find a name that is free.
NamesSuffice ==
  /\ IsFiniteSet(AtLock)
  /\ Cardinality(Taken) + Cardinality(AtLock) <= started

\* Running backups are no older than the retention time.
Recent ==
  \A b \in Backup : ~On(b, "idle") =>
    backup[b].stamp <= clock /\ clock <= backup[b].stamp + Retention

\* A reserved name has an empty file, which is not due to be pruned.
NamesReserved ==
  \A b \in Named :
    /\ archives[backup[b].name] # Absent
    /\ ~archives[backup[b].name].verified
    /\ archives[backup[b].name].mtime >= backup[b].stamp

NamesDiffer == \A b, c \in Named : b # c => backup[b].name # backup[c].name

EmptiesAreOwned ==
  \A n \in ArchiveName :
    archives[n] # Absent /\ ~archives[n].verified =>
      n \in abandoned \/ \E b \in Named : backup[b].name = n

NamesInv ==
  /\ BackupTypeOK /\ NamesSuffice /\ Recent
  /\ NamesReserved /\ NamesDiffer /\ EmptiesAreOwned

-----------------------------------------------------------------------------
(* Names *)

LEMMA SmallestExists ==
  ASSUME NEW S, S \subseteq Int, S # {}, IsFiniteSet(S)
  PROVE  \E m \in S : \A n \in S : m <= n
  <1> DEFINE Below(m) == {n \in S : n < m}
             T == {Below(m) : m \in S}
             R == StrictSubsetOrdering(S)
  <1>1. IsWellFoundedOn(R, FiniteSubsetsOf(S))
    BY FS_StrictSubsetOrderingWellFounded
  <1>2. T \subseteq FiniteSubsetsOf(S)
    BY FS_Subset, Zenon DEF FiniteSubsetsOf
  <1>3. T # {}
    OBVIOUS
  <1>4. \E t \in T : \A u \in T : ~ (<<u, t>> \in R)
    <2> HIDE DEF T, R
    <2> QED BY <1>1, <1>2, <1>3, WFMin, Zenon
  <1>5. PICK m \in S : \A k \in S : ~ (<<Below(k), Below(m)>> \in R)
    BY <1>4, Zenon
  <1>6. ASSUME NEW n \in S, ~ (m <= n) PROVE FALSE
    <2>1. n \in Int /\ m \in Int /\ S \subseteq Int
      OBVIOUS
    <2>2. n < m
      BY <1>6, <2>1
    <2>3. n \in Below(m) /\ n \notin Below(n)
      BY <2>1, <2>2
    <2>4. ASSUME NEW x \in Below(n) PROVE x \in Below(m)
      <3>1. x \in Int /\ x < n
        BY <2>1
      <3>2. x < m
        BY <3>1, <2>1, <2>2
      <3> QED BY <3>2
    <2>5. Below(n) \subseteq Below(m) /\ Below(n) # Below(m)
      BY <2>3, <2>4
    <2>6. <<Below(n), Below(m)>> \in R
      BY <2>5 DEF StrictSubsetOrdering
    <2> QED BY <2>6, <1>5
  <1> QED BY <1>6

LEMMA TakenIsFinite == IsFiniteSet(Taken)
  <1>1. IsFiniteSet(Time) /\ IsFiniteSet(1..MaxBackups)
    BY BackupAssumption, FS_Interval DEF Time
  <1>2. IsFiniteSet(ArchiveName)
    BY <1>1, FS_Product DEF ArchiveName
  <1> QED BY <1>2, FS_Subset DEF Taken

\* The names of one second.
LEMMA NamesOfSecond ==
  ASSUME NEW s \in Time, NEW N, N = {<<s, k>> : k \in 1..MaxBackups}
  PROVE  N \subseteq ArchiveName /\ IsFiniteSet(N) /\ Cardinality(N) = MaxBackups
  <1> DEFINE f == [k \in 1..MaxBackups |-> <<s, k>>]
  <1>1. f \in Bijection(1..MaxBackups, N)
    BY DEF Bijection, Injection, Surjection, IsInjective
  <1>2. ExistsBijection(1..MaxBackups, N)
    BY <1>1 DEF ExistsBijection
  <1>3. MaxBackups \in Nat /\ IsFiniteSet(1..MaxBackups) /\ Cardinality(1..MaxBackups) = MaxBackups
    BY BackupAssumption, FS_Interval
  <1>4. N \subseteq ArchiveName
    BY DEF ArchiveName
  <1> QED BY <1>2, <1>3, <1>4, FS_Bijection

\* _next_archive_name ends, within the bound.
LEMMA FreeNameExists ==
  ASSUME BackupTypeOK, NamesSuffice, NEW b \in AtLock, NEW s \in Time
  PROVE  /\ FirstFree(s) \in 1..MaxBackups
         /\ archives[<<s, FirstFree(s)>>] = Absent
  <1> DEFINE F == {k \in 1..MaxBackups : archives[<<s, k>>] = Absent}
             N == {<<s, k>> : k \in 1..MaxBackups}
  <1>1. MaxBackups \in Nat /\ started \in Nat /\ started <= MaxBackups
    BY BackupAssumption DEF BackupTypeOK
  <1>2. Cardinality(AtLock) \in Nat /\ Cardinality(AtLock) # 0
    BY FS_CardinalityType, FS_EmptySet DEF NamesSuffice
  <1>3. Cardinality(Taken) \in Nat /\ IsFiniteSet(Taken)
    BY TakenIsFinite, FS_CardinalityType
  <1>4. Cardinality(Taken) < MaxBackups
    BY <1>1, <1>2, <1>3 DEF NamesSuffice
  <1>5. F # {}
    <2> SUFFICES ASSUME F = {} PROVE FALSE
      OBVIOUS
    <2>1. N \subseteq ArchiveName /\ Cardinality(N) = MaxBackups
      BY NamesOfSecond
    <2>2. N \subseteq Taken
      <3>1. \A k \in 1..MaxBackups : archives[<<s, k>>] # Absent
        OBVIOUS
      <3>2. \A n \in N : archives[n] # Absent
        BY <3>1
      <3> HIDE DEF N
      <3> QED BY <2>1, <3>2 DEF Taken
    <2>3. Cardinality(N) <= Cardinality(Taken)
      <3> HIDE DEF N
      <3> QED BY <2>2, <1>3, FS_Subset
    <2> QED BY <2>1, <2>3, <1>1, <1>3, <1>4
  <1>6. IsFiniteSet(F) /\ F \subseteq Int
    <2>1. IsFiniteSet(1..MaxBackups)
      BY <1>1, FS_Interval
    <2>2. F \subseteq 1..MaxBackups /\ F \subseteq Int
      OBVIOUS
    <2> HIDE DEF F
    <2> QED BY <2>1, <2>2, FS_Subset
  <1>7. PICK m \in F : \A n \in F : m <= n
    <2> HIDE DEF F
    <2> QED BY <1>5, <1>6, SmallestExists
  <1>8. /\ m \in 1..MaxBackups /\ archives[<<s, m>>] = Absent
        /\ \A j \in 1..(m - 1) : archives[<<s, j>>] # Absent
    <2>1. ASSUME NEW j \in 1..(m - 1) PROVE j \notin F
      BY <1>1, <1>7
    <2> QED BY <1>1, <2>1
  <1>9. \E k \in 1..MaxBackups :
          /\ archives[<<s, k>>] = Absent
          /\ \A j \in 1..(k - 1) : archives[<<s, j>>] # Absent
    BY <1>8
  <1> QED BY <1>9, Zenon DEF FirstFree

LEMMA RunningFields ==
  ASSUME BackupTypeOK, NEW b \in Backup, ~On(b, "idle")
  PROVE  /\ backup[b] \in BackupState
         /\ backup[b].step \in {"waiting", "reserved", "copied", "staged", "failed"}
         /\ backup[b].stamp \in Time /\ backup[b].name \in ArchiveName
         /\ backup[b].refs \in SUBSET Image /\ backup[b].written \in Time
  <1>1. backup[b] \in BackupState
    BY DEF BackupTypeOK, On, Idle
  <1> QED BY <1>1, Zenon DEF BackupState

LEMMA IdleIsIdle ==
  ASSUME BackupTypeOK, NEW b \in Backup
  PROVE  On(b, "idle") <=> backup[b] = Idle
  <1>1. CASE backup[b] = Idle
    BY <1>1 DEF Idle, On
  <1>2. CASE backup[b] \in BackupState
    <2>1. backup[b].step \in {"waiting", "reserved", "copied", "staged", "failed"}
      BY <1>2, Zenon DEF BackupState
    <2>2. backup[b].step # "idle"
      BY <2>1
    <2> QED BY <2>2 DEF On, Idle
  <1> QED BY <1>1, <1>2 DEF BackupTypeOK

-----------------------------------------------------------------------------
(* What each step does to a backup *)

LEMMA BackupStates == BackupStateOf(ArchiveName) = BackupState
  BY DEF BackupStateOf, BackupState

LEMMA Started ==
  ASSUME BackupTypeOK, NEW b \in Backup, StartBackup(b)
  PROVE  /\ backup'[b] \in BackupState /\ backup'[b].step = "waiting"
         /\ backup'[b].stamp = clock
         /\ \A c \in Backup : c # b => backup'[c] = backup[c]
  <1>1. clock \in Time /\ <<clock, 1>> \in ArchiveName
    <2>1. MaxBackups \in Nat /\ started \in Nat /\ started < MaxBackups
      BY BackupAssumption DEF BackupTypeOK, StartBackup
    <2>2. clock \in Time
      BY DEF BackupTypeOK
    <2>3. 1 \in 1..MaxBackups
      BY <2>1
    <2> QED BY <2>2, <2>3 DEF ArchiveName
  <1> DEFINE new == Running("waiting", clock)
  <1>2. new \in BackupState /\ new.step = "waiting" /\ new.stamp = clock
    BY <1>1, SMT DEF Running, BackupState
  <1> HIDE DEF new
  <1>3. backup' = [backup EXCEPT ![b] = new]
    BY DEF StartBackup, new
  <1> QED BY <1>2, <1>3 DEF BackupTypeOK

\* b's record e becomes new, one field at a time.
LEMMA Replaced ==
  ASSUME BackupTypeOK, NEW b \in Backup, NEW new \in BackupState \cup {Idle},
         backup' = [backup EXCEPT ![b] = new]
  PROVE  /\ backup' \in [Backup -> BackupState \cup {Idle}]
         /\ backup'[b] = new
         /\ \A c \in Backup : c # b => backup'[c] = backup[c]
  BY DEF BackupTypeOK

LEMMA Reserved ==
  ASSUME BackupTypeOK, NamesSuffice, NEW b \in Backup, Reserve(b)
  PROVE  /\ b \in AtLock
         /\ backup' \in [Backup -> BackupState \cup {Idle}]
         /\ \A c \in Backup : c # b => backup'[c] = backup[c]
         /\ backup'[b] \in BackupState /\ backup'[b].step = "reserved"
         /\ backup'[b].stamp = backup[b].stamp
         /\ backup'[b].name \in ArchiveName
         /\ archives[backup'[b].name] = Absent
         /\ archives' = [archives EXCEPT ![backup'[b].name] = Placeholder]
  <1> DEFINE c == backup[b]
             name == <<c.stamp, FirstFree(c.stamp)>>
             e == [c EXCEPT !.step = "reserved"]
             new == [c EXCEPT !.step = "reserved", !.name = name]
  <1>1. /\ On(b, "waiting") /\ backup' = [backup EXCEPT ![b] = new]
        /\ archives' = [archives EXCEPT ![name] = Placeholder]
    BY DEF Reserve
  <1>2. b \in AtLock /\ ~On(b, "idle")
    BY <1>1 DEF AtLock, On
  <1>3. c \in BackupStateOf(ArchiveName) /\ c.stamp \in Time
    BY <1>2, RunningFields, BackupStates
  <1>4. name \in ArchiveName /\ archives[name] = Absent
    BY <1>2, <1>3, FreeNameExists DEF ArchiveName
  <1>5. new = [e EXCEPT !.name = name]
    OBVIOUS
  <1>6. e = [c EXCEPT !.step = "reserved"]
    OBVIOUS
  <1> HIDE DEF new, e, name, c
  <1>7. /\ new \in BackupStateOf(ArchiveName) /\ new.step = "reserved" /\ new.stamp = c.stamp
        /\ new.name = name
    <2>1. c \in BackupStateOf(ArchiveName)
      BY <1>3
    <2>2. e \in BackupStateOf(ArchiveName) /\ e.step = "reserved" /\ e.stamp = c.stamp
      BY ONLY <2>1, <1>6, SetBackupStep
    <2>3. e \in BackupStateOf(ArchiveName)
      BY <2>2
    <2>4. name \in ArchiveName
      BY <1>4
    <2>5. /\ new \in BackupStateOf(ArchiveName) /\ new.step = e.step /\ new.stamp = e.stamp
          /\ new.name = name
      BY ONLY <1>5, <2>3, <2>4, SetBackupName
    <2> QED BY <2>2, <2>5
  <1>8. /\ backup' \in [Backup -> BackupState \cup {Idle}] /\ backup'[b] = new
        /\ \A d \in Backup : d # b => backup'[d] = backup[d]
    <2>1. new \in BackupState \cup {Idle}
      BY <1>7, BackupStates
    <2>2. backup' = [backup EXCEPT ![b] = new]
      BY <1>1
    <2> QED BY <2>1, <2>2, Replaced
  <1> QED BY <1>1, <1>2, <1>4, <1>7, <1>8, BackupStates DEF c

\* The steps after which a backup keeps its name.
LEMMA CopiedDatabase ==
  ASSUME BackupTypeOK, NEW b \in Backup, CopyDatabase(b), Referenced \in SUBSET Image
  PROVE  /\ b \in Named
         /\ backup' \in [Backup -> BackupState \cup {Idle}]
         /\ \A c \in Backup : c # b => backup'[c] = backup[c]
         /\ backup'[b].step = "copied" /\ backup'[b].refs = Referenced
         /\ backup'[b].stamp = backup[b].stamp /\ backup'[b].name = backup[b].name
  <1> DEFINE c == backup[b]
             e == [c EXCEPT !.step = "copied"]
             new == [c EXCEPT !.step = "copied", !.refs = Referenced]
  <1>1. b \in Named /\ ~On(b, "idle") /\ backup' = [backup EXCEPT ![b] = new]
    BY DEF CopyDatabase, On, Named, InDatabase
  <1>2. c \in BackupStateOf(ArchiveName)
    BY <1>1, RunningFields, BackupStates
  <1>3. new = [e EXCEPT !.refs = Referenced]
    OBVIOUS
  <1>8. e = [c EXCEPT !.step = "copied"]
    OBVIOUS
  <1> HIDE DEF new, e, c
  <1>4. /\ e \in BackupStateOf(ArchiveName) /\ e.step = "copied"
        /\ e.stamp = c.stamp /\ e.name = c.name
    BY ONLY <1>2, <1>8, SetBackupStep
  <1>5. /\ new \in BackupStateOf(ArchiveName) /\ new.step = e.step /\ new.refs = Referenced
        /\ new.stamp = e.stamp /\ new.name = e.name
    <2>1. e \in BackupStateOf(ArchiveName)
      BY <1>4
    <2> QED BY ONLY <1>3, <2>1, Referenced \in SUBSET Image, SetBackupRefs
  <1>6. new \in BackupState \cup {Idle} /\ backup' = [backup EXCEPT ![b] = new]
    BY <1>1, <1>5, BackupStates
  <1>7. /\ backup' \in [Backup -> BackupState \cup {Idle}] /\ backup'[b] = new
        /\ \A d \in Backup : d # b => backup'[d] = backup[d]
    BY <1>6, Replaced
  <1> QED BY <1>1, <1>4, <1>5, <1>7 DEF c

LEMMA CopiedImages ==
  ASSUME BackupTypeOK, NEW b \in Backup, CopyImages(b)
  PROVE  /\ b \in Named
         /\ backup' \in [Backup -> BackupState \cup {Idle}]
         /\ \A c \in Backup : c # b => backup'[c] = backup[c]
         /\ backup'[b].step = "staged" /\ backup'[b].refs = backup[b].refs
         /\ backup'[b].written = clock
         /\ backup'[b].stamp = backup[b].stamp /\ backup'[b].name = backup[b].name
  <1> DEFINE c == backup[b]
             e == [c EXCEPT !.step = "staged"]
             new == [c EXCEPT !.step = "staged", !.written = clock]
  <1>1. b \in Named /\ ~On(b, "idle") /\ backup' = [backup EXCEPT ![b] = new]
    BY DEF CopyImages, On, Named
  <1>2. c \in BackupStateOf(ArchiveName) /\ clock \in Time
    BY <1>1, RunningFields, BackupStates DEF BackupTypeOK
  <1>3. new = [e EXCEPT !.written = clock]
    OBVIOUS
  <1>8. e = [c EXCEPT !.step = "staged"]
    OBVIOUS
  <1> HIDE DEF new, e, c
  <1>4. /\ e \in BackupStateOf(ArchiveName) /\ e.step = "staged"
        /\ e.stamp = c.stamp /\ e.name = c.name /\ e.refs = c.refs
    <2>1. c \in BackupStateOf(ArchiveName)
      BY <1>2
    <2> QED BY ONLY <2>1, <1>8, SetBackupStep
  <1>5. /\ new \in BackupStateOf(ArchiveName) /\ new.step = e.step /\ new.refs = e.refs
        /\ new.stamp = e.stamp /\ new.name = e.name /\ new.written = clock
    <2>1. e \in BackupStateOf(ArchiveName)
      BY <1>4
    <2>2. clock \in Time
      BY <1>2
    <2> QED BY ONLY <1>3, <2>1, <2>2, SetBackupWritten
  <1>6. new \in BackupState \cup {Idle} /\ backup' = [backup EXCEPT ![b] = new]
    BY <1>1, <1>5, BackupStates
  <1>7. /\ backup' \in [Backup -> BackupState \cup {Idle}] /\ backup'[b] = new
        /\ \A d \in Backup : d # b => backup'[d] = backup[d]
    BY <1>6, Replaced
  <1> QED BY <1>1, <1>4, <1>5, <1>7 DEF c

LEMMA FailedBackup ==
  ASSUME BackupTypeOK, NEW b \in Backup, BackupFails(b), ~On(b, "waiting")
  PROVE  /\ b \in Named
         /\ backup' \in [Backup -> BackupState \cup {Idle}]
         /\ \A c \in Backup : c # b => backup'[c] = backup[c]
         /\ backup'[b].step = "failed"
         /\ backup'[b].stamp = backup[b].stamp /\ backup'[b].name = backup[b].name
  <1> DEFINE c == backup[b]
             new == [c EXCEPT !.step = "failed"]
  <1>1. b \in Named /\ ~On(b, "idle") /\ backup' = [backup EXCEPT ![b] = new]
    BY DEF BackupFails, On, Named
  <1>2. c \in BackupStateOf(ArchiveName)
    BY <1>1, RunningFields, BackupStates
  <1>3. new = [c EXCEPT !.step = "failed"]
    OBVIOUS
  <1> HIDE DEF new, c
  <1>4. /\ new \in BackupStateOf(ArchiveName) /\ new.step = "failed"
        /\ new.stamp = c.stamp /\ new.name = c.name
    BY ONLY <1>2, <1>3, SetBackupStep
  <1>5. new \in BackupState \cup {Idle} /\ backup' = [backup EXCEPT ![b] = new]
    BY <1>1, <1>4, BackupStates
  <1>6. /\ backup' \in [Backup -> BackupState \cup {Idle}] /\ backup'[b] = new
        /\ \A d \in Backup : d # b => backup'[d] = backup[d]
    BY <1>5, Replaced
  <1> QED BY <1>1, <1>4, <1>6 DEF c

\* A backup ends: it publishes, gives its name back, is killed, or fails early.
LEMMA EndedBackup ==
  ASSUME BackupTypeOK, NEW b \in Backup, backup' = [backup EXCEPT ![b] = Idle]
  PROVE  /\ backup' \in [Backup -> BackupState \cup {Idle}]
         /\ \A c \in Backup : c # b => backup'[c] = backup[c]
         /\ backup'[b].step = "idle"
         /\ Named' = Named \ {b} /\ AtLock' = AtLock \ {b}
  <1>1. /\ backup' \in [Backup -> BackupState \cup {Idle}] /\ backup'[b] = Idle
        /\ \A d \in Backup : d # b => backup'[d] = backup[d]
    BY Replaced
  <1>2. backup'[b].step = "idle"
    BY <1>1 DEF Idle
  <1> QED BY <1>1, <1>2 DEF Named, AtLock, On

-----------------------------------------------------------------------------
(* Every step keeps the invariant *)

LEMMA NamesStutter ==
  ASSUME NamesInv, UNCHANGED <<archives, clock, backup, started, abandoned>>
  PROVE  NamesInv'
  <1>1. Taken' = Taken /\ AtLock' = AtLock /\ Named' = Named
    BY DEF Taken, AtLock, Named, On
  <1>2. BackupTypeOK' /\ NamesSuffice' /\ NamesDiffer' /\ EmptiesAreOwned'
    BY <1>1 DEF NamesInv, BackupTypeOK, NamesSuffice, NamesDiffer, EmptiesAreOwned
  <1>3. Recent' /\ NamesReserved'
    BY <1>1 DEF NamesInv, Recent, NamesReserved, On
  <1> QED BY <1>2, <1>3 DEF NamesInv

\* A backup with a name takes a step that leaves the archives alone.
LEMMA NameKept ==
  ASSUME NamesInv, NEW b \in Named,
         backup' \in [Backup -> BackupState \cup {Idle}],
         \A c \in Backup : c # b => backup'[c] = backup[c],
         backup'[b].step \in {"copied", "staged", "failed"},
         backup'[b].stamp = backup[b].stamp, backup'[b].name = backup[b].name,
         UNCHANGED <<archives, clock, started, abandoned>>
  PROVE  NamesInv'
  <1>1. b \in Backup /\ backup[b].step \in {"reserved", "copied", "staged", "failed"}
    BY DEF Named
  <1>2. Taken' = Taken /\ AtLock' = AtLock /\ Named' = Named
    <2>1. \A c \in Backup : (c \in Named <=> backup'[c].step \in {"reserved", "copied", "staged", "failed"})
                            /\ (backup[c].step = "waiting" <=> backup'[c].step = "waiting")
      BY <1>1 DEF Named
    <2> QED BY <2>1 DEF Taken, AtLock, Named, On
  <1>3. \A c \in Backup : backup'[c].stamp = backup[c].stamp /\ backup'[c].name = backup[c].name
    BY <1>1
  <1>4. \A c \in Backup : backup'[c].step = "idle" <=> backup[c].step = "idle"
    BY <1>1
  <1>5. BackupTypeOK' /\ NamesSuffice'
    BY <1>2 DEF NamesInv, BackupTypeOK, NamesSuffice
  <1>6. Recent'
    BY <1>3, <1>4 DEF NamesInv, Recent, On
  <1>7. NamesReserved' /\ NamesDiffer' /\ EmptiesAreOwned'
    <2>1. Named \subseteq Backup
      BY DEF Named
    <2> QED BY <1>2, <1>3, <2>1 DEF NamesInv, NamesReserved, NamesDiffer, EmptiesAreOwned
  <1> QED BY <1>5, <1>6, <1>7 DEF NamesInv

LEMMA StartKeepsNames ==
  ASSUME NamesInv, NEW b \in Backup, StartBackup(b)
  PROVE  NamesInv'
  <1>1. /\ backup'[b] \in BackupState /\ backup'[b].step = "waiting"
        /\ backup'[b].stamp = clock
        /\ \A c \in Backup : c # b => backup'[c] = backup[c]
    BY Started DEF NamesInv
  <1>2. /\ On(b, "idle") /\ started < MaxBackups /\ started' = started + 1
        /\ UNCHANGED <<archives, clock, abandoned>>
        /\ \E new : backup' = [backup EXCEPT ![b] = new]
    BY DEF StartBackup
  <1>3. Taken' = Taken /\ AtLock' = AtLock \cup {b} /\ b \notin AtLock
    BY <1>1, <1>2 DEF Taken, AtLock, On
  <1>4. Named' = Named
    BY <1>1, <1>2 DEF Named, On
  <1>5. BackupTypeOK'
    <2>1. backup' \in [Backup -> BackupState \cup {Idle}]
      BY <1>1, <1>2 DEF NamesInv, BackupTypeOK
    <2>2. started' \in 0..MaxBackups
      BY <1>2, BackupAssumption DEF NamesInv, BackupTypeOK
    <2> QED BY <1>2, <2>1, <2>2 DEF NamesInv, BackupTypeOK
  <1>6. NamesSuffice'
    <2>1. IsFiniteSet(AtLock') /\ Cardinality(AtLock') = Cardinality(AtLock) + 1
      BY <1>3, FS_AddElement DEF NamesInv, NamesSuffice
    <2>2. Cardinality(Taken) \in Nat /\ Cardinality(AtLock) \in Nat /\ started \in Nat
      BY TakenIsFinite, FS_CardinalityType, BackupAssumption
         DEF NamesInv, NamesSuffice, BackupTypeOK
    <2> QED BY <1>2, <1>3, <2>1, <2>2 DEF NamesInv, NamesSuffice
  <1>7. Recent'
    <2>1. clock \in Nat /\ Retention \in Nat
      BY BackupAssumption DEF NamesInv, BackupTypeOK, Time
    <2> QED BY <1>1, <1>2, <2>1 DEF NamesInv, Recent, On
  <1>8. NamesReserved' /\ NamesDiffer' /\ EmptiesAreOwned'
    <2>1. \A c \in Named : c \in Backup /\ c # b
      BY <1>2 DEF Named, On
    <2>2. \A c \in Named : backup'[c] = backup[c]
      BY <1>1, <2>1
    <2> QED BY <1>2, <1>4, <2>2 DEF NamesInv, NamesReserved, NamesDiffer, EmptiesAreOwned
  <1> QED BY <1>5, <1>6, <1>7, <1>8 DEF NamesInv

LEMMA ReserveKeepsNames ==
  ASSUME NamesInv, NEW b \in Backup, Reserve(b)
  PROVE  NamesInv'
  <1> DEFINE name == backup'[b].name
  <1>1. /\ b \in AtLock
        /\ backup' \in [Backup -> BackupState \cup {Idle}]
        /\ \A c \in Backup : c # b => backup'[c] = backup[c]
        /\ backup'[b].step = "reserved" /\ backup'[b].stamp = backup[b].stamp
        /\ name \in ArchiveName /\ archives[name] = Absent
        /\ archives' = [archives EXCEPT ![name] = Placeholder]
    BY Reserved DEF NamesInv
  <1>2. UNCHANGED <<clock, started, abandoned>>
    BY DEF Reserve
  <1> HIDE DEF name
  <1>3. On(b, "waiting") /\ b \notin Named
    BY <1>1 DEF AtLock, On, Named
  <1>4. AtLock' = AtLock \ {b} /\ Named' = Named \cup {b}
    BY <1>1, <1>3 DEF AtLock, Named, On
  <1>5. clock \in Time /\ archives \in [ArchiveName -> Archive \cup {Absent}]
    BY DEF NamesInv, BackupTypeOK
  <1>6. /\ Placeholder \in Archive /\ ~Placeholder.verified /\ Placeholder.mtime = clock
    BY <1>5, SMT DEF Placeholder, Archive
  <1>7. Placeholder # Absent
    BY <1>6, ArchiveAssumption
  <1>8. /\ archives'[name] = Placeholder
        /\ \A n \in ArchiveName : n # name => archives'[n] = archives[n]
        /\ archives' \in [ArchiveName -> Archive \cup {Absent}]
    BY <1>1, <1>5, <1>6
  <1>9. Taken' = Taken \cup {name} /\ name \notin Taken
    BY <1>1, <1>7, <1>8 DEF Taken
  <1>10. BackupTypeOK'
    BY <1>1, <1>2, <1>8 DEF NamesInv, BackupTypeOK
  <1>11. NamesSuffice'
    <2>1. IsFiniteSet(AtLock') /\ Cardinality(AtLock') = Cardinality(AtLock) - 1
      BY <1>1, <1>4, FS_RemoveElement DEF NamesInv, NamesSuffice
    <2>2. Cardinality(Taken') = Cardinality(Taken) + 1
      BY <1>9, TakenIsFinite, FS_AddElement
    <2>3. Cardinality(Taken) \in Nat /\ Cardinality(AtLock) \in Nat /\ started \in Nat
      BY TakenIsFinite, FS_CardinalityType, BackupAssumption
         DEF NamesInv, NamesSuffice, BackupTypeOK
    <2> QED BY <1>2, <2>1, <2>2, <2>3 DEF NamesInv, NamesSuffice
  <1>12. Recent'
    <2>1. \A c \in Backup : ~(On(c, "idle")') => ~On(c, "idle") /\ backup'[c].stamp = backup[c].stamp
      BY <1>1, <1>3 DEF On
    <2> QED BY <1>2, <2>1 DEF NamesInv, Recent
  <1>13. \A c \in Named : /\ c \in Backup /\ c # b /\ backup'[c] = backup[c]
                          /\ backup[c].name \in ArchiveName /\ backup[c].name # name
    <2> SUFFICES ASSUME NEW c \in Named
                 PROVE /\ c \in Backup /\ c # b /\ backup'[c] = backup[c]
                       /\ backup[c].name \in ArchiveName /\ backup[c].name # name
      OBVIOUS
    <2>1. c \in Backup /\ c # b /\ ~On(c, "idle")
      BY <1>3 DEF Named, On
    <2>2. backup[c].name \in ArchiveName
      BY <2>1, RunningFields DEF NamesInv
    <2>3. archives[backup[c].name] # Absent
      BY DEF NamesInv, NamesReserved
    <2> QED BY <1>1, <2>1, <2>2, <2>3
  <1>14. NamesReserved'
    <2>1. backup[b].stamp <= clock
      BY <1>3 DEF NamesInv, Recent, On
    <2>2. backup[b].stamp \in Time
      BY <1>3, RunningFields DEF NamesInv, On
    <2>3. clock >= backup[b].stamp
      BY <1>5, <2>1, <2>2 DEF Time
    <2> SUFFICES ASSUME NEW c \in Named'
                 PROVE /\ archives'[backup'[c].name] # Absent
                       /\ ~archives'[backup'[c].name].verified
                       /\ archives'[backup'[c].name].mtime >= backup'[c].stamp
      BY DEF NamesReserved
    <2>4. CASE c = b
      BY <1>1, <1>6, <1>7, <1>8, <2>3, <2>4 DEF name
    <2>5. CASE c # b
      BY <1>4, <1>8, <1>13, <2>5 DEF NamesInv, NamesReserved
    <2> QED BY <2>4, <2>5
  <1>15. NamesDiffer'
    BY <1>4, <1>13 DEF NamesInv, NamesDiffer, name
  <1>16. EmptiesAreOwned'
    <2> SUFFICES ASSUME NEW n \in ArchiveName, archives'[n] # Absent, ~archives'[n].verified
                 PROVE n \in abandoned' \/ \E c \in Named' : backup'[c].name = n
      BY DEF EmptiesAreOwned
    <2>1. CASE n = name
      BY <1>4, <2>1 DEF name
    <2>2. CASE n # name
      <3>1. n \in abandoned \/ \E c \in Named : backup[c].name = n
        BY <1>8, <2>2 DEF NamesInv, EmptiesAreOwned
      <3> QED BY <1>2, <1>4, <1>13, <3>1
    <2> QED BY <2>1, <2>2
  <1> QED BY <1>10, <1>11, <1>12, <1>14, <1>15, <1>16 DEF NamesInv

\* A backup ends.  What is left under its name, if it had one, is no archive, a
\* verified one, or known to be abandoned.
Ends(b) ==
  /\ backup' = [backup EXCEPT ![b] = Idle]
  /\ UNCHANGED <<clock, started>>
  /\ archives' \in [ArchiveName -> Archive \cup {Absent}]
  /\ \A n \in ArchiveName :
       archives'[n] = archives[n] \/ (b \in Named /\ n = backup[b].name)
  /\ b \in Named =>
       \/ archives'[backup[b].name] = Absent
       \/ archives'[backup[b].name].verified
       \/ backup[b].name \in abandoned'
  /\ abandoned \subseteq abandoned' /\ abandoned' \subseteq ArchiveName

LEMMA EndKeepsNames ==
  ASSUME NamesInv, NEW b \in Backup, Ends(b)
  PROVE  NamesInv'
  <1> USE DEF Ends
  <1>1. /\ backup' \in [Backup -> BackupState \cup {Idle}]
        /\ \A c \in Backup : c # b => backup'[c] = backup[c]
        /\ backup'[b].step = "idle"
        /\ Named' = Named \ {b} /\ AtLock' = AtLock \ {b}
    BY EndedBackup DEF NamesInv
  <1>2. Taken' \subseteq Taken
    <2>1. ASSUME b \in Named PROVE archives[backup[b].name] # Absent
      BY <2>1 DEF NamesInv, NamesReserved
    <2> QED BY <2>1 DEF Taken
  <1>3. BackupTypeOK'
    BY <1>1 DEF NamesInv, BackupTypeOK
  <1>4. NamesSuffice'
    <2>1. IsFiniteSet(AtLock') /\ Cardinality(AtLock') <= Cardinality(AtLock)
      <3>1. AtLock' \subseteq AtLock
        BY <1>1
      <3> QED BY <3>1, FS_Subset DEF NamesInv, NamesSuffice
    <2>2. Cardinality(Taken') <= Cardinality(Taken) /\ IsFiniteSet(Taken')
      BY <1>2, TakenIsFinite, FS_Subset
    <2>3. /\ Cardinality(Taken) \in Nat /\ Cardinality(AtLock) \in Nat /\ started \in Nat
          /\ Cardinality(Taken') \in Nat /\ Cardinality(AtLock') \in Nat
      BY <2>1, <2>2, TakenIsFinite, FS_CardinalityType, BackupAssumption
         DEF NamesInv, NamesSuffice, BackupTypeOK
    <2> QED BY <2>1, <2>2, <2>3 DEF NamesInv, NamesSuffice
  <1>5. Recent'
    <2>1. \A c \in Backup : ~(On(c, "idle")') => ~On(c, "idle") /\ backup'[c] = backup[c]
      BY <1>1 DEF On
    <2> QED BY <2>1 DEF NamesInv, Recent
  <1>6. \A c \in Named' : /\ c \in Named /\ backup'[c] = backup[c]
                          /\ archives'[backup[c].name] = archives[backup[c].name]
    <2> SUFFICES ASSUME NEW c \in Named'
                 PROVE /\ c \in Named /\ backup'[c] = backup[c]
                       /\ archives'[backup[c].name] = archives[backup[c].name]
      OBVIOUS
    <2>1. c \in Named /\ c # b
      BY <1>1
    <2>2. c \in Backup /\ ~On(c, "idle")
      BY <2>1 DEF Named, On
    <2>3. backup[c].name \in ArchiveName
      BY <2>2, RunningFields DEF NamesInv
    <2>4. b \in Named => backup[c].name # backup[b].name
      BY <2>1 DEF NamesInv, NamesDiffer
    <2> QED BY <1>1, <2>1, <2>2, <2>3, <2>4
  <1>7. NamesReserved' /\ NamesDiffer'
    BY <1>6 DEF NamesInv, NamesReserved, NamesDiffer
  <1>8. EmptiesAreOwned'
    <2> SUFFICES ASSUME NEW n \in ArchiveName, archives'[n] # Absent, ~archives'[n].verified
                 PROVE n \in abandoned' \/ \E c \in Named' : backup'[c].name = n
      BY DEF EmptiesAreOwned
    <2>1. CASE b \in Named /\ n = backup[b].name
      BY <2>1
    <2>2. CASE ~(b \in Named /\ n = backup[b].name)
      <3>1. n \in abandoned \/ \E c \in Named : backup[c].name = n
        BY <2>2 DEF NamesInv, EmptiesAreOwned
      <3>2. ASSUME NEW c \in Named, backup[c].name = n
            PROVE  c \in Named' /\ backup'[c].name = n
        <4>1. c # b /\ c \in Backup
          BY <2>2, <3>2 DEF Named
        <4> QED BY <1>1, <3>2, <4>1
      <3> QED BY <3>1, <3>2
    <2> QED BY <2>1, <2>2
  <1> QED BY <1>3, <1>4, <1>5, <1>7, <1>8 DEF NamesInv

LEMMA NamedBackup ==
  ASSUME NamesInv, NEW b \in Named
  PROVE  /\ b \in Backup /\ ~On(b, "idle") /\ ~On(b, "waiting")
         /\ backup[b] \in BackupState
         /\ backup[b].name \in ArchiveName
         /\ backup[b].refs \in SUBSET Image /\ backup[b].written \in Time
  <1>1. b \in Backup /\ ~On(b, "idle") /\ ~On(b, "waiting")
    BY DEF Named, On
  <1> QED BY <1>1, RunningFields DEF NamesInv

LEMMA PublishKeepsNames ==
  ASSUME NamesInv, NEW b \in Backup, Publish(b)
  PROVE  NamesInv'
  <1> DEFINE c == backup[b]
             new == [verified |-> TRUE, images |-> c.refs, mtime |-> c.written]
  <1>1. /\ archives' = [archives EXCEPT ![c.name] = new]
        /\ backup' = [backup EXCEPT ![b] = Idle] /\ UNCHANGED <<clock, started, abandoned>>
        /\ b \in Named
    BY DEF Publish, On, Named
  <1>2. c.name \in ArchiveName /\ c.refs \in SUBSET Image /\ c.written \in Time
    BY <1>1, NamedBackup
  <1>3. new \in Archive /\ new.verified
    BY <1>2, SMT DEF Archive
  <1> HIDE DEF new
  <1>4. /\ archives' \in [ArchiveName -> Archive \cup {Absent}] /\ archives'[c.name] = new
        /\ \A n \in ArchiveName : n # c.name => archives'[n] = archives[n]
    BY <1>1, <1>2, <1>3 DEF NamesInv, BackupTypeOK
  <1>5. abandoned' \subseteq ArchiveName
    BY <1>1 DEF NamesInv, BackupTypeOK
  <1>6. Ends(b)
    BY <1>1, <1>3, <1>4, <1>5 DEF Ends
  <1> QED BY <1>6, EndKeepsNames

LEMMA GiveBackKeepsNames ==
  ASSUME NamesInv, NEW b \in Backup, GiveBack(b)
  PROVE  NamesInv'
  <1>1. /\ archives' = [archives EXCEPT ![backup[b].name] = Absent]
        /\ backup' = [backup EXCEPT ![b] = Idle] /\ UNCHANGED <<clock, started, abandoned>>
        /\ b \in Named
    BY DEF GiveBack, On, Named, Removed
  <1>2. backup[b].name \in ArchiveName
    BY <1>1, NamedBackup
  <1>3. /\ archives' \in [ArchiveName -> Archive \cup {Absent}]
        /\ archives'[backup[b].name] = Absent
        /\ \A n \in ArchiveName : n # backup[b].name => archives'[n] = archives[n]
    BY <1>1, <1>2 DEF NamesInv, BackupTypeOK
  <1>4. abandoned' \subseteq ArchiveName
    BY <1>1 DEF NamesInv, BackupTypeOK
  <1>5. Ends(b)
    BY <1>1, <1>3, <1>4 DEF Ends
  <1> QED BY <1>5, EndKeepsNames

LEMMA KillKeepsNames ==
  ASSUME NamesInv, NEW b \in Backup, KillBackup(b)
  PROVE  NamesInv'
  <1>1. /\ backup' = [backup EXCEPT ![b] = Idle] /\ UNCHANGED <<clock, started, archives>>
        /\ abandoned' = IF b \in Named THEN abandoned \cup {backup[b].name} ELSE abandoned
    BY DEF KillBackup
  <1>2. b \in Named => backup[b].name \in ArchiveName
    BY NamedBackup
  <1>3. /\ abandoned' \subseteq ArchiveName /\ abandoned \subseteq abandoned'
        /\ b \in Named => backup[b].name \in abandoned'
    BY <1>1, <1>2 DEF NamesInv, BackupTypeOK
  <1>4. archives' \in [ArchiveName -> Archive \cup {Absent}]
    BY <1>1 DEF NamesInv, BackupTypeOK
  <1>5. Ends(b)
    BY <1>1, <1>3, <1>4 DEF Ends
  <1> QED BY <1>5, EndKeepsNames

LEMMA FailureKeepsNames ==
  ASSUME NamesInv, NEW b \in Backup, BackupFails(b)
  PROVE  NamesInv'
  <1>1. UNCHANGED <<archives, clock, started, abandoned>>
    BY DEF BackupFails
  <1>2. CASE On(b, "waiting")
    <2>1. backup' = [backup EXCEPT ![b] = Idle] /\ b \notin Named
      BY <1>2 DEF BackupFails, On, Named
    <2>2. archives' \in [ArchiveName -> Archive \cup {Absent}] /\ abandoned' \subseteq ArchiveName
      BY <1>1 DEF NamesInv, BackupTypeOK
    <2>3. Ends(b)
      BY <1>1, <2>1, <2>2 DEF Ends
    <2> QED BY <2>3, EndKeepsNames
  <1>3. CASE ~On(b, "waiting")
    BY <1>1, <1>3, FailedBackup, NameKept DEF NamesInv
  <1> QED BY <1>2, <1>3

LEMMA CopiesKeepNames ==
  ASSUME NamesInv, Referenced \in SUBSET Image,
         NEW b \in Backup, CopyDatabase(b) \/ CopyImages(b)
  PROVE  NamesInv'
  <1>1. UNCHANGED <<archives, clock, started, abandoned>>
    BY DEF CopyDatabase, CopyImages
  <1>2. CASE CopyDatabase(b)
    BY <1>1, <1>2, CopiedDatabase, NameKept DEF NamesInv
  <1>3. CASE CopyImages(b)
    BY <1>1, <1>3, CopiedImages, NameKept DEF NamesInv
  <1> QED BY <1>2, <1>3

\* A name that a running backup has reserved is too young to be pruned.
LEMMA PrunedIsFree ==
  ASSUME NamesInv, NEW name \in ArchiveName, Prune(name), NEW b \in Named
  PROVE  backup[b].name # name
  <1> SUFFICES ASSUME backup[b].name = name PROVE FALSE
    OBVIOUS
  <1>1. b \in Backup /\ ~On(b, "idle")
    BY NamedBackup
  <1>2. clock <= backup[b].stamp + Retention
    BY <1>1 DEF NamesInv, Recent
  <1>3. archives[name] # Absent /\ archives[name].mtime >= backup[b].stamp
    BY DEF NamesInv, NamesReserved
  <1>4. archives[name] \in Archive
    BY <1>3 DEF NamesInv, BackupTypeOK
  <1>5. archives[name].mtime \in Time
    BY <1>4, Zenon DEF Archive
  <1>6. backup[b].stamp \in Time
    BY <1>1, RunningFields DEF NamesInv
  <1>7. clock \in Time /\ archives[name].mtime + Retention < clock
    BY DEF NamesInv, BackupTypeOK, Prune, Expired
  <1> QED BY <1>2, <1>3, <1>5, <1>6, <1>7, BackupAssumption DEF Time

LEMMA PruneKeepsNames ==
  ASSUME NamesInv, NEW name \in ArchiveName, Prune(name)
  PROVE  NamesInv'
  <1>1. /\ archives' = [archives EXCEPT ![name] = Absent] /\ abandoned' = abandoned \ {name}
        /\ UNCHANGED <<clock, backup, started>>
    BY DEF Prune
  <1>2. /\ archives' \in [ArchiveName -> Archive \cup {Absent}] /\ archives'[name] = Absent
        /\ \A n \in ArchiveName : n # name => archives'[n] = archives[n]
    BY <1>1 DEF NamesInv, BackupTypeOK
  <1>3. Taken' \subseteq Taken /\ AtLock' = AtLock /\ Named' = Named
    BY <1>1, <1>2 DEF Taken, AtLock, Named, On
  <1>4. BackupTypeOK'
    BY <1>1, <1>2 DEF NamesInv, BackupTypeOK
  <1>5. NamesSuffice'
    <2>1. Cardinality(Taken') <= Cardinality(Taken) /\ IsFiniteSet(Taken')
      BY <1>3, TakenIsFinite, FS_Subset
    <2>2. /\ Cardinality(Taken) \in Nat /\ Cardinality(AtLock) \in Nat /\ started \in Nat
          /\ Cardinality(Taken') \in Nat
      BY <2>1, TakenIsFinite, FS_CardinalityType, BackupAssumption
         DEF NamesInv, NamesSuffice, BackupTypeOK
    <2> QED BY <1>1, <1>3, <2>1, <2>2 DEF NamesInv, NamesSuffice
  <1>6. Recent' /\ NamesDiffer'
    BY <1>1, <1>3 DEF NamesInv, Recent, On, NamesDiffer
  <1>7. \A c \in Named : archives'[backup[c].name] = archives[backup[c].name]
    BY <1>2, NamedBackup, PrunedIsFree
  <1>8. NamesReserved'
    BY <1>1, <1>3, <1>7 DEF NamesInv, NamesReserved
  <1>9. EmptiesAreOwned'
    BY <1>1, <1>2, <1>3 DEF NamesInv, EmptiesAreOwned
  <1> QED BY <1>4, <1>5, <1>6, <1>8, <1>9 DEF NamesInv

LEMMA TickKeepsNames ==
  ASSUME NamesInv, Tick
  PROVE  NamesInv'
  <1>1. /\ clock < MaxClock /\ clock' = clock + 1
        /\ \A b \in Backup : ~On(b, "idle") => clock < backup[b].stamp + Retention
        /\ UNCHANGED <<archives, backup, started, abandoned>>
    BY DEF Tick
  <1>2. Taken' = Taken /\ AtLock' = AtLock /\ Named' = Named
    BY <1>1 DEF Taken, AtLock, Named, On
  <1>3. clock \in Nat /\ clock' \in Time
    BY <1>1, BackupAssumption DEF NamesInv, BackupTypeOK, Time
  <1>4. BackupTypeOK'
    BY <1>1, <1>3 DEF NamesInv, BackupTypeOK
  <1>5. NamesSuffice' /\ NamesDiffer' /\ EmptiesAreOwned' /\ NamesReserved'
    BY <1>1, <1>2 DEF NamesInv, NamesSuffice, NamesDiffer, EmptiesAreOwned, NamesReserved
  <1>6. Recent'
    <2> SUFFICES ASSUME NEW b \in Backup, ~(On(b, "idle")')
                 PROVE  backup'[b].stamp <= clock' /\ clock' <= backup'[b].stamp + Retention
      BY DEF Recent
    <2>1. ~On(b, "idle") /\ backup'[b] = backup[b]
      BY <1>1 DEF On
    <2>2. backup[b].stamp \in Nat
      BY <2>1, RunningFields DEF NamesInv, Time
    <2>3. backup[b].stamp <= clock /\ clock < backup[b].stamp + Retention
      BY <1>1, <2>1 DEF NamesInv, Recent
    <2> QED BY <1>1, <1>3, <2>1, <2>2, <2>3, BackupAssumption
  <1> QED BY <1>4, <1>5, <1>6 DEF NamesInv

-----------------------------------------------------------------------------
(* The names, for every value of the constants *)

LEMMA ReferencedAreImages ==
  ASSUME BackupInv
  PROVE  Referenced \subseteq Image
  BY DEF BackupInv, CatalogInv, CatalogTypeOK, Referenced, Existing, Name

LEMMA NamesInvInit == Init => NamesInv
  <1> SUFFICES ASSUME Init PROVE NamesInv
    OBVIOUS
  <1>1. /\ archives = [n \in ArchiveName |-> Absent] /\ clock = 0
        /\ backup = [b \in Backup |-> Idle] /\ started = 0 /\ abandoned = {}
    BY DEF Init
  <1>2. \A b \in Backup : backup[b].step = "idle"
    BY <1>1 DEF Idle
  <1>3. Taken = {} /\ AtLock = {} /\ Named = {}
    BY <1>1, <1>2 DEF Taken, AtLock, Named, On
  <1>4. BackupTypeOK
    BY <1>1, BackupAssumption DEF BackupTypeOK, Time
  <1>5. NamesSuffice
    BY <1>1, <1>3, FS_EmptySet DEF NamesSuffice
  <1>6. Recent /\ NamesReserved /\ NamesDiffer /\ EmptiesAreOwned
    BY <1>1, <1>2, <1>3 DEF Recent, On, NamesReserved, NamesDiffer, EmptiesAreOwned
  <1> QED BY <1>4, <1>5, <1>6 DEF NamesInv

LEMMA NamesStep == BackupInv /\ NamesInv /\ [Next]_vars => NamesInv'
  <1> SUFFICES ASSUME BackupInv, NamesInv, [Next]_vars PROVE NamesInv'
    OBVIOUS
  <1>1. CASE UNCHANGED <<archives, clock, backup, started, abandoned>>
    BY <1>1, NamesStutter
  <1>2. ASSUME NEW b \in Backup,
               \/ StartBackup(b) \/ Reserve(b) \/ CopyDatabase(b) \/ CopyImages(b)
               \/ Publish(b) \/ BackupFails(b) \/ GiveBack(b) \/ KillBackup(b)
        PROVE  NamesInv'
    BY <1>2, ReferencedAreImages, StartKeepsNames, ReserveKeepsNames, CopiesKeepNames,
       PublishKeepsNames, FailureKeepsNames, GiveBackKeepsNames, KillKeepsNames
  <1>3. ASSUME NEW name \in ArchiveName, Prune(name)
        PROVE  NamesInv'
    BY <1>3, PruneKeepsNames
  <1>4. CASE Tick
    BY <1>4, TickKeepsNames
  <1> QED BY <1>1, <1>2, <1>3, <1>4, Zenon DEF Next, vars

LEMMA NamesInvariant == Spec => [](BackupInv /\ NamesInv)
  <1>1. Init => BackupInv /\ NamesInv
    BY BackupInvInit, NamesInvInit
  <1>2. BackupInv /\ NamesInv /\ [Next]_vars => (BackupInv /\ NamesInv)'
    BY BackupStep, NamesStep
  <1> QED BY <1>1, <1>2, PTL DEF Spec

\* create_backup and prune_backups keep their variables well-typed; the number
\* that _next_archive_name finds is always there.
THEOREM BackupTypeCorrect == Spec => []BackupTypeOK
  BY NamesInvariant, PTL DEF NamesInv

LEMMA NamesAreOwned == NamesInv => ReservedNamesAreOwned
  <1> SUFFICES ASSUME NamesInv PROVE ReservedNamesAreOwned
    OBVIOUS
  <1> DEFINE Empty == {name \in ArchiveName : archives[name] # Absent /\ ~archives[name].verified}
  <1>1. \A b, c \in Named : b # c => backup[b].name # backup[c].name
    BY DEF NamesInv, NamesDiffer
  <1>2. ASSUME NEW b \in Named PROVE backup[b].name \in Empty
    BY NamedBackup DEF NamesInv, NamesReserved
  <1>3. ASSUME NEW n \in Empty PROVE n \in {backup[b].name : b \in Named} \cup abandoned
    BY DEF NamesInv, EmptiesAreOwned
  <1> QED BY <1>1, <1>2, <1>3 DEF ReservedNamesAreOwned

\* Of backups that run at once, fail and are killed, each keeps the name it
\* reserved, and only a kill leaves an empty file behind.
THEOREM ReservedNamesStayOwned == Spec => []ReservedNamesAreOwned
  BY NamesInvariant, NamesAreOwned, PTL

\* A step does to a verified archive nothing but prune it.
Stays(name) ==
  LET archive == archives[name]
  IN archive # Absent /\ archive.verified =>
       \/ archives'[name] = archive
       \/ archives'[name] = Absent /\ clock > archive.mtime + Retention

LEMMA ArchiveStep ==
  ASSUME NamesInv, [Next]_vars, NEW n \in ArchiveName
  PROVE  Stays(n)
  <1>1. archives \in [ArchiveName -> Archive \cup {Absent}]
    BY DEF NamesInv, BackupTypeOK
  <1>2. CASE archives' = archives
    BY <1>2 DEF Stays
  <1>3. ASSUME NEW b \in Backup, Reserve(b)
        PROVE  Stays(n)
    <2>1. /\ archives[backup'[b].name] = Absent
          /\ archives' = [archives EXCEPT ![backup'[b].name] = Placeholder]
      BY <1>3, Reserved DEF NamesInv
    <2>2. n # backup'[b].name => archives'[n] = archives[n]
      BY <1>1, <2>1
    <2> QED BY <2>1, <2>2 DEF Stays
  <1>4. ASSUME NEW b \in Backup, Publish(b) \/ GiveBack(b)
        PROVE  Stays(n)
    <2>1. b \in Named
      BY <1>4 DEF Publish, GiveBack, On, Named
    <2>2. ~archives[backup[b].name].verified
      BY <2>1 DEF NamesInv, NamesReserved
    <2>3. \E v : archives' = [archives EXCEPT ![backup[b].name] = v]
      BY <1>4 DEF Publish, GiveBack, Removed
    <2>4. n # backup[b].name => archives'[n] = archives[n]
      BY <1>1, <2>3
    <2> QED BY <2>2, <2>4 DEF Stays
  <1>5. ASSUME NEW name \in ArchiveName, Prune(name)
        PROVE  Stays(n)
    <2>1. /\ archives[name] # Absent /\ archives[name].mtime + Retention < clock
          /\ archives' = [archives EXCEPT ![name] = Absent]
      BY <1>5 DEF Prune, Expired
    <2>2. CASE n = name
      <3>1. archives'[n] = Absent
        BY <1>1, <2>1, <2>2
      <3>2. archives[n].mtime \in Nat /\ clock \in Nat
        <4>1. archives[n] \in Archive
          BY <1>1, <2>1, <2>2
        <4>2. archives[n].mtime \in Time
          BY <4>1, Zenon DEF Archive
        <4> QED BY <4>2 DEF NamesInv, BackupTypeOK, Time
      <3>3. clock > archives[n].mtime + Retention
        BY <2>1, <2>2, <3>2, BackupAssumption
      <3> QED BY <3>1, <3>3 DEF Stays
    <2>3. CASE n # name
      BY <1>1, <2>1, <2>3 DEF Stays
    <2> QED BY <2>2, <2>3
  <1>6. ASSUME NEW b \in Backup,
               \/ StartBackup(b) \/ CopyDatabase(b) \/ CopyImages(b)
               \/ BackupFails(b) \/ KillBackup(b)
        PROVE  archives' = archives
    BY <1>6 DEF StartBackup, CopyDatabase, CopyImages, BackupFails, KillBackup
  <1>7. CASE Tick
    BY <1>2, <1>7 DEF Tick
  <1> QED BY <1>2, <1>3, <1>4, <1>5, <1>6, <1>7, Zenon DEF Next, vars

\* A verified archive keeps its content until it is older than the retention.
THEOREM ArchivesStay == Spec => VerifiedArchivesStay
  <1>1. NamesInv /\ [Next]_vars =>
          [\A name \in ArchiveName :
             LET archive == archives[name]
             IN archive # Absent /\ archive.verified =>
                  \/ archives'[name] = archive
                  \/ archives'[name] = Absent /\ clock > archive.mtime + Retention]_vars
    BY ArchiveStep DEF Stays
  <1> QED BY <1>1, NamesInvariant, PTL DEF Spec, VerifiedArchivesStay

-----------------------------------------------------------------------------
(* Backups implements ArchiveStore: an archive whose parts are copied one after *)
(* the other, and published later, is a snapshot of one instant.                *)

\* The database copy of the backup that has the lock is still up to date.
CopiedIsCurrent == \A b \in Backup : On(b, "copied") => backup[b].refs = Referenced

IInv == BackupInv /\ NamesInv /\ CopiedIsCurrent

-----------------------------------------------------------------------------
(* The invariant *)

LEMMA SameRows ==
  ASSUME row' = row
  PROVE  Referenced' = Referenced
  BY DEF Referenced, Existing

\* Only a request changes a row.
LEMMA BackupsLeaveRows ==
  ASSUME NEW b \in Backup,
         \/ StartBackup(b) \/ Reserve(b) \/ CopyDatabase(b) \/ CopyImages(b)
         \/ Publish(b) \/ BackupFails(b) \/ GiveBack(b) \/ KillBackup(b)
  PROVE  Referenced' = Referenced
  <1>1. row' = row
    BY DEF StartBackup, Reserve, CopyDatabase, CopyImages, Publish, BackupFails, GiveBack,
           KillBackup, catalog
  <1> QED BY <1>1, SameRows

\* Steps of one backup: what it does to the others.
LEMMA OthersKept ==
  ASSUME NamesInv, NEW b \in Backup,
         \/ StartBackup(b) \/ Reserve(b) \/ CopyDatabase(b) \/ CopyImages(b)
         \/ Publish(b) \/ BackupFails(b) \/ GiveBack(b) \/ KillBackup(b)
  PROVE  \A c \in Backup : c # b => backup'[c] = backup[c]
  <1>1. CASE StartBackup(b)
    BY <1>1, Started DEF NamesInv
  <1>2. CASE Reserve(b)
    BY <1>2, Reserved DEF NamesInv
  <1>3. ASSUME \/ CopyDatabase(b) \/ CopyImages(b) \/ Publish(b)
               \/ BackupFails(b) \/ GiveBack(b) \/ KillBackup(b)
        PROVE  \E v : backup' = [backup EXCEPT ![b] = v]
    BY <1>3 DEF CopyDatabase, CopyImages, Publish, BackupFails, GiveBack, KillBackup
  <1> QED BY <1>1, <1>2, <1>3 DEF NamesInv, BackupTypeOK

LEMMA CopiedStep ==
  ASSUME IInv, [Next]_vars
  PROVE  CopiedIsCurrent'
  <1>1. CASE CatalogNext /\ UNCHANGED <<archives, clock, backup, started, abandoned>>
    <2> SUFFICES ASSUME NEW b \in Backup, On(b, "copied")' PROVE backup'[b].refs = Referenced'
      BY DEF CopiedIsCurrent
    <2>1. On(b, "copied") /\ backup'[b] = backup[b]
      BY <1>1 DEF On
    <2>2. lock = b
      BY <2>1 DEF IInv, BackupInv, LockOfBackup, On
    <2>3. row' = row
      BY <1>1, <2>2, NothingMoves DEF IInv, BackupInv, Backup
    <2> QED BY <2>1, <2>3, SameRows DEF IInv, CopiedIsCurrent
  <1>2. CASE backup' = backup /\ row' = row
    BY <1>2, SameRows DEF IInv, CopiedIsCurrent, On
  <1>3. ASSUME NEW b \in Backup,
               \/ StartBackup(b) \/ Reserve(b) \/ CopyDatabase(b) \/ CopyImages(b)
               \/ Publish(b) \/ BackupFails(b) \/ GiveBack(b) \/ KillBackup(b)
        PROVE  CopiedIsCurrent'
    <2>1. Referenced' = Referenced /\ \A c \in Backup : c # b => backup'[c] = backup[c]
      BY <1>3, BackupsLeaveRows, OthersKept DEF IInv
    <2>2. backup'[b].step # "copied" \/ backup'[b].refs = Referenced
      <3>1. CASE StartBackup(b)
        BY <3>1, Started DEF IInv, NamesInv
      <3>2. CASE Reserve(b)
        BY <3>2, Reserved DEF IInv, NamesInv
      <3>3. CASE CopyDatabase(b)
        BY <3>3, CopiedDatabase, ReferencedAreImages DEF IInv, NamesInv
      <3>4. CASE CopyImages(b)
        BY <3>4, CopiedImages DEF IInv, NamesInv
      <3>5. CASE BackupFails(b) /\ ~On(b, "waiting")
        BY <3>5, FailedBackup DEF IInv, NamesInv
      <3>6. CASE \/ Publish(b) \/ GiveBack(b) \/ KillBackup(b)
                 \/ BackupFails(b) /\ On(b, "waiting")
        <4>1. backup' = [backup EXCEPT ![b] = Idle]
          BY <3>6 DEF Publish, GiveBack, KillBackup, BackupFails
        <4>2. backup'[b].step = "idle"
          BY <4>1, EndedBackup DEF IInv, NamesInv
        <4> QED BY <4>2
      <3> QED BY <1>3, <3>1, <3>2, <3>3, <3>4, <3>5, <3>6
    <2> SUFFICES ASSUME NEW c \in Backup, On(c, "copied")' PROVE backup'[c].refs = Referenced'
      BY DEF CopiedIsCurrent
    <2>3. CASE c = b
      BY <2>1, <2>2, <2>3 DEF On
    <2>4. CASE c # b
      BY <2>1, <2>4 DEF IInv, CopiedIsCurrent, On
    <2> QED BY <2>3, <2>4
  <1>4. CASE Tick \/ \E name \in ArchiveName : Prune(name)
    BY <1>2, <1>4 DEF Tick, Prune, catalog
  <1>5. CASE UNCHANGED vars
    BY <1>2, <1>5 DEF vars, catalog
  <1> QED BY <1>1, <1>3, <1>4, <1>5, Zenon DEF Next

LEMMA IInvInvariant == Spec => []IInv
  <1>1. Init => IInv
    <2> SUFFICES ASSUME Init PROVE CopiedIsCurrent
      BY BackupInvInit, NamesInvInit DEF IInv
    <2> QED BY DEF Init, CopiedIsCurrent, On, Idle
  <1>2. IInv /\ [Next]_vars => IInv'
    BY BackupStep, NamesStep, CopiedStep DEF IInv
  <1> QED BY <1>1, <1>2, PTL DEF Spec

-----------------------------------------------------------------------------
(* The requests: one row changes, to a name that no row has *)

LEMMA OneRowChanges ==
  ASSUME CatalogInv, NEW i, NEW y \in {Gone, NoImage} \cup (Image \ Referenced),
         row' = [row EXCEPT ![i] = y]
  PROVE  \/ Referenced' = Referenced
         \/ \E v \in Image \ Referenced : Referenced' = Referenced \cup {v}
         \/ \E v \in Referenced : Referenced' = Referenced \ {v}
         \/ \E v \in Referenced, w \in Image \ Referenced :
              Referenced' = (Referenced \ {v}) \cup {w}
  <1> DEFINE Others == {row[j] : j \in {k \in Existing : k # i}} \ {NoImage}
             New == {y} \ {Gone, NoImage}
             x == row[i]
  <1>1. row \in [Item -> Name \cup {Gone}]
    BY DEF CatalogInv, CatalogTypeOK
  <1>2. CASE i \notin Item
    <2>1. row' = row
      BY <1>1, <1>2
    <2> QED BY <2>1, SameRows
  <1>3. CASE i \in Item
    <2>1. row'[i] = y /\ \A j \in Item : j # i => row'[j] = row[j]
      BY <1>1, <1>3
    <2>2. Referenced' = Others \cup New
      BY <1>3, <2>1, CatalogAssumption DEF Referenced, Existing
    <2>3. CASE x \in {Gone, NoImage}
      <3>1. Referenced = Others
        BY <1>3, <2>3, CatalogAssumption DEF Referenced, Existing
      <3>2. CASE y \in {Gone, NoImage}
        <4>1. New = {}
          BY <3>2
        <4> QED BY <2>2, <3>1, <4>1
      <3>3. CASE y \in Image \ Referenced
        <4>1. New = {y}
          BY <3>3, CatalogAssumption
        <4> QED BY <2>2, <3>1, <3>3, <4>1
      <3> QED BY <3>2, <3>3
    <2>4. CASE x \notin {Gone, NoImage}
      <3>1. Referenced = Others \cup {x} /\ x \in Referenced
        BY <1>3, <2>4, CatalogAssumption DEF Referenced, Existing
      <3>2. x \notin Others
        BY <1>3, <2>4 DEF CatalogInv, NoSharedImage, Existing
      <3>3. Others = Referenced \ {x}
        BY <3>1, <3>2
      <3>4. CASE y \in {Gone, NoImage}
        <4>1. New = {}
          BY <3>4
        <4> QED BY <2>2, <3>1, <3>3, <4>1
      <3>5. CASE y \in Image \ Referenced
        <4>1. New = {y}
          BY <3>5, CatalogAssumption
        <4>2. Referenced' = (Referenced \ {x}) \cup {y}
          BY <2>2, <3>3, <4>1
        <4> QED BY <3>1, <3>5, <4>2
      <3> QED BY <3>4, <3>5
    <2> QED BY <2>3, <2>4
  <1> QED BY <1>2, <1>3

\* What a committed request has stored is in no row yet.
LEMMA FreshIsUnnamed ==
  ASSUME CatalogInv, NEW r \in Request, request[r].step = "saved"
  PROVE  request[r].fresh \in {Gone, NoImage} \cup (Image \ Referenced)
  <1>1. request[r].fresh \in Name
    BY RequestShape DEF CatalogInv, Idle, RequestState
  <1> QED BY <1>1 DEF CatalogInv, UploadIsUnnamed, Name

LEMMA RequestIsChange ==
  ASSUME CatalogInv, CatalogNext
  PROVE  \/ Referenced' = Referenced
         \/ \E v \in Image \ Referenced : Referenced' = Referenced \cup {v}
         \/ \E v \in Referenced : Referenced' = Referenced \ {v}
         \/ \E v \in Referenced, w \in Image \ Referenced :
              Referenced' = (Referenced \ {v}) \cup {w}
  <1>1. CASE row' = row
    BY <1>1, SameRows
  <1>2. ASSUME NEW i, NEW y \in {Gone, NoImage} \cup (Image \ Referenced),
               row' = [row EXCEPT ![i] = y]
        PROVE  \/ Referenced' = Referenced
               \/ \E v \in Image \ Referenced : Referenced' = Referenced \cup {v}
               \/ \E v \in Referenced : Referenced' = Referenced \ {v}
               \/ \E v \in Referenced, w \in Image \ Referenced :
                    Referenced' = (Referenced \ {v}) \cup {w}
    BY <1>2, OneRowChanges
  <1>3. ASSUME NEW r \in Request,
               CommitCreate(r) \/ CommitUpdate(r) \/ CommitDelete(r), row' # row
        PROVE  \E i : \E y \in {Gone, NoImage} \cup (Image \ Referenced) :
                 row' = [row EXCEPT ![i] = y]
    <2>1. request[r].step = "saved"
      BY <1>3 DEF CommitCreate, CommitUpdate, CommitDelete, At
    <2>2. request[r].fresh \in {Gone, NoImage} \cup (Image \ Referenced)
      BY <2>1, FreshIsUnnamed
    <2>3. CASE CommitCreate(r)
      BY <2>2, <2>3 DEF CommitCreate
    <2>4. CASE CommitUpdate(r)
      BY <1>3, <2>2, <2>4 DEF CommitUpdate
    <2>5. CASE CommitDelete(r)
      BY <2>5 DEF CommitDelete
    <2> QED BY <1>3, <2>3, <2>4, <2>5
  <1>4. ASSUME NEW r \in Request,
               \/ StartCreate(r)
               \/ \E i \in Item : StartUpdate(r, i) \/ StartDelete(r, i)
               \/ \E name \in Name, remove \in BOOLEAN : Save(r, name, remove)
               \/ RejectUpload(r) \/ EnterDelete(r) \/ AlreadyDeleted(r) \/ CommitFails(r)
               \/ \E removed \in BOOLEAN : Cleanup(r, removed)
        PROVE  row' = row
    BY <1>4, Zenon
       DEF StartCreate, StartUpdate, StartDelete, Save, RejectUpload, EnterDelete,
           AlreadyDeleted, CommitFails, Cleanup
  <1>5. CASE CrashWeb
    BY <1>1, <1>5 DEF CrashWeb
  <1>6. CASE row' # row
    <2>1. \E r \in Request : CommitCreate(r) \/ CommitUpdate(r) \/ CommitDelete(r)
      BY <1>4, <1>5, <1>6, Zenon DEF CatalogNext, CrashWeb
    <2>2. \E i : \E y \in {Gone, NoImage} \cup (Image \ Referenced) :
            row' = [row EXCEPT ![i] = y]
      BY <1>3, <1>6, <2>1
    <2> QED BY <1>2, <2>2
  <1> QED BY <1>1, <1>6

-----------------------------------------------------------------------------
(* What ArchiveStore sees of a backup and of an archive *)

SnapshotOf(b) == [images |-> backup[b].refs, at |-> backup[b].written]

LEMMA SnapshotsAreNotIdle ==
  ASSUME NEW b
  PROVE  SnapshotOf(b) # Idle
  <1>1. DOMAIN SnapshotOf(b) = {"images", "at"} /\ DOMAIN Idle = {"step"}
    BY DEF SnapshotOf, Idle
  <1> QED BY <1>1

\* Only b's snapshot depends on b's record.
LEMMA TakenAfter ==
  ASSUME NEW b \in Backup, \A c \in Backup : c # b => backup'[c] = backup[c],
         NEW v, v = IF backup'[b].step = "staged" THEN SnapshotOf(b)' ELSE Idle
  PROVE  SnapshotsTaken' = [SnapshotsTaken EXCEPT ![b] = v]
  <1>1. \A c \in Backup : c # b => SnapshotsTaken'[c] = SnapshotsTaken[c]
    BY DEF SnapshotsTaken, On
  <1>2. SnapshotsTaken'[b] = v
    BY DEF SnapshotsTaken, On, SnapshotOf
  <1>3. /\ DOMAIN SnapshotsTaken = Backup /\ DOMAIN SnapshotsTaken' = Backup
        /\ SnapshotsTaken = [c \in Backup |-> SnapshotsTaken[c]]
        /\ SnapshotsTaken' = [c \in Backup |-> SnapshotsTaken'[c]]
    BY DEF SnapshotsTaken
  <1> HIDE DEF SnapshotsTaken
  <1> QED BY <1>1, <1>2, <1>3

LEMMA TakenSame ==
  ASSUME NEW b \in Backup, \A c \in Backup : c # b => backup'[c] = backup[c],
         ~On(b, "staged"), ~(On(b, "staged")')
  PROVE  SnapshotsTaken' = SnapshotsTaken
  BY DEF SnapshotsTaken, On

RestoredFrom(n) == [images |-> archives[n].images, at |-> archives[n].mtime]

LEMMA RestorableAfter ==
  ASSUME NEW n \in ArchiveName, \A m \in ArchiveName : m # n => archives'[m] = archives[m],
         NEW v, v = IF archives'[n] # Absent /\ archives'[n].verified
                    THEN RestoredFrom(n)' ELSE Absent
  PROVE  Restorable' = [Restorable EXCEPT ![n] = v]
  <1>1. \A m \in ArchiveName : m # n => Restorable'[m] = Restorable[m]
    BY DEF Restorable
  <1>2. Restorable'[n] = v
    BY DEF Restorable, RestoredFrom
  <1>3. /\ Restorable = [m \in ArchiveName |-> Restorable[m]]
        /\ Restorable' = [m \in ArchiveName |-> Restorable'[m]]
    BY DEF Restorable
  <1> HIDE DEF Restorable
  <1> QED BY <1>1, <1>2, <1>3

LEMMA RestorableSame ==
  ASSUME NEW n \in ArchiveName, \A m \in ArchiveName : m # n => archives'[m] = archives[m],
         archives[n] = Absent \/ ~archives[n].verified,
         archives'[n] = Absent \/ ~archives'[n].verified
  PROVE  Restorable' = Restorable
  BY DEF Restorable

-----------------------------------------------------------------------------
(* Every step is a step of ArchiveStore, or none *)

Stutters == UNCHANGED <<Referenced, SnapshotsTaken, Restorable, clock>>

LEMMA StutterMaps ==
  ASSUME Stutters
  PROVE  [Store!Next]_(Store!vars)
  BY DEF Stutters, Store!vars

LEMMA CatalogMaps ==
  ASSUME CatalogInv, CatalogNext, UNCHANGED <<archives, clock, backup, started, abandoned>>
  PROVE  [Store!Next]_(Store!vars)
  <1>1. SnapshotsTaken' = SnapshotsTaken /\ Restorable' = Restorable /\ clock' = clock
    BY DEF SnapshotsTaken, Restorable, On
  <1>2. Referenced' = Referenced \/ Store!Change
    BY <1>1, RequestIsChange DEF Store!Change
  <1> QED BY <1>1, <1>2 DEF Store!Next, Store!vars

LEMMA CopyImagesMaps ==
  ASSUME IInv, NEW b \in Backup, CopyImages(b)
  PROVE  Store!Snapshot(b)
  <1>1. /\ On(b, "copied") /\ UNCHANGED <<archives, clock>> /\ Referenced' = Referenced
    BY BackupsLeaveRows DEF CopyImages
  <1>2. /\ \A c \in Backup : c # b => backup'[c] = backup[c]
        /\ backup'[b].step = "staged" /\ backup'[b].refs = backup[b].refs
        /\ backup'[b].written = clock
    BY CopiedImages DEF IInv, NamesInv
  <1>3. SnapshotOf(b)' = [images |-> Referenced, at |-> clock]
    BY <1>1, <1>2 DEF SnapshotOf, IInv, CopiedIsCurrent
  <1>4. SnapshotsTaken' = [SnapshotsTaken EXCEPT ![b] = [images |-> Referenced, at |-> clock]]
    BY <1>2, <1>3, TakenAfter
  <1>5. SnapshotsTaken[b] = Idle
    BY <1>1 DEF SnapshotsTaken, On
  <1>6. Restorable' = Restorable
    BY <1>1 DEF Restorable
  <1> QED BY <1>1, <1>4, <1>5, <1>6 DEF Store!Snapshot

LEMMA PublishMaps ==
  ASSUME IInv, NEW b \in Backup, Publish(b)
  PROVE  \E n \in ArchiveName : Store!Store(b, n)
  <1> DEFINE new == [verified |-> TRUE, images |-> backup[b].refs, mtime |-> backup[b].written]
  <1>1. /\ On(b, "staged") /\ b \in Named /\ clock' = clock /\ Referenced' = Referenced
        /\ archives' = [archives EXCEPT ![backup[b].name] = new]
        /\ backup' = [backup EXCEPT ![b] = Idle]
    BY BackupsLeaveRows DEF Publish, On, Named
  <1>2. PICK n \in ArchiveName : n = backup[b].name
    BY <1>1, NamedBackup DEF IInv
  <1>3. ~archives[n].verified
    BY <1>1, <1>2 DEF IInv, NamesInv, NamesReserved
  <1>4. /\ backup'[b].step = "idle" /\ \A c \in Backup : c # b => backup'[c] = backup[c]
    BY <1>1, EndedBackup DEF IInv, NamesInv
  <1>5. /\ archives'[n] = new /\ \A m \in ArchiveName : m # n => archives'[m] = archives[m]
    BY <1>1, <1>2 DEF IInv, NamesInv, BackupTypeOK
  <1>6. new.verified /\ new # Absent /\ [images |-> new.images, at |-> new.mtime] = SnapshotOf(b)
    <2>1. backup[b].refs \in SUBSET Image /\ backup[b].written \in Time
      BY <1>1, NamedBackup DEF IInv
    <2>2. new \in Archive
      BY <2>1, SMT DEF Archive
    <2> QED BY <2>2, ArchiveAssumption DEF SnapshotOf
  <1> HIDE DEF new
  <1>7. RestoredFrom(n)' = SnapshotOf(b)
    BY <1>5, <1>6 DEF RestoredFrom
  <1>8. Restorable' = [Restorable EXCEPT ![n] = SnapshotOf(b)]
    BY <1>5, <1>6, <1>7, RestorableAfter
  <1>9. SnapshotsTaken[b] = SnapshotOf(b)
    BY <1>1 DEF SnapshotsTaken, SnapshotOf
  <1>10. SnapshotsTaken' = [SnapshotsTaken EXCEPT ![b] = Idle]
    BY <1>4, TakenAfter
  <1>11. Restorable[n] = Absent
    BY <1>3 DEF Restorable
  <1>12. SnapshotsTaken[b] # Idle
    BY <1>9, SnapshotsAreNotIdle
  <1>13. Store!Store(b, n)
    BY <1>1, <1>8, <1>9, <1>10, <1>11, <1>12 DEF Store!Store
  <1> QED BY <1>13

\* A backup ends or fails without publishing.
LEMMA DiscardMaps ==
  ASSUME NEW b \in Backup, \A c \in Backup : c # b => backup'[c] = backup[c],
         backup'[b].step # "staged",
         Referenced' = Referenced, Restorable' = Restorable, clock' = clock
  PROVE  Store!Discard(b) \/ Stutters
  <1>1. CASE On(b, "staged")
    <2>1. SnapshotsTaken[b] = SnapshotOf(b)
      BY <1>1 DEF SnapshotsTaken, SnapshotOf
    <2>2. SnapshotsTaken' = [SnapshotsTaken EXCEPT ![b] = Idle]
      BY TakenAfter
    <2>3. SnapshotsTaken[b] # Idle
      BY <2>1, SnapshotsAreNotIdle
    <2> QED BY <2>2, <2>3 DEF Store!Discard
  <1>2. CASE ~On(b, "staged")
    <2>1. SnapshotsTaken' = SnapshotsTaken
      BY <1>2, TakenSame DEF On
    <2> QED BY <2>1 DEF Stutters
  <1> QED BY <1>1, <1>2

LEMMA OtherStepsMap ==
  ASSUME IInv, NEW b \in Backup,
         \/ StartBackup(b) \/ Reserve(b) \/ CopyDatabase(b)
         \/ BackupFails(b) \/ GiveBack(b) \/ KillBackup(b)
  PROVE  Store!Discard(b) \/ Stutters
  <1>1. Referenced' = Referenced /\ \A c \in Backup : c # b => backup'[c] = backup[c]
    BY BackupsLeaveRows, OthersKept DEF IInv
  <1>2. clock' = clock
    BY DEF StartBackup, Reserve, CopyDatabase, BackupFails, GiveBack, KillBackup
  <1>3. backup'[b].step # "staged"
    <2>1. CASE StartBackup(b)
      BY <2>1, Started DEF IInv, NamesInv
    <2>2. CASE Reserve(b)
      BY <2>2, Reserved DEF IInv, NamesInv
    <2>3. CASE CopyDatabase(b)
      BY <2>3, CopiedDatabase, ReferencedAreImages DEF IInv, NamesInv
    <2>4. CASE BackupFails(b) /\ ~On(b, "waiting")
      BY <2>4, FailedBackup DEF IInv, NamesInv
    <2>5. CASE GiveBack(b) \/ KillBackup(b) \/ (BackupFails(b) /\ On(b, "waiting"))
      <3>1. backup' = [backup EXCEPT ![b] = Idle]
        BY <2>5 DEF GiveBack, KillBackup, BackupFails
      <3> QED BY <3>1, EndedBackup DEF IInv, NamesInv
    <2> QED BY <2>1, <2>2, <2>3, <2>4, <2>5
  <1>4. Restorable' = Restorable
    <2>1. archives \in [ArchiveName -> Archive \cup {Absent}]
      BY DEF IInv, NamesInv, BackupTypeOK
    <2>2. CASE Reserve(b)
      <3>1. /\ backup'[b].name \in ArchiveName /\ archives[backup'[b].name] = Absent
            /\ archives' = [archives EXCEPT ![backup'[b].name] = Placeholder]
        BY <2>2, Reserved DEF IInv, NamesInv
      <3>2. PICK n \in ArchiveName : n = backup'[b].name
        BY <3>1
      <3>3. ~Placeholder.verified
        BY DEF Placeholder
      <3>4. archives'[n] = Placeholder /\ \A m \in ArchiveName : m # n => archives'[m] = archives[m]
        BY <2>1, <3>1, <3>2
      <3> QED BY <3>1, <3>2, <3>3, <3>4, RestorableSame
    <2>3. CASE GiveBack(b)
      <3>1. b \in Named /\ archives' = [archives EXCEPT ![backup[b].name] = Absent]
        BY <2>3 DEF GiveBack, On, Named, Removed
      <3>2. PICK n \in ArchiveName : n = backup[b].name
        BY <3>1, NamedBackup DEF IInv
      <3>3. ~archives[n].verified
        BY <3>1, <3>2 DEF IInv, NamesInv, NamesReserved
      <3>4. archives'[n] = Absent /\ \A m \in ArchiveName : m # n => archives'[m] = archives[m]
        BY <2>1, <3>1, <3>2
      <3> QED BY <3>3, <3>4, RestorableSame
    <2>4. CASE StartBackup(b) \/ CopyDatabase(b) \/ BackupFails(b) \/ KillBackup(b)
      <3>1. archives' = archives
        BY <2>4 DEF StartBackup, CopyDatabase, BackupFails, KillBackup
      <3> QED BY <3>1 DEF Restorable
    <2> QED BY <2>2, <2>3, <2>4
  <1> QED BY <1>1, <1>2, <1>3, <1>4, DiscardMaps

LEMMA PruneMaps ==
  ASSUME IInv, NEW n \in ArchiveName, Prune(n)
  PROVE  Store!Expire(n) \/ Stutters
  <1>1. /\ archives[n] # Absent /\ archives[n].mtime + Retention < clock
        /\ archives' = [archives EXCEPT ![n] = Absent]
        /\ clock' = clock /\ backup' = backup /\ row' = row
    BY DEF Prune, Expired, catalog
  <1>2. archives'[n] = Absent /\ \A m \in ArchiveName : m # n => archives'[m] = archives[m]
    BY <1>1 DEF IInv, NamesInv, BackupTypeOK
  <1>3. SnapshotsTaken' = SnapshotsTaken /\ Referenced' = Referenced
    BY <1>1, SameRows DEF SnapshotsTaken, On
  <1>4. CASE archives[n].verified
    <2>1. Restorable[n] = RestoredFrom(n)
      BY <1>1, <1>4 DEF Restorable, RestoredFrom
    <2>2. Restorable' = [Restorable EXCEPT ![n] = Absent]
      BY <1>2, RestorableAfter
    <2>3. RestoredFrom(n) # Absent /\ RestoredFrom(n).at = archives[n].mtime
      <3>1. archives[n] \in Archive
        BY <1>1 DEF IInv, NamesInv, BackupTypeOK
      <3>2. archives[n].images \in SUBSET Image /\ archives[n].mtime \in Time
        BY <3>1, Zenon DEF Archive
      <3>3. RestoredFrom(n) \in [images : SUBSET Image, at : Time]
        BY <3>2, SMT DEF RestoredFrom
      <3> QED BY <3>3, ArchiveAssumption DEF RestoredFrom
    <2> HIDE DEF RestoredFrom
    <2> QED BY <1>1, <1>3, <2>1, <2>2, <2>3 DEF Store!Expire
  <1>5. CASE ~archives[n].verified
    <2>1. Restorable' = Restorable
      BY <1>2, <1>5, RestorableSame
    <2> QED BY <1>1, <1>3, <2>1 DEF Stutters
  <1> QED BY <1>4, <1>5

LEMMA TickMaps ==
  ASSUME Tick
  PROVE  Store!Tick
  <1>1. clock' = clock + 1 /\ archives' = archives /\ backup' = backup /\ row' = row
    BY DEF Tick, catalog
  <1>2. SnapshotsTaken' = SnapshotsTaken /\ Restorable' = Restorable /\ Referenced' = Referenced
    BY <1>1, SameRows DEF SnapshotsTaken, Restorable, On
  <1> QED BY <1>1, <1>2 DEF Store!Tick

LEMMA StepMaps == IInv /\ [Next]_vars => [Store!Next]_(Store!vars)
  <1> SUFFICES ASSUME IInv, [Next]_vars PROVE [Store!Next]_(Store!vars)
    OBVIOUS
  <1>1. CASE CatalogNext /\ UNCHANGED <<archives, clock, backup, started, abandoned>>
    BY <1>1, CatalogMaps DEF IInv, BackupInv
  <1>2. ASSUME NEW b \in Backup,
               \/ StartBackup(b) \/ Reserve(b) \/ CopyDatabase(b)
               \/ BackupFails(b) \/ GiveBack(b) \/ KillBackup(b)
        PROVE  [Store!Next]_(Store!vars)
    <2>1. Store!Discard(b) \/ Stutters
      BY <1>2, OtherStepsMap
    <2> QED BY <2>1, StutterMaps DEF Store!Next, Backup
  <1>3. ASSUME NEW b \in Backup, CopyImages(b)
        PROVE  [Store!Next]_(Store!vars)
    BY <1>3, CopyImagesMaps DEF Store!Next, Backup
  <1>4. ASSUME NEW b \in Backup, Publish(b)
        PROVE  [Store!Next]_(Store!vars)
    BY <1>4, PublishMaps DEF Store!Next, Backup
  <1>5. ASSUME NEW n \in ArchiveName, Prune(n)
        PROVE  [Store!Next]_(Store!vars)
    <2>1. Store!Expire(n) \/ Stutters
      BY <1>5, PruneMaps
    <2> QED BY <2>1, StutterMaps DEF Store!Next
  <1>6. CASE Tick
    BY <1>6, TickMaps DEF Store!Next
  <1>7. CASE UNCHANGED vars
    <2>1. Stutters
      BY <1>7, SameRows DEF vars, catalog, Stutters, SnapshotsTaken, Restorable, On
    <2> QED BY <2>1, StutterMaps
  <1> QED BY <1>1, <1>2, <1>3, <1>4, <1>5, <1>6, <1>7, Zenon DEF Next

LEMMA InitMaps == Init => Store!Init
  <1> SUFFICES ASSUME Init PROVE Store!Init
    OBVIOUS
  <1>1. Referenced = {}
    BY DEF Init, CatalogInit, Referenced, Existing
  <1>2. SnapshotsTaken = [b \in Process |-> Idle]
    BY DEF Init, SnapshotsTaken, On, Idle, Backup
  <1>3. Restorable = [n \in ArchiveName |-> Absent]
    BY DEF Init, Restorable
  <1> QED BY <1>1, <1>2, <1>3 DEF Init, Store!Init

\* create_backup and prune_backups beside the requests that change images: an
\* archive is a snapshot of one instant, and only age removes it.
THEOREM Refinement == Spec => ArchivesAreSnapshots
  <1>1. IInv /\ [Next]_vars => [Store!Next]_(Store!vars)
    BY StepMaps
  <1> QED BY <1>1, InitMaps, IInvInvariant, PTL DEF Spec, ArchivesAreSnapshots, Store!Spec
=============================================================================
