------------------------------- MODULE Backups -------------------------------
(***************************************************************************)
(* create_backup and prune_backups (app/backups.py) beside the requests of *)
(* CatalogImages.  A backup holds the snapshot lock while it reserves the  *)
(* archive's name with an empty file, copies the database and copies the   *)
(* images that copy names; it verifies and publishes without the lock.     *)
(* Backups may run at the same time, fail at any step and be killed.       *)
(***************************************************************************)
EXTENDS CatalogImages

CONSTANTS
  MaxClock,   \* bound
  MaxBackups, \* bound: backups ever started
  Retention,  \* retention_days, in ticks of the clock
  Absent      \* no archive has this name

ASSUME BackupAssumption ==
  /\ MaxClock \in Nat /\ MaxBackups \in Nat
  /\ Retention \in Nat \ {0}

Backup == Process
Time == 0..MaxClock

\* venue-inventory-<stamp>[-<number>].tar.gz
ArchiveName == Time \X (1..MaxBackups)

VARIABLES
  archives,  \* the backup root
  clock,
  backup,    \* the backups being made
  started,   \* history: backups started so far
  abandoned  \* history: names whose backup was killed

vars == <<catalog, archives, clock, backup, started, abandoned>>

Archive == [verified : BOOLEAN, images : SUBSET Image, mtime : Time]

\* Absent is not an archive, nor what ArchiveStore keeps of one.
ASSUME ArchiveAssumption ==
  Absent \notin Archive \cup [images : SUBSET Image, at : Time]

Placeholder == [verified |-> FALSE, images |-> {}, mtime |-> clock]

\* refs: image names in the copied database; written: when the temporary archive was.
Running(step, stamp) ==
  [step |-> step, stamp |-> stamp, name |-> <<stamp, 1>>, refs |-> {}, written |-> stamp]

\* reserved: has the lock and a name; copied: has the database too; staged: the
\* temporary archive is complete; failed: the name is still to be given back.
BackupState ==
  [step : {"waiting", "reserved", "copied", "staged", "failed"}, stamp : Time,
   name : ArchiveName, refs : SUBSET Image, written : Time]

On(b, step) == backup[b].step = step

\* The backups that have a name.
Named == {b \in Backup : backup[b].step \in {"reserved", "copied", "staged", "failed"}}

Init ==
  /\ CatalogInit
  /\ archives = [n \in ArchiveName |-> Absent]
  /\ clock = 0
  /\ backup = [b \in Backup |-> Idle]
  /\ started = 0
  /\ abandoned = {}

-----------------------------------------------------------------------------
\* The timestamp is taken before the lock.
StartBackup(b) ==
  /\ On(b, "idle") /\ started < MaxBackups
  /\ backup' = [backup EXCEPT ![b] = Running("waiting", clock)]
  /\ started' = started + 1
  /\ UNCHANGED <<catalog, archives, clock, abandoned>>

\* Mutant of FirstFree: a published archive does not take its name.
FirstUnreserved(stamp) ==
  CHOOSE k \in 1..MaxBackups :
    /\ archives[<<stamp, k>>] = Absent \/ archives[<<stamp, k>>].verified
    /\ \A j \in 1..(k - 1) :
         archives[<<stamp, j>>] # Absent /\ ~archives[<<stamp, j>>].verified

\* _next_archive_name: the first number whose name is free.
FirstFree(stamp) ==
  CHOOSE k \in 1..MaxBackups :
    /\ archives[<<stamp, k>>] = Absent
    /\ \A j \in 1..(k - 1) : archives[<<stamp, j>>] # Absent

\* _reserve_next_archive
Reserve(b) ==
  LET stamp == backup[b].stamp
      name == <<stamp, FirstFree(stamp)>>
  IN /\ On(b, "waiting")
     /\ lock = Nobody /\ lock' = b
     /\ archives' = [archives EXCEPT ![name] = Placeholder]
     /\ backup' = [backup EXCEPT ![b].step = "reserved", ![b].name = name]
     /\ UNCHANGED <<row, files, request, used, clock, started, abandoned>>

\* Mutant of InDatabase: rows without an image are not filtered out.
InDatabaseWithNull == {row[i] : i \in Existing}

InDatabase == Referenced

\* _sqlite_online_backup and _referenced_image_filenames of the copy
CopyDatabase(b) ==
  /\ On(b, "reserved")
  /\ backup' = [backup EXCEPT ![b].step = "copied", ![b].refs = InDatabase]
  /\ UNCHANGED <<catalog, archives, clock, started, abandoned>>

\* _copy_referenced_images and _write_archive; the end of the lock's scope.
CopyImages(b) ==
  /\ On(b, "copied")
  /\ backup[b].refs \subseteq files
  /\ lock' = Nobody
  /\ backup' = [backup EXCEPT ![b].step = "staged", ![b].written = clock]
  /\ UNCHANGED <<row, files, request, used, archives, clock, started, abandoned>>

\* verify_backup has passed; os.replace puts the archive over the reserved name.
Publish(b) ==
  /\ On(b, "staged")
  /\ archives' = [archives EXCEPT ![backup[b].name] =
                    [verified |-> TRUE, images |-> backup[b].refs, mtime |-> backup[b].written]]
  /\ backup' = [backup EXCEPT ![b] = Idle]
  /\ UNCHANGED <<catalog, clock, started, abandoned>>

Released(b) == IF lock = b THEN Nobody ELSE lock

\* An exception before os.replace, a referenced image that is missing among
\* them.  The lock is released before the name is given back.
BackupFails(b) ==
  /\ backup[b].step \in {"waiting", "reserved", "copied", "staged"}
  /\ lock' = Released(b)
  /\ backup' = IF On(b, "waiting") THEN [backup EXCEPT ![b] = Idle]
               ELSE [backup EXCEPT ![b].step = "failed"]
  /\ UNCHANGED <<row, files, request, used, archives, clock, started, abandoned>>

\* Mutant of Removed: the finally block forgets the reserved name.
NotRemoved(name) == archives

Removed(name) == [archives EXCEPT ![name] = Absent]

\* published.unlink in the finally block
GiveBack(b) ==
  /\ On(b, "failed")
  /\ archives' = Removed(backup[b].name)
  /\ backup' = [backup EXCEPT ![b] = Idle]
  /\ UNCHANGED <<catalog, clock, started, abandoned>>

\* The process is killed; the kernel releases its lock.
KillBackup(b) ==
  /\ ~On(b, "idle")
  /\ lock' = Released(b)
  /\ backup' = [backup EXCEPT ![b] = Idle]
  /\ abandoned' = IF b \in Named THEN abandoned \cup {backup[b].name} ELSE abandoned
  /\ UNCHANGED <<row, files, request, used, archives, clock, started>>

\* Mutant of Expired: the cutoff itself is pruned.
ExpiredAtCutoff(name) == archives[name].mtime + Retention <= clock

Expired(name) == archives[name].mtime + Retention < clock

\* One file of prune_backups.  It knows archives by their names alone.
Prune(name) ==
  /\ archives[name] # Absent /\ Expired(name)
  /\ archives' = [archives EXCEPT ![name] = Absent]
  /\ abandoned' = abandoned \ {name}
  /\ UNCHANGED <<catalog, clock, backup, started>>

\* Bound: a backup takes no longer than the retention time.
Tick ==
  /\ clock < MaxClock
  /\ \A b \in {b \in Backup : ~On(b, "idle")} : clock < backup[b].stamp + Retention
  /\ clock' = clock + 1
  /\ UNCHANGED <<catalog, archives, backup, started, abandoned>>

-----------------------------------------------------------------------------
Next ==
  \/ CatalogNext /\ UNCHANGED <<archives, clock, backup, started, abandoned>>
  \/ \E b \in Backup :
       \/ StartBackup(b) \/ Reserve(b) \/ CopyDatabase(b) \/ CopyImages(b) \/ Publish(b)
       \/ BackupFails(b) \/ GiveBack(b) \/ KillBackup(b)
  \/ \E name \in ArchiveName : Prune(name)
  \/ Tick

Spec == Init /\ [][Next]_vars

-----------------------------------------------------------------------------
(* Properties *)

\* Every variable has its type.
BackupTypeOK ==
  /\ archives \in [ArchiveName -> Archive \cup {Absent}]
  /\ clock \in Time
  /\ backup \in [Backup -> BackupState \cup {Idle}]
  /\ started \in 0..MaxBackups
  /\ abandoned \subseteq ArchiveName

\* snapshot_lock: no request moves an image between a backup's copy of the
\* database and its copy of the images, so a backup is never refused for a
\* missing image and holds every image its database names.
CopyFindsItsImages == \A b \in Backup : On(b, "copied") => backup[b].refs \subseteq files

\* A verified archive is never overwritten or removed, by another backup of the
\* same second or by a failed one's cleanup; only pruning after Retention takes it.
VerifiedArchivesStay ==
  [][\A name \in ArchiveName :
       LET archive == archives[name]
       IN archive # Absent /\ archive.verified =>
            \/ archives'[name] = archive
            \/ archives'[name] = Absent /\ clock > archive.mtime + Retention]_vars

\* A running backup's name is its own and still reserved, and an empty file
\* under an archive's name belongs to a running backup or to a killed one.
ReservedNamesAreOwned ==
  LET Empty == {name \in ArchiveName : archives[name] # Absent /\ ~archives[name].verified}
  IN /\ \A b, c \in Named : b # c => backup[b].name # backup[c].name
     /\ {backup[b].name : b \in Named} \subseteq Empty
     /\ Empty \subseteq {backup[b].name : b \in Named} \cup abandoned

\* The promise of a backup and of pruning: an archive is a snapshot of one
\* instant, although the database and the images are copied one after the other
\* and archived later, beside requests that change both.
SnapshotsTaken ==
  [b \in Backup |->
    IF On(b, "staged") THEN [images |-> backup[b].refs, at |-> backup[b].written] ELSE Idle]

Restorable ==
  [n \in ArchiveName |->
    IF archives[n] # Absent /\ archives[n].verified
    THEN [images |-> archives[n].images, at |-> archives[n].mtime] ELSE Absent]

Store == INSTANCE ArchiveStore WITH
  NotTaken <- Idle, named <- Referenced, taken <- SnapshotsTaken, archives <- Restorable

ArchivesAreSnapshots == Store!Spec
=============================================================================
