------------------------------- MODULE Restore -------------------------------
(***************************************************************************)
(* Live restore: scripts/restore-vps.sh, which stops the web container and *)
(* runs restore_backup and, if the restored data does not come up healthy, *)
(* rollback_restore (app/backups.py).  Both rename the files of the data   *)
(* directory one at a time; a rename may fail, which their exception       *)
(* handlers undo by more renames, and the command may be killed between    *)
(* two of them.  The script ignores a `docker compose stop` that fails     *)
(* before a rollback, and an `up` that fails after one.                    *)
(***************************************************************************)
EXTENDS Integers, Sequences

CONSTANTS
  MaxFailures, \* bound: renames and other calls that raise OSError
  MaxKills     \* bound: commands killed

ASSUME RestoreAssumption == MaxFailures \in Nat /\ MaxKills \in Nat

\* Mutant of StateNames: without SQLite's own files.
DurableNames == <<"database", "images">>

\* _state_names, in the order of the loops
StateNames == <<"database", "wal", "shm", "images">>

File == {"database", "wal", "shm", "images"}

\* What a file belongs to: the state before the restore, the archive, or a
\* database and image directory that the application made because it found none.
Content == {"none", "old", "new", "fresh"}

\* The data directory itself, .restore-prior-*, .restore-failed-*, .restore-stage-*
Place == {"live", "prior", "aside", "stage"}

Nothing == [f \in File |-> "none"]
Archived == [Nothing EXCEPT !["database"] = "new", !["images"] = "new"]

VARIABLES
  dir,      \* the files of each place
  web,      \* the web container runs
  script,   \* the step restore-vps.sh is at
  command,  \* the restore or rollback it runs
  old,      \* history: the files found when the web container had stopped
  failures, \* history: OSErrors so far
  kills     \* history: kills so far

vars == <<dir, web, script, command, old, failures, kills>>

\* next: the turn of the loops, counted through all of them; moved (or
\* moved_current) and installed: the lists that the handlers go by, as sets.
CommandState ==
  [name : {"none", "restore", "rollback"}, phase : {"none", "apply", "undo"},
   next : 1..(2 * Len(StateNames) + 1), moved : SUBSET File, installed : SUBSET File]

NoCommand ==
  [name |-> "none", phase |-> "none", next |-> 1, moved |-> {}, installed |-> {}]

-----------------------------------------------------------------------------
(* The loops of the two functions, turn by turn *)

All(from, to) ==
  [k \in 1..Len(StateNames) |-> [file |-> StateNames[k], from |-> from, to |-> to]]

Installs ==
  <<[file |-> "database", from |-> "stage", to |-> "live"],
    [file |-> "images", from |-> "stage", to |-> "live"]>>

RestoreMoves == All("live", "prior") \o Installs

\* Mutant of RollbackMoves: the restored files are not set aside.
RollbackInPlace == All("prior", "live")

RollbackMoves == All("live", "aside") \o All("prior", "live")

Uninstalls ==
  <<[file |-> "database", from |-> "live", to |-> "stage"],
    [file |-> "images", from |-> "live", to |-> "stage"]>>

\* Mutant of UndoRestore: the handler forgets the moved files.
UndoInstalled == Uninstalls

\* The handlers: the installed files go back to the stage, the moved ones to the
\* data directory;
UndoRestore == Uninstalls \o All("prior", "live")

\* every file of the data directory goes to the prior directory, then the files
\* set aside return.
UndoRollback == All("live", "prior") \o All("aside", "live")

Plan ==
  CASE command.name = "restore" /\ command.phase = "apply" -> RestoreMoves
    [] command.name = "restore" /\ command.phase = "undo" -> UndoRestore
    [] command.name = "rollback" /\ command.phase = "apply" -> RollbackMoves
    [] command.name = "rollback" /\ command.phase = "undo" -> UndoRollback
    [] OTHER -> <<>>

NextMove == Plan[command.next]
Through == command.next = Len(Plan) + 1

-----------------------------------------------------------------------------
Init ==
  /\ dir = [p \in Place |-> IF p = "live" THEN [f \in File |-> "old"] ELSE Nothing]
  /\ web = TRUE
  /\ script = "verifying"
  /\ command = NoCommand
  /\ old = [f \in File |-> "old"]
  /\ failures = 0 /\ kills = 0

-----------------------------------------------------------------------------
(* The script around the commands *)

\* A stopped SQLite has merged its WAL into the database, or left it behind.
Stopped(files) ==
  {files, [files EXCEPT !["wal"] = "none", !["shm"] = "none"]}

\* Mutant of WebStops: the script forgets to stop the web container.
WebGoesOn == web' = web

WebStops == web' = FALSE

\* verify_backup refuses the archive, or the container cannot be stopped (set -e):
\* nothing has changed.
RefuseArchive ==
  /\ script = "verifying" /\ script' = "refused"
  /\ UNCHANGED <<dir, web, command, old, failures, kills>>

StopForRestore ==
  /\ script = "verifying" /\ script' = "restoring"
  /\ WebStops
  /\ \E files \in Stopped(dir["live"]) :
       dir' = [dir EXCEPT !["live"] = files] /\ old' = files
  /\ UNCHANGED <<command, failures, kills>>

\* prepare_runtime and the first connection create what they do not find.
Started(files) ==
  LET database == IF files["database"] = "none" THEN "fresh" ELSE files["database"]
  IN [f \in File |-> CASE files[f] # "none" -> files[f]
                       [] files[f] = "none" /\ f = "images" -> "fresh"
                       [] files[f] = "none" /\ f # "images" -> database]

\* docker compose up: a new container starts; or none does, because the command
\* fails before, or because one has been running all along.
StartWeb(from, to) ==
  /\ script = from /\ script' = to
  /\ \/ /\ ~web /\ web' = TRUE
        /\ dir' = [dir EXCEPT !["live"] = Started(@)]
     \/ UNCHANGED <<web, dir>>
  /\ UNCHANGED <<command, old, failures, kills>>

\* The container is healthy and readyz answers.
Healthy ==
  /\ script = "checking" /\ script' = "restored"
  /\ web
  /\ UNCHANGED <<dir, web, command, old, failures, kills>>

\* docker compose stop web || true: if it fails, the rollback goes on beside the
\* running application.
StopForRollback ==
  /\ script = "checking" /\ script' = "rolling back"
  /\ \/ /\ WebStops
        /\ \E files \in Stopped(dir["live"]) : dir' = [dir EXCEPT !["live"] = files]
     \/ web /\ UNCHANGED <<web, dir>>
  /\ UNCHANGED <<command, old, failures, kills>>

RollingBack == {"rolling back", "starting rolled back", "rolled back"}

\* A new connection creates the database and the files of its own that it does not
\* find; uploads, which create the image directory, wait for the snapshot lock.
Connected(files) == [Started(files) EXCEPT !["images"] = files["images"]]

\* A request to an application that goes on running beside a rollback.
WebConnects ==
  /\ web /\ script \in RollingBack
  /\ dir' = [dir EXCEPT !["live"] = Connected(@)]
  /\ UNCHANGED <<web, script, command, old, failures, kills>>

\* What the script does when its command has ended.
Then(success) ==
  CASE script = "restoring" /\ success -> "starting"
    [] script = "restoring" /\ ~success -> "starting previous"
    [] script = "rolling back" -> "starting rolled back"

End(success) == command' = NoCommand /\ script' = Then(success)

-----------------------------------------------------------------------------
(* restore_backup and rollback_restore *)

Run(name) == command' = [NoCommand EXCEPT !.name = name, !.phase = "apply"]

\* The archive is extracted to the stage and validated there.
BeginRestore ==
  /\ script = "restoring" /\ command = NoCommand
  /\ dir' = [dir EXCEPT !["stage"] = Archived]
  /\ Run("restore")
  /\ UNCHANGED <<web, script, old, failures, kills>>

\* Before the first rename: the archive cannot be extracted or is not valid, or
\* the rollback cannot make its directory.
FailEarly ==
  /\ script \in {"restoring", "rolling back"} /\ command = NoCommand /\ failures < MaxFailures
  /\ failures' = failures + 1
  /\ script' = Then(FALSE)
  /\ UNCHANGED <<dir, web, command, old, kills>>

BeginRollback ==
  /\ script = "rolling back" /\ command = NoCommand
  /\ dir["prior"]["database"] # "none"
  /\ Run("rollback")
  /\ UNCHANGED <<dir, web, script, old, failures, kills>>

\* os.replace refuses to replace a directory that is not empty.
Blocked(m) == m.file = "images" /\ dir[m.to]["images"] \in {"old", "new"}

\* The loop comes to this file: the handlers go through their lists, the other
\* loops through all names.
Listed(m) ==
  command.phase = "undo" =>
    CASE m.to = "stage" -> m.file \in command.installed
      [] m.to = "live" -> m.file \in command.moved
      [] OTHER -> TRUE

Exists(m) == dir[m.from][m.file] # "none"
Due(m) == Listed(m) /\ Exists(m)

Renamed(m) ==
  [dir EXCEPT ![m.from][m.file] = "none", ![m.to][m.file] = dir[m.from][m.file]]

\* What the loop appends to its list.
Records(m, from) == IF command.phase = "apply" /\ m.from = from THEN {m.file} ELSE {}

\* One turn of a loop: rename the file if it exists.
Rename ==
  /\ command.name # "none" /\ ~Through
  /\ LET m == NextMove
     IN IF Due(m)
          THEN /\ ~Blocked(m)
               /\ dir' = Renamed(m)
               /\ command' = [command EXCEPT !.next = @ + 1,
                                             !.moved = @ \cup Records(m, "live"),
                                             !.installed = @ \cup Records(m, "stage")]
          ELSE /\ dir' = dir
               /\ command' = [command EXCEPT !.next = @ + 1]
  /\ UNCHANGED <<web, script, old, failures, kills>>

\* An OSError: of the next rename, or of the chown or fsync after the last one.
\* A second one, raised in the handler, ends the command where it stands.
Fail ==
  /\ command.name # "none"
  /\ \/ failures < MaxFailures /\ failures' = failures + 1
     \/ /\ ~Through /\ Due(NextMove) /\ Blocked(NextMove)
        /\ failures' = failures
  /\ IF command.phase = "apply"
       THEN /\ command' = [command EXCEPT !.phase = "undo", !.next = 1]
            /\ UNCHANGED <<dir, script>>
       ELSE /\ dir' = [dir EXCEPT !["stage"] = Nothing]
            /\ End(FALSE)
  /\ UNCHANGED <<web, old, kills>>

\* Mutant of Removed: a restore removes the prior directory too.
RemovedWithPrior == {"stage", "prior", "aside"}

\* A restore removes its stage; a rollback the prior and the failed directory.
Removed == IF command.name = "restore" THEN {"stage"} ELSE {"prior", "aside"}

Finish ==
  /\ command.name # "none" /\ Through /\ command.phase = "apply"
  /\ dir' = [p \in Place |-> IF p \in Removed THEN Nothing ELSE dir[p]]
  /\ End(TRUE)
  /\ UNCHANGED <<web, old, failures, kills>>

\* The handler is through: the exception leaves the command.
Raise ==
  /\ command.name # "none" /\ Through /\ command.phase = "undo"
  /\ dir' = [dir EXCEPT !["stage"] = Nothing]
  /\ End(FALSE)
  /\ UNCHANGED <<web, old, failures, kills>>

\* The command is killed; no handler runs.  The script goes on.
Kill ==
  /\ command.name # "none" /\ kills < MaxKills
  /\ kills' = kills + 1
  /\ End(FALSE)
  /\ UNCHANGED <<dir, web, old, failures>>

-----------------------------------------------------------------------------
\* The script has exited.
Exited ==
  /\ script \in {"refused", "restored", "not restored", "rolled back"}
  /\ UNCHANGED vars

Next ==
  \/ RefuseArchive \/ StopForRestore
  \/ StartWeb("starting", "checking") \/ Healthy \/ StopForRollback
  \/ StartWeb("starting previous", "not restored")
  \/ StartWeb("starting rolled back", "rolled back")
  \/ WebConnects
  \/ BeginRestore \/ BeginRollback \/ FailEarly
  \/ Rename \/ Fail \/ Finish \/ Raise \/ Kill
  \/ Exited

Spec == Init /\ [][Next]_vars

-----------------------------------------------------------------------------
(* Properties *)

\* Every variable has its type, and from the stop of the web container to the next
\* start a restore has the data directory for itself ("stops the application",
\* docs/deployment.md).  A rollback, whose stop may fail, has not.
TypeOK ==
  /\ dir \in [Place -> [File -> Content]]
  /\ old \in [File -> Content]
  /\ web \in BOOLEAN
  /\ script \in RollingBack \cup {"verifying", "refused", "restoring", "starting", "checking",
                                  "restored", "starting previous", "not restored"}
  /\ script \in {"restoring", "starting", "starting previous"} => ~web
  /\ command \in CommandState
  /\ command # NoCommand =>
       script = IF command.name = "restore" THEN "restoring" ELSE "rolling back"
  /\ failures \in 0..MaxFailures /\ kills \in 0..MaxKills

\* Wherever a restore fails, even after it has installed the archive's files,
\* its handler returns every file of the old state before the web starts again.
FailedRestoreKeepsOldData ==
  script = "starting previous" /\ failures <= 1 /\ kills = 0 => dir["live"] = old

\* Failures and kills of the restore command lose nothing: until a rollback
\* begins, each old file is where it was or in the prior directory.
OldDataSurvivesRestore ==
  script \notin RollingBack =>
    \A f \in File : old[f] = "old" => "old" \in {dir["live"][f], dir["prior"][f]}

\* A restore reported as done has replaced every file, so that SQLite never reads
\* the old WAL into the new database, and keeps the old state whole beside it.
RestoredIsWhole ==
  script \in {"starting", "checking", "restored"} =>
    /\ dir["live"]["database"] = "new" /\ dir["live"]["images"] = "new"
    /\ \A f \in File : dir["live"][f] \in {"none", "new"}
    /\ dir["prior"] = old

\* A rollback with no failure returns every file of the old state, its WAL
\* included, even beside an application that could not be stopped and makes new
\* files between the renames; and nothing else is left if it could be.
RollbackReturnsOldData ==
  script = "starting rolled back" /\ failures = 0 /\ kills = 0 =>
    /\ \A f \in File : old[f] = "old" => dir["live"][f] = "old"
    /\ ~web => dir["live"] = old

\* docs/plans/07: "Live restore provides a recoverable prior-data staging path
\* until final verification succeeds."
PriorDataIsKept ==
  script # "restored" =>
    \A f \in File : old[f] = "old" => \E p \in Place : dir[p][f] = "old"
=============================================================================
