---------------------------- MODULE ArchiveStore ----------------------------
(***************************************************************************)
(* What create_backup and prune_backups promise together (docs/plans/07):  *)
(* an archive is the catalog's images at one instant, it appears whole     *)
(* under a name of its own, and only age removes it.  Backups.tla, with    *)
(* its lock, reserved names, failures and kills, implements this.          *)
(***************************************************************************)
EXTENDS Integers

CONSTANTS
  Image,       \* image names
  Process,     \* backup processes
  ArchiveName, \* names of archives
  Retention,   \* ticks that an archive is kept
  Absent,      \* no archive has this name
  NotTaken     \* no snapshot is being stored

VARIABLES
  named,    \* the images that the catalog names
  taken,    \* the snapshot each process is about to store
  archives, \* the archives that can be restored
  clock

vars == <<named, taken, archives, clock>>

Init ==
  /\ named = {}
  /\ taken = [b \in Process |-> NotTaken]
  /\ archives = [n \in ArchiveName |-> Absent]
  /\ clock = 0

\* One item gets an image, loses it, or gets another.
Change ==
  /\ \/ \E x \in Image \ named : named' = named \cup {x}
     \/ \E x \in named : named' = named \ {x}
     \/ \E x \in named, y \in Image \ named : named' = (named \ {x}) \cup {y}
  /\ UNCHANGED <<taken, archives, clock>>

Snapshot(b) ==
  /\ taken[b] = NotTaken
  /\ taken' = [taken EXCEPT ![b] = [images |-> named, at |-> clock]]
  /\ UNCHANGED <<named, archives, clock>>

Store(b, n) ==
  /\ taken[b] # NotTaken /\ archives[n] = Absent
  /\ archives' = [archives EXCEPT ![n] = taken[b]]
  /\ taken' = [taken EXCEPT ![b] = NotTaken]
  /\ UNCHANGED <<named, clock>>

\* The backup fails or is killed.
Discard(b) ==
  /\ taken[b] # NotTaken
  /\ taken' = [taken EXCEPT ![b] = NotTaken]
  /\ UNCHANGED <<named, archives, clock>>

Expire(n) ==
  /\ archives[n] # Absent /\ archives[n].at + Retention < clock
  /\ archives' = [archives EXCEPT ![n] = Absent]
  /\ UNCHANGED <<named, taken, clock>>

Tick ==
  /\ clock' = clock + 1
  /\ UNCHANGED <<named, taken, archives>>

Next ==
  \/ Change \/ Tick
  \/ \E b \in Process : Snapshot(b) \/ Discard(b)
  \/ \E b \in Process, n \in ArchiveName : Store(b, n)
  \/ \E n \in ArchiveName : Expire(n)

Spec == Init /\ [][Next]_vars
=============================================================================
