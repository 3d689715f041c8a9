---------------------------- MODULE CatalogImages ----------------------------
(***************************************************************************)
(* The image of an inventory item: a file under /data/images and its name  *)
(* in the item's row (app/views/admin.py, app/images.py).  A request that  *)
(* changes an image holds the snapshot lock from the moment it stores the  *)
(* upload until it has removed the obsolete file; the item of an update is *)
(* loaded before the lock is taken.  The lock is also taken by the         *)
(* processes in Process (Backups.tla).                                     *)
(***************************************************************************)
EXTENDS Integers, FiniteSets

CONSTANTS
  Image,    \* file names: uuid4, never generated twice
  MaxItem,  \* bound: item ids are 1..MaxItem
  Request,  \* threads of the web process
  Process,  \* other processes that take the snapshot lock
  NoImage,  \* NULL
  Gone,     \* no row has this id
  Nobody    \* the lock is free

ASSUME CatalogAssumption ==
  /\ MaxItem \in Nat
  /\ NoImage \notin Image /\ Gone \notin Image \cup {NoImage}
  /\ Nobody \notin Request \cup Process /\ Request \cap Process = {}

Item == 1..MaxItem
Name == Image \cup {NoImage}

VARIABLES
  row,     \* image_filename of the rows of inventory_items
  files,   \* the complete files in /data/images
  lock,    \* the holder of the snapshot lock
  request, \* the requests being handled
  used     \* history: names generated so far

catalog == <<row, files, lock, request, used>>

Op == {"create", "update", "delete"}

\* waiting: before the lock; saved: the upload is stored; decided: the
\* transaction has ended and the obsolete file is to be removed.
Step == {"waiting", "saved", "decided"}

RequestState ==
  [step : Step, op : Op, item : Item \cup {0}, loaded : Name, fresh : Name,
   remove : BOOLEAN, obsolete : Name]

Idle == [step |-> "idle"]

Waiting(op, i, name) ==
  [step |-> "waiting", op |-> op, item |-> i, loaded |-> name, fresh |-> NoImage,
   remove |-> FALSE, obsolete |-> NoImage]

Existing == {i \in Item : row[i] # Gone}
Referenced == {row[i] : i \in Existing} \ {NoImage}

At(r, step) == request[r].step = step

CatalogInit ==
  /\ row = [i \in Item |-> Gone]
  /\ files = {}
  /\ lock = Nobody
  /\ request = [r \in Request |-> Idle]
  /\ used = {}

-----------------------------------------------------------------------------
(* Before the lock *)

StartCreate(r) ==
  /\ At(r, "idle")
  /\ request' = [request EXCEPT ![r] = Waiting("create", 0, NoImage)]
  /\ UNCHANGED <<row, files, lock, used>>

\* _item_or_404; the row stays in the session until it commits.
StartUpdate(r, i) ==
  /\ At(r, "idle")
  /\ i \in Existing
  /\ request' = [request EXCEPT ![r] = Waiting("update", i, row[i])]
  /\ UNCHANGED <<row, files, lock, used>>

\* The first look for blocking bookings has found none.
StartDelete(r, i) ==
  /\ At(r, "idle")
  /\ i \in Existing
  /\ request' = [request EXCEPT ![r] = Waiting("delete", i, NoImage)]
  /\ UNCHANGED <<row, files, lock, used>>

-----------------------------------------------------------------------------
(* Under the lock *)

\* Mutant of Enter: item_update stores the upload without the lock.
EnterFreely(r) == At(r, "waiting") /\ lock' = lock

Enter(r) == At(r, "waiting") /\ lock = Nobody /\ lock' = r

\* Mutant of FreshNames: names may repeat.
RepeatedNames == Image

FreshNames == Image \ used

\* _save_submitted_image stores the upload under a new name, or there is none;
\* remove is the form's remove_image.
Save(r, name, remove) ==
  /\ Enter(r) /\ request[r].op \in {"create", "update"}
  /\ name \in FreshNames \cup {NoImage}
  /\ files' = files \cup ({name} \ {NoImage})
  /\ used' = used \cup ({name} \ {NoImage})
  /\ request' = [request EXCEPT ![r].step = "saved", ![r].fresh = name, ![r].remove = remove]
  /\ UNCHANGED row

\* The upload is no usable image: the lock is released, nothing is stored.
RejectUpload(r) ==
  /\ At(r, "waiting") /\ request[r].op \in {"create", "update"}
  /\ lock = Nobody
  /\ request' = [request EXCEPT ![r] = Idle]
  /\ UNCHANGED <<row, files, lock, used>>

\* Mutant of EnterDelete: the item read before the lock is not looked up again.
EnterDeleteBlindly(r) ==
  /\ Enter(r) /\ request[r].op = "delete"
  /\ request' = [request EXCEPT ![r].step = "saved", ![r].loaded = row[request[r].item]]
  /\ UNCHANGED <<row, files, used>>

\* item_delete reads the item again once it has the lock.
EnterDelete(r) ==
  /\ Enter(r) /\ request[r].op = "delete"
  /\ row[request[r].item] # Gone
  /\ request' = [request EXCEPT ![r].step = "saved", ![r].loaded = row[request[r].item]]
  /\ UNCHANGED <<row, files, used>>

\* Deleted meanwhile: 404.
AlreadyDeleted(r) ==
  /\ At(r, "waiting") /\ request[r].op = "delete" /\ lock = Nobody
  /\ row[request[r].item] = Gone
  /\ request' = [request EXCEPT ![r] = Idle]
  /\ UNCHANGED <<row, files, lock, used>>

Decide(r, obsolete) ==
  request' = [request EXCEPT ![r].step = "decided", ![r].obsolete = obsolete]

\* SQLite gives a new row the id after the largest one.
NewId == CHOOSE i \in 1..(MaxItem + 1) :
           /\ \A j \in Existing : j < i
           /\ i = 1 \/ i - 1 \in Existing

CommitCreate(r) ==
  /\ At(r, "saved") /\ request[r].op = "create"
  /\ NewId <= MaxItem
  /\ row' = [row EXCEPT ![NewId] = request[r].fresh]
  /\ Decide(r, NoImage)
  /\ UNCHANGED <<files, lock, used>>

\* The ORM writes the name only when it differs from the one it loaded.
Replaces(r) ==
  request[r].fresh # NoImage \/ (request[r].remove /\ request[r].loaded # NoImage)

CommitUpdate(r) ==
  LET i == request[r].item
  IN /\ At(r, "saved") /\ request[r].op = "update"
     /\ row[i] # Gone
     /\ row' = IF Replaces(r) THEN [row EXCEPT ![i] = request[r].fresh] ELSE row
     /\ Decide(r, IF Replaces(r) THEN request[r].loaded ELSE NoImage)
     /\ UNCHANGED <<files, lock, used>>

CommitDelete(r) ==
  /\ At(r, "saved") /\ request[r].op = "delete"
  /\ row' = [row EXCEPT ![request[r].item] = Gone]
  /\ Decide(r, request[r].loaded)
  /\ UNCHANGED <<files, lock, used>>

\* Mutant of Undone: a failed transaction drops the old image.
UndoneWrongly(r) == request[r].loaded

\* What a failed transaction leaves to remove: the image it had stored.
Undone(r) == request[r].fresh

\* The transaction fails, or a delete finds a booking that blocks it, or the
\* row of an update is gone (StaleDataError).
CommitFails(r) ==
  /\ At(r, "saved")
  /\ Decide(r, Undone(r))
  /\ UNCHANGED <<row, files, lock, used>>

\* _remove_image_file, then the lock is released.  A failed removal is logged.
Cleanup(r, removed) ==
  LET obsolete == {request[r].obsolete} \ {NoImage}
  IN /\ At(r, "decided")
     /\ files' = IF removed THEN files \ obsolete ELSE files
     /\ lock' = Nobody
     /\ request' = [request EXCEPT ![r] = Idle]
     /\ UNCHANGED <<row, used>>

-----------------------------------------------------------------------------
\* The web process dies; the kernel releases the lock.
CrashWeb ==
  /\ \E r \in Request : ~At(r, "idle")
  /\ request' = [r \in Request |-> Idle]
  /\ lock' = IF lock \in Request THEN Nobody ELSE lock
  /\ UNCHANGED <<row, files, used>>

-----------------------------------------------------------------------------
CatalogNext ==
  \/ \E r \in Request :
       \/ StartCreate(r)
       \/ \E i \in Item : StartUpdate(r, i) \/ StartDelete(r, i)
       \/ \E name \in Name, remove \in BOOLEAN : Save(r, name, remove)
       \/ RejectUpload(r)
       \/ EnterDelete(r) \/ AlreadyDeleted(r)
       \/ CommitCreate(r) \/ CommitUpdate(r) \/ CommitDelete(r) \/ CommitFails(r)
       \/ \E removed \in BOOLEAN : Cleanup(r, removed)
  \/ CrashWeb

CatalogSpec == CatalogInit /\ [][CatalogNext]_catalog

-----------------------------------------------------------------------------
(* Properties *)

\* Every variable has its type.
CatalogTypeOK ==
  /\ row \in [Item -> Name \cup {Gone}]
  /\ files \subseteq Image
  /\ lock \in Request \cup Process \cup {Nobody}
  /\ request \in [Request -> RequestState \cup {Idle}]
  /\ used \subseteq Image

\* docs/plans/02: "Replacement/removal never leaves the database pointing at a
\* missing file", whatever is interleaved, fails or crashes.
RowsHaveFiles == Referenced \subseteq files

\* Two items never name the same file: backups refuse a database that does, and
\* deleting one item would break the other.
NoSharedImage ==
  \A i, j \in Existing : i # j /\ row[i] = row[j] => row[i] = NoImage
=============================================================================
