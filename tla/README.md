# Venue Inventory: specifications, model checking and proofs

Venue Inventory is a Flask application in which an administrator keeps a
catalog of items and a list of bookings, and a customer who signs in with a
booking's access code fills the booking's basket. One gunicorn worker with four
threads serves it (`Dockerfile:32`) from one SQLite file in WAL mode and a
directory of image files; scripts back up, restore and deploy it. This
directory holds TLA+ specifications of its core, the TLC configurations that
check them and TLAPS proofs about them.

## 1. The system

| Component | State it keeps | Operations | Talks to |
|---|---|---|---|
| Customer basket handlers (`app/views/customer.py`, `app/baskets.py`) | `bookings.revision`, `booking_selections` | `portal`, `selection_update`, `basket_snapshot` | the basket page over HTTP, the database |
| Administrator booking handlers (`app/views/admin.py`) | `bookings`, `booking_selections` | create, move, delete a booking; set any basket quantity | the database |
| Administrator inventory handlers (`app/views/admin.py`) | `inventory_items`, image files | create, update, show or hide, delete an item | the database, the image directory, the snapshot lock |
| Basket page (`app/static/js/basket.js`, `portal.html`) | per card: input, timer, pending draft, queued flag, last attempt, server value, availability; one queue, one active request, the revision | typing, debounce timers, retry, handling of answers | `selection_update` |
| Images and the snapshot lock (`app/images.py`, `app/snapshot_lock.py`) | files in `images/`, an advisory lock file | store an upload, remove a file | inventory handlers, backups |
| Backups (`app/backups.py`) | archives in the backup directory, staging directories | create, verify, prune | database, images, snapshot lock |
| Restore (`app/backups.py`, `scripts/restore-vps.sh`) | the live data files, `.restore-prior-*`, `.restore-failed-*` | restore, roll back, drill | the stopped or starting application |
| Sessions and sign-in (`app/__init__.py`, `app/security.py`, `app/rate_limit.py`) | `web_sessions`, a map of recent failures in memory | sign in, sign out, expire, count failures | every handler |
| Deployment (`scripts/deploy-*.sh`, `scripts/deploy_lib.py`) | checkout, running image, schema, Caddy file, firewall | build, back up, replace, migrate, open ingress, roll back | backups, restore |
| Start-up, migrations, configuration, pages | nothing that outlives a request | | |

The components share state only through the database file, the image
directory, the snapshot lock and the data directory. No handler calls another.

### What is hard about it

* **Interleaving of threads.** A session is opened per request (`app/db.py:48`).
  A SELECT before the first write runs outside any transaction, so what a
  handler has loaded may be gone or changed when it writes. The first write
  takes SQLite's only write lock, and from there to the commit nothing else
  writes.
* **Optimistic locking over two reads.** A customer's save is accepted when its
  revision is the booking's current one. Whether that protects anything depends
  on the order in which revision and items are read, on every edit counting a
  revision, and on what the page does with the cards an answer does not list.
* **An autosave protocol in the browser.** Debounce timers, a queue, one request
  at a time, retries, answers that get lost and requests that arrive after the
  page has given up.
* **Ids that come back.** `inventory_items` and `web_sessions` have no
  AUTOINCREMENT, so the largest id is handed out again after its row is deleted.
* **Two stores.** An item's row and its image file are changed one after the
  other; a backup copies both.
* **File moves that may stop half way** in restore, rollback and deployment.
* **Midnight in Chicago** between a guard and the deletion it allows.

`PROJECT.json` lists these as hazards at their lines, with the properties that
cover them.

## 2. Modules

`Baskets.tla` models the database tables and every handler that reads or writes
them. A request thread `t` holds in `req[t]` what its handler has loaded so far.
A handler that reads and then writes is a `Begin` step, which loads, and a
`Commit` step, which is the whole transaction with all its checks; `Fail` and
`SaveRefuse` are the ways to end without an effect. The answer to a save is read
in two further steps, `ReplyRevision` and `ReplyDeliver`, as
`basket_snapshot` makes two SELECTs. `tab[p]` is what a browser tab shows.
`born`, `seen` and `birth` are history: they say which item, under which
quantity, the customer saw.

`BasketStore.tla` is the abstract specification: a store in which every
operation takes effect at one instant, on the rows that exist at that instant.
`Baskets.tla` instantiates it (`Store`), with the identity as refinement
mapping, and `HandlersAreAtomic` says that it implements it.

`BasketClient.tla` models one open basket page in detail. `page` is the state of
`basket.js`; the functions of `basket.js` are operators from page to page with
the source's names, and an event handler is one step, because JavaScript runs
it to completion. The server is reduced to what `Baskets.tla` shows of it: a
save is one atomic step (`Serve`), and the answer is read afterwards
(`ReadRevision`, `Deliver`). A request may fail with or without reaching the
server, and may reach it after the page has given up (`LoseAnswer`,
`ServeOrphan`). `draft`, `draftEdits`, `shownEdits`, `edits` and `accepted` are
history.

`CatalogImages.tla` models what the item handlers do with image files. A request
is `StartUpdate` (the item is loaded), then under the snapshot lock `Save` (the
upload is stored), a commit or `CommitFails`, and `Cleanup` (the obsolete file is
removed, or its removal fails). `CrashWeb` may come between any two of them.
Conversion of the upload is reduced to whether it succeeds; temporary upload
files are left out, as no row and no backup ever names one.

`Backups.tla` extends it with `create_backup` and `prune_backups` as further
processes: `Reserve` takes the lock and the archive's name, `CopyDatabase` and
`CopyImages` work under the lock, `Publish` verifies and renames without it.
`BackupFails` and `GiveBack` are the exception and the `finally` block,
`KillBackup` is a process that never gets there. Its next-state relation is that
of `CatalogImages` with the backup variables unchanged, or a backup step.

`Restore.tla` models `restore-vps.sh` with the two commands it runs. A command goes
through a fixed plan of loop turns (`RestoreMoves`, `RollbackMoves`), its exception
handler through another (`UndoRestore`, `UndoRollback`); `command.next` counts the
turns, and `command.moved` and `command.installed` are the lists by which the
handlers decide whether a turn renames anything. A file is reduced to the state it belongs
to: the one before the restore, the archive's, or one that the application created because
it found nothing. What the script ignores is an alternative of its step: `docker compose
up` may start nothing (`StartWeb`), and the stop before a rollback may fail
(`StopForRollback`; the one before a restore ends the script under `set -e`, as a refused
archive does). The rollback then goes on beside the running application, and `WebConnects`
is a new connection that creates the database, WAL and SHM files it does not find;
uploads wait for the snapshot lock that the rollback has.

`Deploy.tla` extends it with a whole deployment: `deploy-vps.sh` on the operator's side,
`deploy-remote.sh` and `ensure-caddy-inventory.sh` on the server. `deploy` holds the shell
variables, `host` the checkout, image, container and firewall, `caddy` the shared proxy's
file and what it has loaded. Each command of the scripts that changes state is an action;
the one that may fail has an alternative that ends as `set -e` and the exit trap do.
`UpFails` is a `compose_up` that fails before a new container runs, when the old one may be
gone. The rollback is `restore-vps.sh`: `Deploy` enters `Restore`'s actions when it calls
the script and goes on from its exit status, so the restore of a rollback is checked rename
by rename (`RestoreStep`, `RestoreStarts` where a container starts or none does, and
`RestoreBeside` where the application could not be stopped). `schema` is the Alembic
revision of every state of the data; a container that starts migrates what it finds upwards,
and is never ready on a revision that is not its own.

`Sessions.tla` models requests with the cookie their browser had when they were
sent. `load_web_session` is a SELECT by digest (`LookupSession`) and a second
statement by primary key (`ExpireSession`, `TouchSession`), with other requests
between them; then come `enforce_csrf` and the decorator (`MayAct`, `Admit`,
`Redirect`), the handlers, and the answer, which sets the cookie when the browser
gets it. `pages` are the pages still open in the tabs of a browser, with the CSRF
token they were rendered with. `ended` is history.

`RateLimiter.tla` models the limiter for one key, as ages of recorded failures, and
the threads that ask, check and record, one call of the store at a time. The clock
is read before the lock, so a moment may be old when it is stored.

`ArchiveStore.tla` is the abstract specification of backups: a store of archives,
each of which is a snapshot of rows and files at one instant. `Backups.tla`
instantiates it (`Store`) with a mapping that forgets staging directories, names
and the lock: a snapshot is taken when the second copy is made, and the archive
appears when it is published. `ArchivesAreSnapshots` says that backups, with
failures and kills at every step, implement it.

The `MC…` modules are those given to TLC; they define symmetry sets and values.
`BasketsProofs.tla`, `BasketClientProofs.tla`, `BackupsProofs.tla`,
`ArchivesProofs.tla`, `SessionsProofs.tla`, `RateLimiterProofs.tla`,
`RestoreProofs.tla` and `DeployProofs.tla` hold the theorems.

How they compose: `Backups` extends `CatalogImages` (the processes share rows, files
and the lock), `Deploy` extends `Restore` (the scripts share the data directory);
`Baskets` implements `BasketStore`, `Backups` implements `ArchiveStore`.
`BasketClient` and `Sessions` meet `Baskets` at a named action: `Serve` and `Save`.

## 3. Runs

| Run | Instance | Checks | Result |
|---|---|---|---|
| `baskets` | 2 threads, 1 tab, 1 booking, item id 1 given out twice, quantity 1, revision up to 2, 2 days | `TypeOK`, `SelectionsJoinLiveRows`, `CurrentRevisionShowsCurrentBasket`, `CustomersStayWithinCatalog`, `DeletionSparesCurrentBookings`, `HandlersAreAtomic` | holds, 2,120,158 states |
| `baskets_item_id_reuse` | 1 thread | `SaveReachesTheShownItem` | violated |
| `baskets_stale_card` | 1 thread, 2 items, revision up to 3 | `NoSilentOverwrite` | violated |
| `client` | 2 cards, quantity 1, 2 inputs, 1 administrator's change | `TypeOK`, `NoForgottenDraft`, `SavedIsTrue`, `DraftsAcceptedInOrder`, `DraftsAreSettled` | holds, 107,052 states |
| `client_newer_edit` | quantity up to 2, 2 inputs, 1 change | `DraftsYieldToNewerEdits` | violated |
| `images` | 3 threads, 2 items, 3 image names | `CatalogTypeOK`, `RowsHaveFiles`, `NoSharedImage` | holds, 105,412 states |
| `backups` | 1 thread, 1 item, 2 image names, 2 backups, clock up to 2, retention 1 | `BackupTypeOK`, `CopyFindsItsImages`, `ReservedNamesAreOwned`, `VerifiedArchivesStay`, `ArchivesAreSnapshots` | holds, 394,562 states |
| `sessions` | 2 requests, 1 browser, 2 bookings, 2 sign-ins, 2 days | `TypeOK`, `SessionsJoinLiveBookings`, `FormsActForTheirPage`, `SignedOutStaysOut`, `SessionsPersist` | holds, 3,179,821 states |
| `limiter` | 3 threads, 3 attempts, window of 2 ticks, clock read up to 1 tick early | `TypeOK`, `FailuresCountForAWindow`, `FewFailures`, `LockoutEnds` | holds, 13,930 states |
| `deploy` | 3 commits, the second broken, the third with a migration, 2 deployments, 1 failure and 1 kill within a restore | `DeployTypeOK`, `RollbackFailsByMigration`, `ReachableAfterSmoke`, `FailedDeployKeepsCaddy`, `OneDnsRecord`, `DoneIsOnProxyNetwork`, `MigrationsFollowBackups`, and of `Restore` `TypeOK`, `FailedRestoreKeepsOldData`, `OldDataSurvivesRestore`, `RestoredIsWhole`, `RollbackReturnsOldData` | holds, 2,371,269 states |
| `deploy_rollback` | 2 commits, the second with a migration, none broken, 1 deployment, no failures and no kills | `RollbackSucceeds` | violated |
| `restore_prior` | 1 failure and 1 kill | `PriorDataIsKept` | violated |

### The bounds

Every bound is a constant named in the module that uses it. Two request threads
are enough for the races of `Baskets`: a page load is cut into two reads, and
what matters is one other transaction between them; the theorems show the same
properties for any number. `MaxBirth` lets an item id be given out again, and
two days let midnight fall between a guard and its deletion. One tab suffices
because a page only meets other pages through the server. On the basket page
two inputs on two cards put one draft in the queue while the other is out, and one
administrator's change makes an answer differ from what was sent; the theorems
about the page hold for any number of both. Three threads
and three names on two items allow an update whose item is replaced and deleted
while it waits, with the id given to a new item. The clock of `Backups` must
pass the retention once; two backups are the least that can collide on a name.

Two sign-ins are enough for an id that comes back: the first session's row is
deleted while another request holds its id, and the second gets the same id. One
browser has both, since a cookie jar is what two tabs share; two requests are a
request and the one that overtakes it. Two bookings and the administrator are the three
owners between whom a tab's form and the browser's present session may differ: the second
booking signs in while a page of the first is still open. The second day is when a session
of one day has expired.

Three threads ask in parallel when the limiter is full or empty. A window of two
ticks tells a failure that has just left it from one that is about to, and one tick of
delay lets a stored moment be older than one stored before it.

Two deployments let the second start from what a failed or killed first one left: a
patched Caddy file, a loopback bind, a checkout ahead of the container. Three
commits let one be broken, one migrate, and `main` move between the CI check and
the fetch. One failure exercises each handler of a restore from each rename; a
second one inside a handler is what `restore_prior` needs not even once.
`MaxFailures = 1` means that handlers themselves succeed, except where a rename
is refused because the target is a directory with files in it. It counts errors within the
two commands; a `docker compose` stop or start that fails, and the steps of a
deployment, may do so without a bound; a second reload of the proxy and the start of
the prior container count against `MaxFailures`, and a session that breaks off
against `MaxKills`. `deploy_rollback` needs neither failures nor kills: one deployment of a
commit with a migration, whose probes fail, is enough.

### What the violated runs show

* `SaveReachesTheShownItem`: SQLite hands out the id of the deleted newest item
  again. A page that still shows the deleted one saves into the new one.
* `NoSilentOverwrite`: an item hidden and cleared from the basket is missing from
  the next answer; the page takes over the revision and keeps the card's old
  quantity, and once the item is visible again a save overwrites the edit.
* `DraftsYieldToNewerEdits`: a waiting draft is sent with the revision of the
  answer before it, so it overwrites an edit the customer had not seen.
* `PriorDataIsKept`: a rename that fails while `rollback_restore` sets the restored
  files aside makes its handler rename the restored database over the preserved
  one.
* `RollbackSucceeds`: when the failed deployment had migrated the data, the
  rollback restores the paired backup while the new image is still the one
  `docker compose` starts, and that container migrates the restored data too
  (`deploy-remote.sh:135`, `restore-vps.sh:58`); the prior code is then not ready on a
  schema it does not know, though the restore itself was reported as done, against
  `docs/plans/08-ci-gated-https-deployment.md:79-81`.
  `RollbackFailsByMigration`, which holds, says that this and a prior commit that was
  never healthy are the only ways a rollback fails, failed commands aside.

### Disagreements without a run

These came up while modelling. Each is visible in the named module, and most
weakened a property to what does hold.

* `CatalogImages`: when two updates load an item with the same image, the second to
  commit removes that image once more instead of the one it replaced, and nothing
  logs the orphan (`admin.py:504`, against
  `docs/plans/02-admin-catalog-and-images.md:72-74`).
* `BasketClient`: the answer to a card's own save raises its maximum, which was below
  the draft; `handleSaved` looks at the old maximum, and the card says "Saving" with
  nothing to save.
* `BasketClient`: the stock is lowered while a save of a card with a newer pending draft
  is out, and the item is hidden before the answer reads the items. The answer is
  `quantity_out_of_range`; `handleStockChange` asks whether a draft is pending before
  `applySnapshot` locks the card and drops that draft, and then overwrites "Quantity
  locked" by "Saving", which stays (`basket.js:205-211`).
* `Sessions`: a request that finds its session expired deletes it by primary key; if
  the row has been deleted meanwhile and SQLite has given the id to a new sign-in,
  that new session ends at once (`app/__init__.py:83`, against "Customer sessions
  persist for 30 days", `docs/plans/03:39`). The third disjunct of
  `SessionsPersist` is this case; the property fails without it.
* `Deploy`: CI is checked for the commit that `main` was at, the server fetches
  `main` again (`deploy-vps.sh:91`, against `docs/plans/08:42`).
* `Deploy`: `PRIOR_HEALTHY_SHA` is the checkout's HEAD, which after a failed build is
  a commit that never ran.
* `Deploy`: a rollback after the container was bound to the loopback address restores
  the plain Caddy file and leaves both the binding and the closed firewall, so that
  the application answers only on the server itself, though it is reported as healthy
  (`deploy-remote.sh:116,128-131`). `ReachableAfterSmoke`
  therefore ends where a rollback begins.
* `Deploy`: `restore-vps.sh:58` starts the container without `compose.prod.yaml`, so
  it is off the proxy's network. The rollback's own `compose_up` brings it back, which
  is what `DoneIsOnProxyNetwork` says; after a restore by hand nothing does.
* `Deploy`: `ensure-caddy-inventory.sh` killed between the copy and the reload leaves
  a file that the next run takes for loaded (`ensure-caddy-inventory.sh:36`).
* `Restore`: before a rollback the script ignores a stop that fails
  (`restore-vps.sh:60,68`, against "Live restore stops the application",
  `docs/deployment.md:157`). The application then makes files of its own between the
  renames: `RollbackReturnsOldData` says that every old file is returned over them, but a
  WAL or SHM file that the old state did not have may stay beside the old database. The
  property therefore asks for exactly the old state only if the application was stopped.
* `Restore`: a start that fails after a rollback, or after a restore that failed, is
  ignored too (`restore-vps.sh:51,62,70`): the script ends with nothing running. In a
  deployment the rollback's own `compose_up` comes after it.
* `Deploy`: what customers save between the backup and the replacement of the
  container is lost by a rollback.

Three more hazards were seen and are covered by no module: `item_toggle_visibility`
writes the negation of what it loaded (`admin.py:535`), so two administrators who
both hide an item show it; a card locked by a snapshot keeps the text of its input
(`basket.js:290`); a rollback by hand after a killed restore sets aside images that
were never moved (`backups.py:269`).

### Fairness

`client` and `limiter` need it. `BasketClient` assumes weak fairness of the
network (a `fetch` ends with an answer or an error: the browser gives up at the
latest when the connection does) and of each card's debounce timer (browsers
fire timers). Nothing is assumed of the customer or the administrator; in
particular nobody need press Retry, which is why a draft marked for retry counts
as settled. `RateLimiter` assumes weak fairness of each thread's next step (the
store's lock is held for a few dictionary operations, and the scheduler runs every
thread) and of the clock; nothing is assumed of those who sign in, who may try for
ever. The other modules state safety only: a thread, a backup or a script
may stop anywhere.

## 4. Proofs

The theorems hold for any number of threads, tabs, bookings, items, cards and
quantities, images and backups, sign-in attempts, commits and deployments, failures and
kills, under the assumptions named in the modules (`BasketsAssumption` and its like), which
TLC also evaluates in every run. Every safety property that a passing run checks is stated
by a theorem.

**Baskets** (`BasketsProofs.tla`). `CurrentRevisionShowsCurrentBasket` is not
inductive: a page with an old revision could become current if a revision ever
came back. The inductive invariant `IInv` therefore adds `NothingFromTheFuture`
(no thread or page knows a revision, booking, item or date that has not been
reached, so a revision that grows makes every older copy harmless) and
`AnswersFitPages` (a tab waits for one answer at most, and the answer is about
the booking whose page asked). `DeletionIsSafe` is an action property: it follows
from `IInv` and from what the deleting transaction itself checks.

**Refinement** (`BasketsProofs.tla`). `Refinement` states that `Baskets`
implements `BasketStore`: each step is one operation of the store or leaves it
alone. `CatalogIsRespected` follows the same case analysis; it compares the quantities
before and after a step, so that a customer who clears a hidden item, whose "saved quantity
is locked" (`customer.py:157`), would break it as one who takes more would.

**Basket page** (`BasketClientProofs.tla`). `NoForgottenDraft` is not inductive. The
invariant `IInv` is `TypeOK`, `Ordered(page)` and `DraftOrder`. `Ordered` is the
discipline of the queue: a card is flagged as queued exactly when it is in the
queue (`Flagged`), a pending draft has a timer or a place in the queue
(`Scheduled`), and a queue that is not empty waits for a request (`Drained`).
Each function of `basket.js` is shown to keep it, by a lemma of its own, and the
event handlers follow by composition. `DraftOrder` says that a request on its
way, or orphaned, carries no revision from the future and no draft newer than
its card's (`Outstanding`), and that one the server would accept now is newer
than the last one it accepted (`Fresh`).

`SavedIsTrue` needs more, because whether "Saved" is true depends on what every earlier
answer left on the card. `Told` adds that a card has been shown no more edits than the
server has counted, that a pending draft belongs to a card that can be edited and does
not say "Saved", that a card which says "Saved" and has been shown every edit has the
server's quantity in its input (`HonestCard`), and that the card whose request is out can
be edited (`Engaged`). Each function of `basket.js` keeps this by a lemma of its own;
`RequeueIsHonest` assumes no draft because `handleStockChange` may have dropped it
(section 3).

**Images and backups** (`BackupsProofs.tla`). `RowsHaveFiles` and `NoSharedImage` are
not inductive. `CatalogInv` adds who owns the lock (`LockOwned`: one request at a
time is past `waiting`) and what a request that has it knows: its stored upload
is in `files` and in no row (`UploadIsUnnamed`), a delete holds its row's present
image (`DeleteHasLooked`), and what is about to be removed is in no row
(`ObsoleteIsUnnamed`). An update loads its item before it has the lock, so its
image may be stale; `LoadedIsOwn` says what is still true then: no other item has
that image and no upload under way has that name, because names are never used
twice (`NamesAreUsed`). That is why removing it is harmless even when the removal is
a second one. `LeaveStep` and `DecideStep` prove once what several endings share.
For backups `BackupInv` adds that a backup between its two copies has the lock
(`LockOfBackup`); `NothingMoves` then shows that no request changes `files`. The
proofs hold for any number of requests and backups and for every value of the bounds.

**Names of archives** (`ArchivesProofs.tla`). `_next_archive_name` looks for the first free
number; that it finds one within the bound is a count: the names taken, and the backups that
still wait for the lock, are at most the backups ever started (`NamesSuffice`). With it
`NamesInv` says that running backups are no older than the retention time (`Recent`), that
the empty file of a running backup is there, unverified and no older than its backup
(`NamesReserved`), that no two have the same name (`NamesDiffer`) and that every other empty
file was left by a kill (`EmptiesAreOwned`). `Recent` rests on `Tick`'s bound that a backup
takes no longer than the retention time; without that bound, or with a retention of 0 days,
`prune_backups` may take a running backup's empty file and another backup its name
(`backups.py:357`). `ReservedNamesStayOwned` and `ArchivesStay` follow: a step that
overwrites or removes a file meets a name without an archive, or a reserved one, or one that
has expired.

**Archives are snapshots** (`ArchivesProofs.tla`). `Refinement` states that `Backups`
implements `ArchiveStore`. A snapshot is taken at `CopyImages`, the second copy, although the
image names come from the first; `CopiedIsCurrent` is the missing fact: what the database
copy names is still what the rows name, because `NothingMoves` while the backup has the
lock. The other half is `OneRowChanges`: a request's commit changes one row, to a name that
no row has (`UploadIsUnnamed`), from a name that no other row has (`NoSharedImage`), so it is
one `Change` of the store.

**Sessions** (`SessionsProofs.tla`). The properties are about the rows of `web_sessions`, but
what could go wrong is a token that means two things: a digest, in a row, in a request that has
loaded the row, in a cookie or in an open page. `IInv` says that every token has been issued
(`TokensAreIssued`), that wherever it appears it stands for the same owner
(`TokensHaveOwners`), that no two rows have the same one (`OneRowPerToken`), and what a request
that goes on with a loaded row may still rely on (`KnownRow`). A request that has passed
`enforce_csrf` has the token of its page (`AdmittedFit`), and with `TokensHaveOwners` its actor
is the page's owner, which is `FormsActForTheirPage`. SQLite's next id is one more
than the largest one in use, so ids come back but never pass the number of sign-ins
(`IdsInOrder`, `NextIdIsFree`). `SessionsStay` is an action property: it lists the ways in
which a row may leave the table, a request that holds a reused id among them.

**Rate limiter** (`RateLimiterProofs.tla`). `FewFailures` is about a count, and a thread adds
to it after a check that other threads' failures have overtaken. The invariant
`RoomForEveryThread` counts those threads too: the failures within the window and the
threads that may still record one without asking again (`Trying`) are together at most
`MaxAttempts - 1` and the number of threads. A thread joins `Trying` only when it finds fewer
than `MaxAttempts` failures, and then the count, all other threads included, leaves
room for it. `FailuresCountForAWindow` is inductive with the types: a moment read before
the lock is old, so pruning with it keeps more, never less.

**Restore** (`RestoreProofs.tla`). The properties speak of the moments between the commands;
`IInv` says what every directory holds at each turn of each loop. `Applying` gives, for every
file, where it is by whether the two loops of a restore have passed it (`Past`,
`PastDurable`), and that `moved` and `installed` are exactly what the loops have moved and
installed. `Undoing` is the same for the handler, which begins anywhere: what was moved is
in the prior directory until its turn, and only an installed file may be in its place, and
only until the loop before has taken it away. `RollingForward` is the rollback's. The lemmas
`ApplyingTurn`, `UndoingTurn` and `RollingForwardTurn` go through one turn;
`ApplyingIsFree`, `UndoingIsFree` and `RollingForwardIsFree` show that no target of a
rename is a directory with files in it, so only a real error interrupts a loop. Beside an
application that could not be stopped, `RollingForward` and `RolledBack` say of each file
that the old one is back once its turn has come; that nothing else is left they say only of a
stopped application (`Alone`) and of the images, which no connection creates (`Quiet`).
`StepWebConnects` shows that a new connection keeps all of it. `WebFits` is the part of the
types that could fail: a restore, from its stop to the next start, has no application beside it.
Nothing is said of
the handler of a rollback, which `restore_prior` shows to lose data;
`KillsKeepPriorData` bounds that finding: without a failed rename, and for any number of
kills, `PriorDataIsKept` holds (`Kept`).

**Deployment** (`DeployProofs.tla`). `DInv` extends `Restore`'s `IInv` by what the two
scripts know of each other. `Steps`: a restore runs only within a rollback and has exited
before the reset. `Serving`: who can reach the container from the smoke test on.
`CaddyKept`, as long as none of the failures that `failures` counts has happened: whose file
the proxy has, and that `deploy.caddyBackup` says so. `Commits`: no image, checkout or
schema is newer than the commit fetched, so schemas only grow with the image. `Saves`: the
paired backup has the schema of the data that a container could migrate (`Paired`), once
data of the archive exist (`Extracted`). The action property `MigrationsFollowBackups`
follows from `Saves` for each step that starts a container (one that fails to start migrates
nothing: `FailedUp`, `BesideKeeps`), the prior commit's and the one within the restore
included. `RestoreWithinRollback` carries the five properties of `Restore` over: its lemmas
are about single actions and do not depend on who calls them. `Schema` is any monotone
numbering of the commits.

TLC checked each of these invariants on the instances of the runs before it was
proved.

Checked by TLC only: the liveness properties `DraftsAreSettled` and `LockoutEnds`, which
rest on fairness and ENABLED and are outside what TLAPS proves; and of course the violated
properties.

## 5. Not modelled, and the plan

Not modelled: the first installation on an empty volume, the bootstrap of secrets, the
backup timer, a checkout that is dirty or cannot be fast-forwarded (the script stops before it
changes anything); `AppConfig`, which only validates variables; the archive format and its
checksums; the conversion of images; access codes, passwords and hashes; rendering and styles.
`PROJECT.json` gives the reason for each.

The order in which the project is to grow:

1. The installation on an empty volume as a first deployment of `Deploy`.
2. `KillsKeepPriorData` within a deployment, whose rollback starts the prior container
   once more after the restore.
3. A property of the basket page that says when "Saving" may stay, which the two
   disagreements about it in section 3 violate.
