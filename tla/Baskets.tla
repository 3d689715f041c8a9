------------------------------- MODULE Baskets -------------------------------
(***************************************************************************)
(* Bookings, the inventory catalog and the baskets that join them, as the  *)
(* request handlers of app/views/customer.py and app/views/admin.py read   *)
(* and write them.                                                         *)
(*                                                                         *)
(* One gunicorn worker serves requests on several threads, each with its   *)
(* own SQLAlchemy session over one SQLite file.  A SELECT made before the  *)
(* first write runs outside any transaction, so a handler that reads and   *)
(* then writes is two steps here: a step that loads rows into req[t], and  *)
(* a step that is the whole write transaction.  The first write of a       *)
(* transaction takes SQLite's single write lock, which makes the           *)
(* transaction one atomic step.  The snapshot a customer receives is read  *)
(* after the commit by two separate SELECTs: two more steps.               *)
(***************************************************************************)
EXTENDS Integers

CONSTANTS
  Thread,       \* request threads of the worker (Dockerfile: --threads 4)
  Tab,          \* browser tabs in which customers have their basket open
  NoTab,        \* "nobody waits for the answer"
  MaxBooking,   \* bound: bookings created
  MaxItem,      \* bound: largest inventory id
  MaxBirth,     \* bound: times one inventory id is handed out
  MaxQuantity,  \* bound: quantities and stock
  MaxRevision,  \* bound: accepted edits of one basket
  LastDay       \* bound: Chicago dates

ASSUME NoTabAssumption == NoTab \notin Tab
ASSUME BoundsAssumption ==
  /\ MaxBooking \in Nat /\ MaxItem \in Nat /\ MaxBirth \in Nat
  /\ MaxQuantity \in Nat /\ MaxRevision \in Nat /\ LastDay \in Nat

BookingId == 1..MaxBooking
ItemId == 1..MaxItem
Quantity == 0..MaxQuantity
Day == 0..LastDay

VARIABLES
  bookings,     \* ids of the rows of table bookings
  lastBooking,  \* sqlite_sequence: AUTOINCREMENT never reuses a booking id
  eventDate,    \* bookings.event_date
  revision,     \* bookings.revision
  items,        \* ids of the rows of table inventory_items
  stock,        \* inventory_items.stock_quantity
  visible,      \* inventory_items.is_visible
  birth,        \* history: how often this inventory id has been handed out
  selected,     \* booking_selections.selected_quantity, 0 when there is no row
  today,        \* the Chicago date of the application clock
  req,          \* what the handler running on a thread has loaded so far
  tab           \* what each browser tab shows

catalogVars == <<items, stock, visible, birth>>
bookingVars == <<bookings, lastBooking, eventDate>>
vars == <<bookings, lastBooking, eventDate, revision, items, stock, visible,
          birth, selected, today, req, tab>>

-----------------------------------------------------------------------------
(* Requests in progress, one record shape per handler step. *)

Idle == [op |-> "idle"]

\* portal: booking loaded; snapshot: revision read, items still to be read
PageRequest ==
  [op : {"portal", "snapshot"}, tab : Tab, booking : BookingId, revision : Nat]
\* selection_update: seen, born and listed say what the customer's card showed
\* when the request was sent
SaveRequest ==
  [op : {"save"}, tab : Tab \cup {NoTab}, booking : BookingId, item : ItemId,
   quantity : Quantity, revision : Nat, seen : Quantity, born : Nat,
   listed : BOOLEAN]
ReplyRequest == [op : {"reply"}, tab : Tab, booking : BookingId]
AdminSaveRequest ==
  [op : {"adminSave"}, booking : BookingId, item : ItemId, quantity : Quantity]
MoveBookingRequest ==
  [op : {"moveBooking"}, booking : BookingId, loaded : Day, date : Day]
DeleteBookingRequest == [op : {"deleteBooking"}, booking : BookingId]
UpdateItemRequest ==
  [op : {"updateItem"}, item : ItemId, loadedStock : Quantity,
   loadedVisible : BOOLEAN, stock : Quantity, visible : BOOLEAN]
ToggleItemRequest == [op : {"toggleItem"}, item : ItemId, loadedVisible : BOOLEAN]
DeleteItemRequest == [op : {"deleteItem"}, item : ItemId, day : Day]

Request == {Idle} \cup PageRequest \cup SaveRequest \cup ReplyRequest
           \cup AdminSaveRequest \cup MoveBookingRequest \cup DeleteBookingRequest
           \cup UpdateItemRequest \cup ToggleItemRequest \cup DeleteItemRequest

NoPage == [booking |-> 0]

\* cards: the items the page has a card for; locked: the cards marked
\* unavailable; listed: the cards the last answer had a quantity for.
OpenPage ==
  [booking : BookingId, revision : Nat, cards : SUBSET ItemId,
   locked : SUBSET ItemId, listed : SUBSET ItemId,
   shown : [ItemId -> Quantity], born : [ItemId -> Nat]]

Page == {NoPage} \cup OpenPage

\* Tab p waits for the answer to request r.  A page sends one request at a time
\* (basket.js: active).
Awaits(p, r) == r.op \in {"portal", "save", "reply", "snapshot"} /\ r.tab = p

Waiting(p) == \E t \in Thread : Awaits(p, req[t])

Begin(t, r) == /\ req[t] = Idle
               /\ req' = [req EXCEPT ![t] = r]

Finish(t) == req' = [req EXCEPT ![t] = Idle]

-----------------------------------------------------------------------------
Init ==
  /\ bookings = {} /\ lastBooking = 0
  /\ eventDate = [b \in BookingId |-> 0]
  /\ revision = [b \in BookingId |-> 0]
  /\ items = {}
  /\ stock = [i \in ItemId |-> 0]
  /\ visible = [i \in ItemId |-> FALSE]
  /\ birth = [i \in ItemId |-> 0]
  /\ selected = [b \in BookingId |-> [i \in ItemId |-> 0]]
  /\ today = 0
  /\ req = [t \in Thread |-> Idle]
  /\ tab = [p \in Tab |-> NoPage]

-----------------------------------------------------------------------------
(* The customer's page.  portal() gets the booking, whose revision the     *)
(* template prints, before it reads the items.                             *)

PortalBegin(t, p, b) ==
  /\ b \in bookings
  /\ ~Waiting(p)
  /\ Begin(t, [op |-> "portal", tab |-> p, booking |-> b, revision |-> revision[b]])
  /\ UNCHANGED <<bookingVars, catalogVars, revision, selected, today, tab>>

\* customer_basket_items: "all" lists the visible items, "basket" the selected
\* ones, hidden or not.
PortalCards(b, basketOnly) ==
  IF basketOnly THEN {i \in items : selected[b][i] > 0}
                ELSE {i \in items : visible[i]}

PortalRender(t, basketOnly) ==
  LET r == req[t]
      cards == PortalCards(r.booking, basketOnly)
  IN /\ r.op = "portal"
     /\ r.booking \in bookings
     /\ tab' = [tab EXCEPT ![r.tab] =
          [booking |-> r.booking, revision |-> r.revision,
           cards |-> cards, listed |-> cards,
           locked |-> {i \in cards : ~visible[i]},
           shown |-> [i \in ItemId |-> IF i \in cards THEN selected[r.booking][i] ELSE 0],
           born |-> [i \in ItemId |-> IF i \in cards THEN birth[i] ELSE 0]]]
     /\ Finish(t)
     /\ UNCHANGED <<bookingVars, catalogVars, revision, selected, today>>

-----------------------------------------------------------------------------
(* selection_update: the customer's autosave request. *)

SaveBegin(t, p, i, q) ==
  LET page == tab[p]
  IN /\ page.booking \in bookings
     /\ ~Waiting(p)
     /\ i \in page.cards \ page.locked
     /\ Begin(t, [op |-> "save", tab |-> p, booking |-> page.booking, item |-> i,
                  quantity |-> q, revision |-> page.revision,
                  seen |-> page.shown[i], born |-> page.born[i],
                  listed |-> i \in page.listed])
     /\ UNCHANGED <<bookingVars, catalogVars, revision, selected, today, tab>>

\* The customer reloads, closes the tab or loses the network: the handler runs
\* on, and nobody reads its answer.
SaveAbandon(t) ==
  /\ req[t].op = "save"
  /\ req' = [req EXCEPT ![t].tab = NoTab]
  /\ UNCHANGED <<bookingVars, catalogVars, revision, selected, today, tab>>

\* The request goes on to read the snapshot it answers with.
Reply(t) ==
  req' = [req EXCEPT ![t] = IF req[t].tab = NoTab THEN Idle
                            ELSE [op |-> "reply", tab |-> req[t].tab,
                                  booking |-> req[t].booking]]

\* The UPDATE that claims the expected revision matches one row.
RevisionClaimed(r) ==
  /\ r.booking \in bookings
  /\ revision[r.booking] = r.revision
  /\ revision[r.booking] < MaxRevision

\* Mutant of SaveAllowed: a hidden item may still be taken out of the basket.
SaveAllowedToClear(r) == /\ r.item \in items
                         /\ visible[r.item] \/ r.quantity = 0
                         /\ r.quantity <= stock[r.item]

SaveAllowed(r) == /\ r.item \in items
                  /\ visible[r.item]
                  /\ r.quantity <= stock[r.item]

\* One transaction: claim, item checks, replace_selection, commit.
SaveCommit(t) ==
  LET r == req[t]
  IN /\ r.op = "save"
     /\ RevisionClaimed(r)
     /\ SaveAllowed(r)
     /\ revision' = [revision EXCEPT ![r.booking] = @ + 1]
     /\ selected' = [selected EXCEPT ![r.booking][r.item] = r.quantity]
     /\ Reply(t)
     /\ UNCHANGED <<bookingVars, catalogVars, today, tab>>

\* Rolled back: 409, 404 or 422 after a failed check, 503 after a database error.
SaveRefuse(t) ==
  /\ req[t].op = "save"
  /\ Reply(t)
  /\ UNCHANGED <<bookingVars, catalogVars, revision, selected, today, tab>>

\* basket_snapshot reads the revision first ...
ReplyRevision(t) ==
  LET r == req[t]
  IN /\ r.op = "reply"
     /\ r.booking \in bookings
     /\ req' = [req EXCEPT ![t] = [op |-> "snapshot", tab |-> r.tab,
                                   booking |-> r.booking,
                                   revision |-> revision[r.booking]]]
     /\ UNCHANGED <<bookingVars, catalogVars, revision, selected, today, tab>>

\* ... and then the items: the visible ones and the hidden ones in the basket.
SnapshotItems(b) == {i \in items : visible[i] \/ selected[b][i] > 0}

\* basket.js applySnapshot updates the cards the answer lists, leaves the
\* others as they are, and takes over the revision.  (After a commit the session
\* still holds the saved item as it read it, so an item hidden since then looks
\* visible in the answer, as if it had been hidden just after it.)
ReplyDeliver(t) ==
  LET r == req[t]
      page == tab[r.tab]
      listed == page.cards \cap SnapshotItems(r.booking)
  IN /\ r.op = "snapshot"
     /\ tab' = [tab EXCEPT ![r.tab] =
          [page EXCEPT
            !.revision = r.revision,
            !.listed = listed,
            !.locked = (@ \ listed) \cup {i \in listed : ~visible[i]},
            !.shown = [i \in ItemId |-> IF i \in listed THEN selected[r.booking][i]
                                        ELSE page.shown[i]]]]
     /\ Finish(t)
     /\ UNCHANGED <<bookingVars, catalogVars, revision, selected, today>>

-----------------------------------------------------------------------------
(* Administrator: bookings *)

\* Mutant of BookingCreate: the table forgets the largest id it handed out.
BookingCreateForgotten(t, d) ==
  LET b == lastBooking + 1
  IN /\ req[t] = Idle
     /\ b \in BookingId
     /\ bookings' = bookings \cup {b}
     /\ eventDate' = [eventDate EXCEPT ![b] = d]
     /\ revision' = [revision EXCEPT ![b] = 0]
     /\ UNCHANGED <<lastBooking, catalogVars, selected, today, req, tab>>

BookingCreate(t, d) ==
  LET b == lastBooking + 1
  IN /\ req[t] = Idle
     /\ b \in BookingId
     /\ bookings' = bookings \cup {b}
     /\ lastBooking' = b
     /\ eventDate' = [eventDate EXCEPT ![b] = d]
     /\ revision' = [revision EXCEPT ![b] = 0]
     /\ UNCHANGED <<catalogVars, selected, today, req, tab>>

MoveBookingBegin(t, b, d) ==
  /\ b \in bookings
  /\ Begin(t, [op |-> "moveBooking", booking |-> b, loaded |-> eventDate[b], date |-> d])
  /\ UNCHANGED <<bookingVars, catalogVars, revision, selected, today, tab>>

\* The ORM writes event_date only when it differs from the loaded value.
MoveBookingCommit(t) ==
  LET r == req[t]
  IN /\ r.op = "moveBooking"
     /\ r.booking \in bookings
     /\ eventDate' = [eventDate EXCEPT ![r.booking] = IF r.date = r.loaded THEN @ ELSE r.date]
     /\ Finish(t)
     /\ UNCHANGED <<bookings, lastBooking, catalogVars, revision, selected, today, tab>>

DeleteBookingBegin(t, b) ==
  /\ b \in bookings
  /\ Begin(t, [op |-> "deleteBooking", booking |-> b])
  /\ UNCHANGED <<bookingVars, catalogVars, revision, selected, today, tab>>

\* Mutant of DeleteBookingCommit: no cascade.
DeleteBookingOrphans(t) ==
  /\ req[t].op = "deleteBooking"
  /\ bookings' = bookings \ {req[t].booking}
  /\ Finish(t)
  /\ UNCHANGED <<lastBooking, eventDate, catalogVars, revision, selected, today, tab>>

\* The foreign key cascades to the booking's selections.
DeleteBookingCommit(t) ==
  LET b == req[t].booking
  IN /\ req[t].op = "deleteBooking"
     /\ bookings' = bookings \ {b}
     /\ selected' = [selected EXCEPT ![b] = [i \in ItemId |-> 0]]
     /\ Finish(t)
     /\ UNCHANGED <<lastBooking, eventDate, catalogVars, revision, today, tab>>

AdminSaveBegin(t, b, i, q) ==
  /\ b \in bookings /\ i \in items
  /\ Begin(t, [op |-> "adminSave", booking |-> b, item |-> i, quantity |-> q])
  /\ UNCHANGED <<bookingVars, catalogVars, revision, selected, today, tab>>

\* Mutant of AdminSaveCommit: the edit does not count as a revision.
AdminSaveUncounted(t) ==
  LET r == req[t]
  IN /\ r.op = "adminSave"
     /\ r.booking \in bookings
     /\ r.item \in items \/ r.quantity = 0
     /\ selected' = [selected EXCEPT ![r.booking][r.item] = r.quantity]
     /\ Finish(t)
     /\ UNCHANGED <<bookingVars, catalogVars, revision, today, tab>>

\* No revision check and no stock or visibility limit.  A row for an item that
\* is gone breaks the foreign key; quantity 0 deletes a row that may be gone.
AdminSaveCommit(t) ==
  LET r == req[t]
  IN /\ r.op = "adminSave"
     /\ r.booking \in bookings
     /\ r.item \in items \/ r.quantity = 0
     /\ revision[r.booking] < MaxRevision
     /\ revision' = [revision EXCEPT ![r.booking] = @ + 1]
     /\ selected' = [selected EXCEPT ![r.booking][r.item] = r.quantity]
     /\ Finish(t)
     /\ UNCHANGED <<bookingVars, catalogVars, today, tab>>

-----------------------------------------------------------------------------
(* Administrator: inventory *)

\* inventory_items has no AUTOINCREMENT: SQLite hands out the largest id in
\* use plus one, so the id of a deleted newest item is handed out again.
IsNextItemId(i) == /\ \A j \in items : j < i
                   /\ i = 1 \/ i - 1 \in items

ItemCreate(t, i, s, v) ==
  /\ req[t] = Idle
  /\ IsNextItemId(i)
  /\ birth[i] < MaxBirth
  /\ items' = items \cup {i}
  /\ stock' = [stock EXCEPT ![i] = s]
  /\ visible' = [visible EXCEPT ![i] = v]
  /\ birth' = [birth EXCEPT ![i] = @ + 1]
  /\ UNCHANGED <<bookingVars, revision, selected, today, req, tab>>

UpdateItemBegin(t, i, s, v) ==
  /\ i \in items
  /\ Begin(t, [op |-> "updateItem", item |-> i, loadedStock |-> stock[i],
               loadedVisible |-> visible[i], stock |-> s, visible |-> v])
  /\ UNCHANGED <<bookingVars, catalogVars, revision, selected, today, tab>>

\* item_update writes the fields that differ from what it loaded.
UpdateItemCommit(t) ==
  LET r == req[t]
  IN /\ r.op = "updateItem"
     /\ r.item \in items
     /\ stock' = [stock EXCEPT ![r.item] = IF r.stock = r.loadedStock THEN @ ELSE r.stock]
     /\ visible' = [visible EXCEPT ![r.item] =
                      IF r.visible = r.loadedVisible THEN @ ELSE r.visible]
     /\ Finish(t)
     /\ UNCHANGED <<bookingVars, items, birth, revision, selected, today, tab>>

ToggleItemBegin(t, i) ==
  /\ i \in items
  /\ Begin(t, [op |-> "toggleItem", item |-> i, loadedVisible |-> visible[i]])
  /\ UNCHANGED <<bookingVars, catalogVars, revision, selected, today, tab>>

ToggleItemCommit(t) ==
  LET r == req[t]
  IN /\ r.op = "toggleItem"
     /\ r.item \in items
     /\ visible' = [visible EXCEPT ![r.item] = ~r.loadedVisible]
     /\ Finish(t)
     /\ UNCHANGED <<bookingVars, items, stock, birth, revision, selected, today, tab>>

\* _item_deletion_blockers: a booking dated day or later has the item.
Blocked(i, day) == \E b \in bookings : selected[b][i] > 0 /\ eventDate[b] >= day

DeleteItemBegin(t, i) ==
  /\ i \in items
  /\ ~Blocked(i, today)
  /\ Begin(t, [op |-> "deleteItem", item |-> i, day |-> today])
  /\ UNCHANGED <<bookingVars, catalogVars, revision, selected, today, tab>>

\* Mutant of DeleteItemCommit: the guard is not evaluated again.
DeleteItemUnchecked(t) ==
  LET r == req[t]
  IN /\ r.op = "deleteItem"
     /\ r.item \in items
     /\ items' = items \ {r.item}
     /\ selected' = [b \in BookingId |-> [selected[b] EXCEPT ![r.item] = 0]]
     /\ Finish(t)
     /\ UNCHANGED <<bookingVars, stock, visible, birth, revision, today, tab>>

\* After the guard above the handler waits for the snapshot lock and loads the
\* item again; then one transaction deletes the past selections, checks again
\* and deletes the item.  The date is the one of the first guard.
DeleteItemCommit(t) ==
  LET r == req[t]
  IN /\ r.op = "deleteItem"
     /\ r.item \in items
     /\ ~Blocked(r.item, r.day)
     /\ items' = items \ {r.item}
     /\ selected' = [b \in BookingId |-> [selected[b] EXCEPT ![r.item] = 0]]
     /\ Finish(t)
     /\ UNCHANGED <<bookingVars, stock, visible, birth, revision, today, tab>>

-----------------------------------------------------------------------------
\* A handler ends without an effect: a 404, an error page after a rollback, a
\* lost answer, a killed worker.
Fail(t) ==
  /\ req[t] # Idle
  /\ Finish(t)
  /\ UNCHANGED <<bookingVars, catalogVars, revision, selected, today, tab>>

NextDay ==
  /\ today < LastDay
  /\ today' = today + 1
  /\ UNCHANGED <<bookingVars, catalogVars, revision, selected, req, tab>>

CustomerStep(t) ==
  \/ \E p \in Tab, b \in BookingId : PortalBegin(t, p, b)
  \/ \E basketOnly \in BOOLEAN : PortalRender(t, basketOnly)
  \/ \E p \in Tab, i \in ItemId, q \in Quantity : SaveBegin(t, p, i, q)
  \/ SaveAbandon(t)
  \/ SaveCommit(t)
  \/ SaveRefuse(t)
  \/ ReplyRevision(t)
  \/ ReplyDeliver(t)

AdminBookingStep(t) ==
  \/ \E d \in Day : BookingCreate(t, d)
  \/ \E b \in BookingId, d \in Day : MoveBookingBegin(t, b, d)
  \/ MoveBookingCommit(t)
  \/ \E b \in BookingId : DeleteBookingBegin(t, b)
  \/ DeleteBookingCommit(t)
  \/ \E b \in BookingId, i \in ItemId, q \in Quantity : AdminSaveBegin(t, b, i, q)
  \/ AdminSaveCommit(t)

AdminItemStep(t) ==
  \/ \E i \in ItemId, s \in Quantity, v \in BOOLEAN : ItemCreate(t, i, s, v)
  \/ \E i \in ItemId, s \in Quantity, v \in BOOLEAN : UpdateItemBegin(t, i, s, v)
  \/ UpdateItemCommit(t)
  \/ \E i \in ItemId : ToggleItemBegin(t, i)
  \/ ToggleItemCommit(t)
  \/ \E i \in ItemId : DeleteItemBegin(t, i)
  \/ DeleteItemCommit(t)

Next == \/ \E t \in Thread : CustomerStep(t) \/ AdminBookingStep(t)
                             \/ AdminItemStep(t) \/ Fail(t)
        \/ NextDay

Spec == Init /\ [][Next]_vars
-----------------------------------------------------------------------------
(* Properties *)

\* Every variable has its type.
TypeOK ==
  /\ bookings \subseteq 1..lastBooking
  /\ lastBooking \in 0..MaxBooking
  /\ eventDate \in [BookingId -> Day]
  /\ revision \in [BookingId -> Nat]
  /\ items \subseteq ItemId
  /\ stock \in [ItemId -> Quantity]
  /\ visible \in [ItemId -> BOOLEAN]
  /\ birth \in [ItemId -> Nat]
  /\ selected \in [BookingId -> [ItemId -> Quantity]]
  /\ today \in Day
  /\ req \in [Thread -> Request]
  /\ tab \in [Tab -> Page]

\* A basket row always joins a booking and an item that exist, whichever of
\* them an administrator deletes while a save is on its way (models.py
\* BookingSelection, PRAGMA foreign_keys=ON).
SelectionsJoinLiveRows ==
  \A b \in BookingId, i \in ItemId :
    selected[b][i] > 0 => b \in bookings /\ i \in items

\* If booking b is still at revision rev and item i is still the n-th item to
\* have its id, then the basket holds q of it.
StillHolds(b, rev, i, n, q) ==
  b \in bookings /\ revision[b] = rev /\ i \in items /\ birth[i] = n
    => selected[b][i] = q

\* The optimistic lock of docs/plans/04 works: a page whose revision is the
\* booking's current one shows the current quantity of every card its last
\* answer listed, and so does the card behind a save request on its way.
\* Revision and items are read by separate SELECTs, in that order.
PageIsCurrent(page) ==
  page # NoPage => \A i \in page.listed :
    StillHolds(page.booking, page.revision, i, page.born[i], page.shown[i])

SaveIsCurrent(r) ==
  r.op = "save" /\ r.listed =>
    StillHolds(r.booking, r.revision, r.item, r.born, r.seen)

CurrentRevisionShowsCurrentBasket ==
  /\ \A p \in Tab : PageIsCurrent(tab[p])
  /\ \A t \in Thread : SaveIsCurrent(req[t])

\* Tabs and answers match: a tab waits for one answer at most, and the answer to
\* a save is about the booking whose page asked.
AnswersFitPages ==
  \A t, u \in Thread, p \in Tab :
    /\ Awaits(p, req[t]) /\ Awaits(p, req[u]) => t = u
    /\ Awaits(p, req[t]) /\ req[t].op # "portal" => tab[p].booking = req[t].booking

\* Handlers and pages only look back: none knows a revision its booking has not
\* reached, a booking not yet created, an item not yet born or a date to come.
RequestNotAhead(r) ==
  /\ r.op \in {"portal", "save", "reply", "snapshot"} => r.booking <= lastBooking
  /\ r.op \in {"portal", "save", "snapshot"} => r.revision <= revision[r.booking]
  /\ r.op = "save" => r.born <= birth[r.item]
  /\ r.op = "deleteItem" => r.day <= today

PageNotAhead(page) ==
  page # NoPage => /\ page.booking <= lastBooking
                   /\ page.revision <= revision[page.booking]
                   /\ \A i \in ItemId : page.born[i] <= birth[i]

NothingFromTheFuture ==
  /\ \A t \in Thread : RequestNotAhead(req[t])
  /\ \A p \in Tab : PageNotAhead(tab[p])

\* The inductive invariant behind the properties above.
IInv == /\ TypeOK
        /\ AnswersFitPages
        /\ NothingFromTheFuture
        /\ SelectionsJoinLiveRows
        /\ CurrentRevisionShowsCurrentBasket

\* Every handler takes effect at one instant (BasketStore.tla).
Store == INSTANCE BasketStore
HandlersAreAtomic == Store!Spec

\* Deleting an item never takes it from a booking dated today or later: the
\* first guard, the wait for the snapshot lock, the second guard and midnight
\* in Chicago may come in any order with other administrators and customers.
DeletionSparesCurrentBookings ==
  [][\A i \in items \ items', b \in bookings :
       selected[b][i] > 0 => eventDate[b] < today]_vars

\* Only an administrator changes how many of a hidden item a basket has, to none
\* included ("Its saved quantity is locked", app/views/customer.py:157), or puts
\* more than the stock of an item into one; also when the visibility or the stock
\* changes while a customer's save is on its way.  Deletions are of rows, not edits.
CustomersStayWithinCatalog ==
  [][\A b \in bookings \cap bookings', i \in items \cap items' :
       /\ selected'[b][i] # selected[b][i]
       /\ ~visible[i] \/ selected'[b][i] > stock[i]
       => \E t \in Thread :
            /\ req[t].op = "adminSave" /\ req[t].booking = b /\ req[t].item = i
            /\ req'[t] = Idle]_vars

\* docs/plans/04: "A stale customer write does not silently overwrite a newer
\* accepted edit."  What an accepted save replaces is what the card showed.
NoSilentOverwrite ==
  [][\A t \in Thread : SaveCommit(t) =>
       selected[req[t].booking][req[t].item] = req[t].seen]_vars

\* The answer for a deleted item is "This catalog item is no longer available."
\* (customer.py selection_update): a save from an open page is accepted only
\* for the item whose card the customer changed.
SaveReachesTheShownItem ==
  [][\A t \in Thread : SaveCommit(t) => birth[req[t].item] = req[t].born]_vars
=============================================================================
