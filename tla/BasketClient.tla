---------------------------- MODULE BasketClient ----------------------------
(***************************************************************************)
(* One open basket page (app/static/js/basket.js): a card per item, a      *)
(* debounce timer per card, one queue of cards with unsaved drafts and at  *)
(* most one request on its way.  The server side is what Baskets.tla shows *)
(* of it: a save is one atomic step, and the answer is read afterwards,    *)
(* first the revision and then the items.                                  *)
(*                                                                         *)
(* JavaScript runs an event handler to completion, so each event is one    *)
(* step: the functions of basket.js are operators from page to page, and a *)
(* step composes those its handler calls.                                  *)
(***************************************************************************)
EXTENDS Integers, Sequences

CONSTANTS
  Item,         \* the items that have a card on the page
  NoItem,       \* basket.js: active === null
  BasketOnly,   \* the page lists the basket instead of the catalog
  MaxQuantity,  \* bound: quantities and stock
  MaxTyping,    \* bound: inputs and retries of the customer
  MaxChange     \* bound: changes made by administrators

ASSUME NoItemAssumption == NoItem \notin Item
ASSUME ClientAssumption ==
  BasketOnly \in BOOLEAN /\ MaxQuantity \in Nat /\ MaxTyping \in Nat /\ MaxChange \in Nat

Quantity == 0..MaxQuantity

\* null, and an input field that holds no number
None == -1
Number == Quantity \cup {None}

VARIABLES
  items,     \* rows of inventory_items
  revision,  \* bookings.revision
  selected,  \* the booking's basket
  stock, visible,
  page,      \* the variables of basket.js and the fields of its cards
  reply,     \* how far the server is with the request of the page
  orphan,    \* a request whose page gave up on it before the server saw it
  typed,     \* number of the latest draft
  changes,   \* history: administrators' changes so far
  edits,     \* history: edits of an item that were not made by an answered save
  accepted   \* history: the draft whose save was accepted last, per item

tables == <<items, revision, selected, stock, visible>>
vars == <<items, revision, selected, stock, visible, page, reply, orphan, typed,
          changes, edits, accepted>>

Status == {"saved", "saving", "error", "retry", "locked", "gone"}

Call == [item : Item, quantity : Quantity, revision : Nat, draft : Nat, edits : Nat]
NoCall == [item |-> NoItem]

\* status: what the card says; "retry" is an error with the Retry button shown,
\* "gone" an error with the input disabled for good.  shownEdits, draft and
\* draftEdits are history: the edits the displayed quantity accounts for, the
\* number of the card's draft and the edits displayed when it was typed.
PageState ==
  [cards : SUBSET Item, revision : Nat, queue : Seq(Item), call : Call \cup {NoCall},
   input : [Item -> Number], max : [Item -> Quantity], timer : [Item -> BOOLEAN],
   pending : [Item -> Number], queued : [Item -> BOOLEAN],
   lastAttempt : [Item -> Number], serverValue : [Item -> Quantity],
   available : [Item -> BOOLEAN], status : [Item -> Status],
   shownEdits : [Item -> Nat], draft : [Item -> Nat], draftEdits : [Item -> Nat]]

\* The request the server is handling: not yet, served, revision read.  stock is
\* what the transaction read of the item.
NoReply == [code |-> "none"]
Code == {"ok", "stale_revision", "item_not_found", "item_unavailable",
         "quantity_out_of_range", "save_failed"}
Reply == {NoReply} \cup [code : Code, stock : Quantity, read : {FALSE}]
                   \cup [code : Code, stock : Quantity, read : {TRUE}, revision : Nat]

-----------------------------------------------------------------------------
(* The functions of basket.js *)

ParsedQuantity(p, i) == IF p.input[i] <= p.max[i] THEN p.input[i] ELSE None

PendingIds(p) == {i \in p.cards : p.pending[i] # None}

Active(p) == p.call.item

\* Mutant of Ready: a card whose draft was dropped is sent as well.
ReadyAnyway(p) == 1..Len(p.queue)

\* drain: the queue entries that still have a draft.  Entries before the first of
\* them are dropped; its draft is sent with the revision the page knows.
Ready(p) == {k \in 1..Len(p.queue) : p.pending[p.queue[k]] # None}

First(S) == CHOOSE k \in S : \A j \in S : k <= j

Send(p, k) ==
  LET i == p.queue[k]
      rest == SubSeq(p.queue, k + 1, Len(p.queue))
  IN [p EXCEPT
       !.queue = rest,
       !.queued = [j \in Item |-> \E n \in 1..Len(rest) : rest[n] = j],
       !.call = [item |-> i, quantity |-> p.pending[i], revision |-> p.revision,
                 draft |-> p.draft[i], edits |-> p.draftEdits[i]],
       !.lastAttempt[i] = p.pending[i],
       !.pending[i] = None,
       !.status[i] = "saving"]

\* Mutant of Drain: dropped entries keep their queued flag.
DrainKeepsFlags(p) ==
  IF Active(p) # NoItem THEN p
  ELSE IF Ready(p) = {} THEN [p EXCEPT !.queue = <<>>]
  ELSE Send(p, First(Ready(p)))

Drain(p) ==
  IF Active(p) # NoItem THEN p
  ELSE IF Ready(p) = {} THEN [p EXCEPT !.queue = <<>>, !.queued = [j \in Item |-> FALSE]]
  ELSE Send(p, First(Ready(p)))

Enqueue(p, i) ==
  Drain(IF p.queued[i] THEN p
        ELSE [p EXCEPT !.queued[i] = TRUE, !.queue = Append(@, i)])

\* schedule, for the value v just typed; "change" events are immediate.
Schedule(p, i, v, immediate) ==
  LET q == [p EXCEPT !.input[i] = v, !.timer[i] = FALSE,
                     !.draft[i] = typed + 1, !.draftEdits[i] = p.shownEdits[i]]
      quantity == ParsedQuantity(q, i)
      drafted == [q EXCEPT !.pending[i] = quantity, !.lastAttempt[i] = quantity,
                           !.status[i] = "saving"]
  IN IF quantity = None THEN [q EXCEPT !.pending[i] = None, !.status[i] = "error"]
     ELSE IF immediate THEN Enqueue(drafted, i)
     ELSE [drafted EXCEPT !.timer[i] = TRUE]

RetrySave(p, i) ==
  Enqueue([p EXCEPT !.input[i] = p.lastAttempt[i], !.pending[i] = p.lastAttempt[i],
                    !.status[i] = "saving", !.draft[i] = typed + 1,
                    !.draftEdits[i] = p.shownEdits[i]], i)

\* applySnapshot with setAvailability, for the answer ans.  A card the answer
\* does not list keeps everything; a hidden item's card loses its draft.
ApplySnapshot(p, ans, preserve) ==
  LET listed == {i \in p.cards \cap items : visible[i] \/ selected[i] > 0}
      locked == {i \in listed : ~ans.visible[i]}
      Set(f, S, v) == [i \in Item |-> IF i \in S THEN v ELSE f[i]]
      Take(f, S, g) == [i \in Item |-> IF i \in S THEN g[i] ELSE f[i]]
  IN [p EXCEPT
       !.revision = ans.revision,
       !.serverValue = Take(@, listed, selected),
       !.shownEdits = Take(@, listed, edits),
       !.max = Take(@, listed, ans.stock),
       !.input = Take(@, listed \ preserve, selected),
       !.available = Take(@, listed, ans.visible),
       !.timer = Set(@, locked, FALSE),
       !.pending = Set(@, locked, None),
       !.lastAttempt = Set(@, locked, None),
       !.status = [i \in Item |->
                     IF i \in locked THEN "locked"
                     ELSE IF i \in listed /\ ~p.available[i] THEN "saved"
                     ELSE p.status[i]]]

OfferRetry(p, i, desired) ==
  IF p.available[i] THEN [p EXCEPT !.lastAttempt[i] = desired, !.status[i] = "retry"]
                    ELSE p

Desired(p, i) == IF p.pending[i] # None THEN p.pending[i] ELSE p.call.quantity

HandleSaved(p, i, ans) ==
  LET invalid == ParsedQuantity(p, i) = None
      q == ApplySnapshot(p, ans, PendingIds(p) \cup (IF invalid THEN {i} ELSE {}))
      persisted == IF i \in items THEN selected[i] ELSE 0
  IN IF invalid THEN q
     ELSE IF q.pending[i] \notin {None, persisted}
       THEN Enqueue([q EXCEPT !.status[i] = "saving"], i)
     ELSE [q EXCEPT !.pending[i] = None, !.input[i] = persisted,
                    !.lastAttempt[i] = None, !.status[i] = "saved",
                    !.cards = IF BasketOnly /\ persisted = 0 THEN @ \ {i} ELSE @]

HandleStale(p, i, ans) ==
  LET q == [p EXCEPT !.pending[i] = None]
  IN OfferRetry(ApplySnapshot(q, ans, PendingIds(q) \cup {i}), i, Desired(p, i))

HandleStockChange(p, i, ans) ==
  LET q == ApplySnapshot(p, ans, PendingIds(p))
  IN IF p.pending[i] # None /\ ParsedQuantity(q, i) # None
       THEN Enqueue([q EXCEPT !.status[i] = "saving"], i)
     ELSE [q EXCEPT !.pending[i] = None, !.lastAttempt[i] = None,
                    !.input[i] = q.serverValue[i], !.status[i] = "error"]

HandleUnavailable(p, i, ans) ==
  LET q == ApplySnapshot([p EXCEPT !.pending[i] = None, !.lastAttempt[i] = None], ans, {})
  IN [q EXCEPT !.available[i] = FALSE, !.timer[i] = FALSE, !.pending[i] = None,
               !.lastAttempt[i] = None, !.status[i] = "error"]

HandleNotFound(p, i, ans) ==
  [ApplySnapshot([p EXCEPT !.pending[i] = None], ans, {}) EXCEPT !.status[i] = "gone"]

\* Mutant of HandleLost: a failed request looks saved.
HandleLostSilently(p, i) == [p EXCEPT !.pending[i] = None, !.status[i] = "saved"]

\* No usable answer: the draft is kept for a retry.
HandleLost(p, i) == OfferRetry([p EXCEPT !.pending[i] = None], i, Desired(p, i))

Handle(p, i, code, ans) ==
  CASE code = "ok" -> HandleSaved(p, i, ans)
    [] code \in {"stale_revision", "save_failed"} -> HandleStale(p, i, ans)
    [] code = "quantity_out_of_range" -> HandleStockChange(p, i, ans)
    [] code = "item_unavailable" -> HandleUnavailable(p, i, ans)
    [] code = "item_not_found" -> HandleNotFound(p, i, ans)

\* Mutant of Finish: the next draft is not sent.
FinishWithoutDrain(p) == [p EXCEPT !.call = NoCall]

\* The finally block of drain.
Finish(p) == Drain([p EXCEPT !.call = NoCall])

-----------------------------------------------------------------------------
\* A page just rendered: every card shows what the basket holds.
Init ==
  /\ items = Item
  /\ revision = 0
  /\ stock \in [Item -> Quantity]
  /\ selected \in [Item -> Quantity]
  /\ visible \in [Item -> BOOLEAN]
  /\ \A i \in Item : IF BasketOnly THEN selected[i] > 0 ELSE visible[i]
  /\ page =
       [cards |-> Item, revision |-> 0, queue |-> <<>>, call |-> NoCall,
        input |-> selected, max |-> stock, timer |-> [i \in Item |-> FALSE],
        pending |-> [i \in Item |-> None], queued |-> [i \in Item |-> FALSE],
        lastAttempt |-> [i \in Item |-> None], serverValue |-> selected,
        available |-> visible,
        status |-> [i \in Item |-> IF visible[i] THEN "saved" ELSE "locked"],
        shownEdits |-> [i \in Item |-> 0], draft |-> [i \in Item |-> 0],
        draftEdits |-> [i \in Item |-> 0]]
  /\ reply = NoReply
  /\ orphan = NoCall
  /\ typed = 0 /\ changes = 0
  /\ edits = [i \in Item |-> 0]
  /\ accepted = [i \in Item |-> 0]

-----------------------------------------------------------------------------
(* The customer and the timers *)

Enabled(i) == i \in page.cards /\ page.available[i] /\ page.status[i] # "gone"

Type(i, v, immediate) ==
  /\ typed < MaxTyping
  /\ Enabled(i)
  /\ page' = Schedule(page, i, v, immediate)
  /\ typed' = typed + 1
  /\ UNCHANGED <<tables, reply, orphan, changes, edits, accepted>>

ClickRetry(i) ==
  /\ typed < MaxTyping
  /\ Enabled(i)
  /\ page.status[i] = "retry" /\ page.lastAttempt[i] # None
  /\ page' = RetrySave(page, i)
  /\ typed' = typed + 1
  /\ UNCHANGED <<tables, reply, orphan, changes, edits, accepted>>

TimerFires(i) ==
  /\ page.timer[i]
  /\ page' = Enqueue([page EXCEPT !.timer[i] = FALSE], i)
  /\ UNCHANGED <<tables, reply, orphan, typed, changes, edits, accepted>>

-----------------------------------------------------------------------------
(* The server *)

\* Mutant of Verdict: a save ignores the revision.
VerdictIgnoringRevision(c) ==
  IF c.item \notin items THEN "item_not_found"
  ELSE IF ~visible[c.item] THEN "item_unavailable"
  ELSE IF c.quantity > stock[c.item] THEN "quantity_out_of_range"
  ELSE "ok"

\* The order of the checks of selection_update.
Verdict(c) ==
  IF c.revision # revision THEN "stale_revision"
  ELSE IF c.item \notin items THEN "item_not_found"
  ELSE IF ~visible[c.item] THEN "item_unavailable"
  ELSE IF c.quantity > stock[c.item] THEN "quantity_out_of_range"
  ELSE "ok"

Accept(c) ==
  /\ revision' = revision + 1
  /\ selected' = [selected EXCEPT ![c.item] = c.quantity]
  /\ accepted' = [accepted EXCEPT ![c.item] = c.draft]
  /\ UNCHANGED <<items, stock, visible>>

\* The request is handled, or fails in the database.
Serve(code) ==
  /\ Active(page) # NoItem
  /\ reply = NoReply
  /\ code \in {Verdict(page.call), "save_failed"}
  /\ reply' = [code |-> code, stock |-> stock[page.call.item], read |-> FALSE]
  /\ IF code = "ok" THEN Accept(page.call) ELSE UNCHANGED <<tables, accepted>>
  /\ UNCHANGED <<page, orphan, typed, changes, edits>>

\* A request nobody waits for is handled late.
ServeOrphan ==
  /\ orphan # NoCall
  /\ orphan' = NoCall
  /\ IF Verdict(orphan) = "ok"
       THEN /\ Accept(orphan)
            /\ edits' = [edits EXCEPT ![orphan.item] = @ + 1]
       ELSE UNCHANGED <<tables, accepted, edits>>
  /\ UNCHANGED <<page, reply, typed, changes>>

ReadRevision ==
  /\ reply # NoReply /\ ~reply.read
  /\ reply' = [code |-> reply.code, stock |-> reply.stock, read |-> TRUE,
               revision |-> revision]
  /\ UNCHANGED <<tables, page, orphan, typed, changes, edits, accepted>>

\* After a commit the session still holds the item as the transaction read it
\* (expire_on_commit=False); after a rollback everything is read again.
Answer ==
  LET i == Active(page)
      held == reply.code = "ok"
  IN [revision |-> reply.revision,
      stock |-> IF held THEN [stock EXCEPT ![i] = reply.stock] ELSE stock,
      visible |-> IF held THEN [visible EXCEPT ![i] = TRUE] ELSE visible]

\* The items are read and the answer reaches the page.
Deliver ==
  /\ reply # NoReply /\ reply.read
  /\ page' = Finish(Handle(page, Active(page), reply.code, Answer))
  /\ reply' = NoReply
  /\ UNCHANGED <<tables, orphan, typed, changes, edits, accepted>>

\* fetch fails, or the answer is not JSON; a request the server has not seen
\* yet may still arrive.
LoseAnswer(arrives) ==
  /\ Active(page) # NoItem
  /\ arrives => reply = NoReply /\ orphan = NoCall
  /\ page' = Finish(HandleLost(page, Active(page)))
  /\ orphan' = IF arrives THEN page.call ELSE orphan
  /\ reply' = NoReply
  /\ UNCHANGED <<tables, typed, changes, edits, accepted>>

-----------------------------------------------------------------------------
(* Administrators *)

AdminEdit(i, q) ==
  /\ changes < MaxChange
  /\ i \in items
  /\ revision' = revision + 1
  /\ selected' = [selected EXCEPT ![i] = q]
  /\ edits' = [edits EXCEPT ![i] = @ + 1]
  /\ changes' = changes + 1
  /\ UNCHANGED <<items, stock, visible, page, reply, orphan, typed, accepted>>

AdminUpdate(i, s, v) ==
  /\ changes < MaxChange
  /\ i \in items
  /\ stock' = [stock EXCEPT ![i] = s]
  /\ visible' = [visible EXCEPT ![i] = v]
  /\ changes' = changes + 1
  /\ UNCHANGED <<items, revision, selected, page, reply, orphan, typed, edits, accepted>>

\* The booking is not a past one, so an item in its basket cannot be deleted.
AdminDelete(i) ==
  /\ changes < MaxChange
  /\ i \in items /\ selected[i] = 0
  /\ items' = items \ {i}
  /\ changes' = changes + 1
  /\ UNCHANGED <<revision, selected, stock, visible, page, reply, orphan, typed,
                 edits, accepted>>

-----------------------------------------------------------------------------
Network == \/ \E code \in Code : Serve(code)
           \/ ReadRevision
           \/ Deliver
           \/ \E arrives \in BOOLEAN : LoseAnswer(arrives)

Next ==
  \/ \E i \in Item, v \in Number, immediate \in BOOLEAN : Type(i, v, immediate)
  \/ \E i \in Item : ClickRetry(i) \/ TimerFires(i)
  \/ Network
  \/ ServeOrphan
  \/ \E i \in Item, q \in Quantity : AdminEdit(i, q)
  \/ \E i \in Item, s \in Quantity, v \in BOOLEAN : AdminUpdate(i, s, v)
  \/ \E i \in Item : AdminDelete(i)

\* Timers fire, and a request is answered or given up.
Fairness == WF_vars(Network) /\ \A i \in Item : WF_vars(TimerFires(i))

Spec == Init /\ [][Next]_vars /\ Fairness

-----------------------------------------------------------------------------
(* Properties *)

\* Every variable has its type.
TypeOK ==
  /\ items \subseteq Item
  /\ revision \in Nat
  /\ selected \in [Item -> Quantity]
  /\ stock \in [Item -> Quantity]
  /\ visible \in [Item -> BOOLEAN]
  /\ page \in PageState
  /\ reply \in Reply
  /\ orphan \in Call \cup {NoCall}
  /\ typed \in Nat /\ changes \in Nat
  /\ edits \in [Item -> Nat]
  /\ accepted \in [Item -> Nat]

\* No draft is forgotten: a card with a pending draft has a running timer or is
\* in the queue, the flag that guards the queue tells who is in it, and the queue
\* waits only while a request is on its way.
NoForgottenDraft ==
  /\ \A i \in Item : page.pending[i] # None => page.timer[i] \/ page.queued[i]
  /\ \A i \in Item : page.queued[i] <=> \E k \in 1..Len(page.queue) : page.queue[k] = i
  /\ page.queue # <<>> => Active(page) # NoItem

\* A card that says "Saved" shows what the basket holds, unless the item has
\* been edited behind the page's back.
SavedIsTrue ==
  \A i \in page.cards \cap items :
    page.status[i] = "saved" /\ page.shownEdits[i] = edits[i]
      => page.input[i] = selected[i]

\* docs/plans/04, "Rapid autosave requests complete out of order": drafts of an
\* item are accepted in the order in which they were typed, retries and late
\* requests included.
DraftsAcceptedInOrder ==
  [][\A i \in Item : accepted'[i] # accepted[i] => accepted'[i] > accepted[i]]_vars

\* Again and again every draft has left the page: sent, or dropped with an error
\* shown.
DraftsAreSettled == []<>(\A i \in Item : page.pending[i] = None)

\* docs/plans/venue-inventory-poc.md: "reject stale writes, refresh current
\* state, and show a clear retry message instead of silently overwriting a newer
\* admin edit".  An accepted save was typed or retried when the page showed every
\* edit of the item.
DraftsYieldToNewerEdits ==
  [][Serve("ok") => page.call.edits = edits[page.call.item]]_vars
=============================================================================

