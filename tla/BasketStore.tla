----------------------------- MODULE BasketStore -----------------------------
(***************************************************************************)
(* What the booking and basket handlers promise together: every operation  *)
(* takes effect at one instant, on the bookings, items and basket rows     *)
(* that exist at that instant.  Baskets.tla, where a handler loads rows    *)
(* first and writes them later, implements this specification.  Who may    *)
(* edit what is left to the properties of Baskets.tla.                     *)
(***************************************************************************)
EXTENDS Integers

CONSTANTS MaxBooking, MaxItem, MaxQuantity, LastDay

BookingId == 1..MaxBooking
ItemId == 1..MaxItem
Quantity == 0..MaxQuantity
Day == 0..LastDay

VARIABLES bookings, lastBooking, eventDate, revision,
          items, stock, visible, selected, today

bookingVars == <<bookings, lastBooking, eventDate>>
itemVars == <<items, stock, visible>>
vars == <<bookings, lastBooking, eventDate, revision, items, stock, visible,
          selected, today>>

Init ==
  /\ bookings = {} /\ lastBooking = 0
  /\ eventDate = [b \in BookingId |-> 0]
  /\ revision = [b \in BookingId |-> 0]
  /\ items = {}
  /\ stock = [i \in ItemId |-> 0]
  /\ visible = [i \in ItemId |-> FALSE]
  /\ selected = [b \in BookingId |-> [i \in ItemId |-> 0]]
  /\ today = 0

\* Put q of item i into the basket of booking b: one edit, one revision.
Edit(b, i, q) ==
  /\ b \in bookings
  /\ i \in items \/ q = 0
  /\ revision' = [revision EXCEPT ![b] = @ + 1]
  /\ selected' = [selected EXCEPT ![b][i] = q]
  /\ UNCHANGED <<bookingVars, itemVars, today>>

\* A booking id is never issued twice.
AddBooking(b, d) ==
  /\ b = lastBooking + 1
  /\ bookings' = bookings \cup {b}
  /\ lastBooking' = b
  /\ eventDate' = [eventDate EXCEPT ![b] = d]
  /\ revision' = [revision EXCEPT ![b] = 0]
  /\ UNCHANGED <<itemVars, selected, today>>

MoveBooking(b, d) ==
  /\ b \in bookings
  /\ eventDate' = [eventDate EXCEPT ![b] = d]
  /\ UNCHANGED <<bookings, lastBooking, itemVars, revision, selected, today>>

\* The booking goes with its basket.
RemoveBooking(b) ==
  /\ b \in bookings
  /\ bookings' = bookings \ {b}
  /\ selected' = [selected EXCEPT ![b] = [i \in ItemId |-> 0]]
  /\ UNCHANGED <<lastBooking, eventDate, itemVars, revision, today>>

AddItem(i, s, v) ==
  /\ i \notin items
  /\ items' = items \cup {i}
  /\ stock' = [stock EXCEPT ![i] = s]
  /\ visible' = [visible EXCEPT ![i] = v]
  /\ UNCHANGED <<bookingVars, revision, selected, today>>

ChangeItem(i, s, v) ==
  /\ i \in items
  /\ stock' = [stock EXCEPT ![i] = s]
  /\ visible' = [visible EXCEPT ![i] = v]
  /\ UNCHANGED <<bookingVars, items, revision, selected, today>>

\* Only past bookings may lose an item from their basket.
RemoveItem(i) ==
  /\ i \in items
  /\ \A b \in bookings : selected[b][i] > 0 => eventDate[b] < today
  /\ items' = items \ {i}
  /\ selected' = [b \in BookingId |-> [selected[b] EXCEPT ![i] = 0]]
  /\ UNCHANGED <<bookingVars, stock, visible, revision, today>>

NextDay ==
  /\ today' = today + 1
  /\ UNCHANGED <<bookingVars, itemVars, revision, selected>>

Next ==
  \/ \E b \in BookingId, i \in ItemId, q \in Quantity : Edit(b, i, q)
  \/ \E b \in BookingId, d \in Day : AddBooking(b, d) \/ MoveBooking(b, d)
  \/ \E b \in BookingId : RemoveBooking(b)
  \/ \E i \in ItemId, s \in Quantity, v \in BOOLEAN :
       AddItem(i, s, v) \/ ChangeItem(i, s, v)
  \/ \E i \in ItemId : RemoveItem(i)
  \/ NextDay

Spec == Init /\ [][Next]_vars
=============================================================================
