---------------------------- MODULE BasketsProofs ----------------------------
(* Theorems about Baskets for every value of its constants, and that it implements *)
(* BasketStore.                                                                    *)
EXTENDS Baskets, TLAPS

(* The shape of a request is known from its op. *)
LEMMA RequestShape ==
  ASSUME NEW r \in Request
  PROVE  /\ r.op = "idle" => r = Idle
         /\ r.op \in {"portal", "snapshot"} => r \in PageRequest
         /\ r.op = "save" => r \in SaveRequest
         /\ r.op = "reply" => r \in ReplyRequest
         /\ r.op = "adminSave" => r \in AdminSaveRequest
         /\ r.op = "moveBooking" => r \in MoveBookingRequest
         /\ r.op = "deleteBooking" => r \in DeleteBookingRequest
         /\ r.op = "updateItem" => r \in UpdateItemRequest
         /\ r.op = "toggleItem" => r \in ToggleItemRequest
         /\ r.op = "deleteItem" => r \in DeleteItemRequest
  BY SMT DEF Request, Idle, PageRequest, SaveRequest, ReplyRequest,
         AdminSaveRequest, MoveBookingRequest, DeleteBookingRequest,
         UpdateItemRequest, ToggleItemRequest, DeleteItemRequest

(* A page that belongs to a booking is open. *)
LEMMA PageShape ==
  ASSUME NEW page \in Page
  PROVE  /\ page # NoPage => page \in OpenPage
         /\ page.booking \in BookingId => page \in OpenPage /\ page # NoPage
  <1>1. 0 \notin BookingId
    BY SMT DEF BookingId
  <1> QED BY <1>1, SMT DEF Page, NoPage, OpenPage

(* What an answer replaces in a page. *)
LEMMA UpdatedPage ==
  ASSUME NEW page \in OpenPage, NEW rev \in Nat, NEW listed \in SUBSET ItemId,
         NEW locked \in SUBSET ItemId, NEW shown \in [ItemId -> Quantity]
  PROVE  [page EXCEPT !.revision = rev, !.listed = listed, !.locked = locked,
                      !.shown = shown] \in OpenPage
  <1> DEFINE p1 == [page EXCEPT !.revision = rev]
             p2 == [p1 EXCEPT !.listed = listed]
             p3 == [p2 EXCEPT !.locked = locked]
             p4 == [p3 EXCEPT !.shown = shown]
  <1>1. p1 \in OpenPage
    BY SMT DEF OpenPage
  <1>2. p2 \in OpenPage
    <2> HIDE DEF p1
    <2> QED BY <1>1, SMT DEF OpenPage
  <1>3. p3 \in OpenPage
    <2> HIDE DEF p2
    <2> QED BY <1>2, SMT DEF OpenPage
  <1>4. p4 \in OpenPage
    <2> HIDE DEF p3
    <2> QED BY <1>3, SMT DEF OpenPage
  <1> QED BY <1>4

(* Kinds of requests are requests. *)
LEMMA RequestKinds ==
  /\ Idle \in Request
  /\ PageRequest \subseteq Request /\ SaveRequest \subseteq Request
  /\ ReplyRequest \subseteq Request /\ AdminSaveRequest \subseteq Request
  /\ MoveBookingRequest \subseteq Request /\ DeleteBookingRequest \subseteq Request
  /\ UpdateItemRequest \subseteq Request /\ ToggleItemRequest \subseteq Request
  /\ DeleteItemRequest \subseteq Request
  BY DEF Request

(* Existing bookings have ids within the bound. *)
LEMMA LiveBookings == TypeOK => bookings \subseteq BookingId
  BY BoundsAssumption, SMT DEF TypeOK, BookingId

(* The steps of a thread that leave the tables and the pages alone. *)
Load(t) ==
  \/ \E p \in Tab, b \in BookingId : PortalBegin(t, p, b)
  \/ \E p \in Tab, i \in ItemId, q \in Quantity : SaveBegin(t, p, i, q)
  \/ SaveAbandon(t) \/ SaveRefuse(t) \/ ReplyRevision(t) \/ Fail(t)
  \/ \E b \in BookingId, d \in Day : MoveBookingBegin(t, b, d)
  \/ \E b \in BookingId : DeleteBookingBegin(t, b)
  \/ \E b \in BookingId, i \in ItemId, q \in Quantity : AdminSaveBegin(t, b, i, q)
  \/ \E i \in ItemId, s \in Quantity, v \in BOOLEAN : UpdateItemBegin(t, i, s, v)
  \/ \E i \in ItemId : ToggleItemBegin(t, i)
  \/ \E i \in ItemId : DeleteItemBegin(t, i)

(* A load puts a well-formed request in its thread and nothing else. *)
LEMMA LoadStep ==
  ASSUME TypeOK, NEW t \in Thread, Load(t)
  PROVE  /\ \E r \in Request : req' = [req EXCEPT ![t] = r]
         /\ UNCHANGED <<bookings, lastBooking, eventDate, revision, items,
                        stock, visible, birth, selected, today, tab>>
  <1> USE RequestKinds DEF TypeOK, Begin, Finish, Reply, bookingVars, catalogVars
  <1>1. ASSUME NEW p \in Tab, NEW b \in BookingId, PortalBegin(t, p, b)
        PROVE  \E r \in Request : req' = [req EXCEPT ![t] = r]
    <2> DEFINE r == [op |-> "portal", tab |-> p, booking |-> b, revision |-> revision[b]]
    <2>1. r \in PageRequest
      BY SMT DEF PageRequest
    <2> QED BY <1>1, <2>1 DEF PortalBegin
  <1>2. ASSUME NEW p \in Tab, NEW i \in ItemId, NEW q \in Quantity, SaveBegin(t, p, i, q)
        PROVE  \E r \in Request : req' = [req EXCEPT ![t] = r]
    <2> DEFINE page == tab[p]
               r == [op |-> "save", tab |-> p, booking |-> page.booking, item |-> i,
                     quantity |-> q, revision |-> page.revision,
                     seen |-> page.shown[i], born |-> page.born[i],
                     listed |-> i \in page.listed]
    <2>1. page \in OpenPage
      <3>1. page.booking \in BookingId
        BY <1>2, LiveBookings DEF SaveBegin
      <3> QED BY <3>1, PageShape
    <2>2. r \in SaveRequest
      BY <2>1, SMT DEF OpenPage, SaveRequest
    <2> QED BY <1>2, <2>2 DEF SaveBegin
  <1>3. ASSUME SaveAbandon(t)
        PROVE  \E r \in Request : req' = [req EXCEPT ![t] = r]
    <2> DEFINE r == [req[t] EXCEPT !.tab = NoTab]
    <2>1. req[t] \in SaveRequest
      BY <1>3, RequestShape DEF SaveAbandon
    <2>2. r \in SaveRequest
      BY <2>1, SMT DEF SaveRequest
    <2>3. req' = [req EXCEPT ![t] = r]
      BY <1>3, SMT DEF SaveAbandon
    <2> QED BY <2>2, <2>3
  <1>4. ASSUME SaveRefuse(t)
        PROVE  \E r \in Request : req' = [req EXCEPT ![t] = r]
    <2>1. req[t] \in SaveRequest
      BY <1>4, RequestShape DEF SaveRefuse
    <2>2. req[t].tab # NoTab =>
            [op |-> "reply", tab |-> req[t].tab, booking |-> req[t].booking] \in ReplyRequest
      BY <2>1, SMT DEF SaveRequest, ReplyRequest
    <2> QED BY <1>4, <2>2 DEF SaveRefuse
  <1>5. ASSUME ReplyRevision(t)
        PROVE  \E r \in Request : req' = [req EXCEPT ![t] = r]
    <2> DEFINE r == [op |-> "snapshot", tab |-> req[t].tab, booking |-> req[t].booking,
                     revision |-> revision[req[t].booking]]
    <2>1. req[t] \in ReplyRequest
      BY <1>5, RequestShape DEF ReplyRevision
    <2>2. r \in PageRequest
      BY <2>1, SMT DEF ReplyRequest, PageRequest
    <2> QED BY <1>5, <2>2 DEF ReplyRevision
  <1>6. ASSUME Fail(t)
        PROVE  \E r \in Request : req' = [req EXCEPT ![t] = r]
    BY <1>6 DEF Fail
  <1>7. ASSUME NEW b \in BookingId, NEW d \in Day, MoveBookingBegin(t, b, d)
        PROVE  \E r \in Request : req' = [req EXCEPT ![t] = r]
    <2>1. [op |-> "moveBooking", booking |-> b, loaded |-> eventDate[b], date |-> d]
             \in MoveBookingRequest
      BY SMT DEF MoveBookingRequest
    <2> QED BY <1>7, <2>1 DEF MoveBookingBegin
  <1>8. ASSUME NEW b \in BookingId, DeleteBookingBegin(t, b)
        PROVE  \E r \in Request : req' = [req EXCEPT ![t] = r]
    <2>1. [op |-> "deleteBooking", booking |-> b] \in DeleteBookingRequest
      BY SMT DEF DeleteBookingRequest
    <2> QED BY <1>8, <2>1 DEF DeleteBookingBegin
  <1>9. ASSUME NEW b \in BookingId, NEW i \in ItemId, NEW q \in Quantity,
               AdminSaveBegin(t, b, i, q)
        PROVE  \E r \in Request : req' = [req EXCEPT ![t] = r]
    <2>1. [op |-> "adminSave", booking |-> b, item |-> i, quantity |-> q] \in AdminSaveRequest
      BY SMT DEF AdminSaveRequest
    <2> QED BY <1>9, <2>1 DEF AdminSaveBegin
  <1>10. ASSUME NEW i \in ItemId, NEW s \in Quantity, NEW v \in BOOLEAN,
                UpdateItemBegin(t, i, s, v)
         PROVE  \E r \in Request : req' = [req EXCEPT ![t] = r]
    <2>1. [op |-> "updateItem", item |-> i, loadedStock |-> stock[i],
           loadedVisible |-> visible[i], stock |-> s, visible |-> v] \in UpdateItemRequest
      BY SMT DEF UpdateItemRequest
    <2> QED BY <1>10, <2>1 DEF UpdateItemBegin
  <1>11. ASSUME NEW i \in ItemId, ToggleItemBegin(t, i)
         PROVE  \E r \in Request : req' = [req EXCEPT ![t] = r]
    <2>1. [op |-> "toggleItem", item |-> i, loadedVisible |-> visible[i]] \in ToggleItemRequest
      BY SMT DEF ToggleItemRequest
    <2> QED BY <1>11, <2>1 DEF ToggleItemBegin
  <1>12. ASSUME NEW i \in ItemId, DeleteItemBegin(t, i)
         PROVE  \E r \in Request : req' = [req EXCEPT ![t] = r]
    <2>1. [op |-> "deleteItem", item |-> i, day |-> today] \in DeleteItemRequest
      BY SMT DEF DeleteItemRequest
    <2> QED BY <1>12, <2>1 DEF DeleteItemBegin
  <1>13. UNCHANGED <<bookings, lastBooking, eventDate, revision, items,
                     stock, visible, birth, selected, today, tab>>
    BY DEF Load, PortalBegin, SaveBegin, SaveAbandon, SaveRefuse, ReplyRevision, Fail,
           MoveBookingBegin, DeleteBookingBegin, AdminSaveBegin, UpdateItemBegin,
           ToggleItemBegin, DeleteItemBegin
  <1> QED BY <1>1, <1>2, <1>3, <1>4, <1>5, <1>6, <1>7, <1>8, <1>9, <1>10, <1>11,
             <1>12, <1>13 DEF Load

-----------------------------------------------------------------------------
(* Types *)

LEMMA InitType == Init => TypeOK
  BY BoundsAssumption, RequestKinds, SMT
  DEF Init, TypeOK, BookingId, ItemId, Day, Quantity, Page

(* A load keeps the types. *)
LEMMA LoadType ==
  ASSUME TypeOK, NEW t \in Thread, Load(t)
  PROVE  TypeOK'
  BY LoadStep DEF TypeOK

(* The answer to a customer's save goes to an open page. *)
LEMMA WaitingPageIsOpen ==
  ASSUME TypeOK, AnswersFitPages, NEW t \in Thread, req[t].op = "snapshot"
  PROVE  /\ req[t] \in PageRequest
         /\ tab[req[t].tab] \in OpenPage
         /\ tab[req[t].tab].booking = req[t].booking
  <1>1. req[t] \in PageRequest
    BY RequestShape DEF TypeOK
  <1>2. req[t].tab \in Tab /\ req[t].booking \in BookingId
    BY <1>1, SMT DEF PageRequest
  <1>3. tab[req[t].tab].booking = req[t].booking
    BY <1>2 DEF AnswersFitPages, Awaits
  <1> QED BY <1>1, <1>2, <1>3, PageShape DEF TypeOK

(* Every step keeps the types, provided answers fit the pages they go to. *)
LEMMA TypeStep ==
  ASSUME TypeOK, AnswersFitPages, [Next]_vars
  PROVE  TypeOK'
  <1> USE RequestKinds, BoundsAssumption DEF TypeOK, bookingVars, catalogVars, Finish
  <1>1. ASSUME NEW t \in Thread, NEW basketOnly \in BOOLEAN, PortalRender(t, basketOnly)
        PROVE  TypeOK'
    <2> DEFINE r == req[t]
               cards == PortalCards(r.booking, basketOnly)
               page == [booking |-> r.booking, revision |-> r.revision,
                        cards |-> cards, listed |-> cards,
                        locked |-> {i \in cards : ~visible[i]},
                        shown |-> [i \in ItemId |->
                                     IF i \in cards THEN selected[r.booking][i] ELSE 0],
                        born |-> [i \in ItemId |-> IF i \in cards THEN birth[i] ELSE 0]]
    <2>1. r \in PageRequest
      BY <1>1, RequestShape DEF PortalRender
    <2>2. cards \subseteq ItemId
      BY DEF PortalCards
    <2>3. page \in OpenPage
      BY <2>1, <2>2, SMT DEF PageRequest, OpenPage, Quantity
    <2>4. tab' = [tab EXCEPT ![r.tab] = page] /\ req' = [req EXCEPT ![t] = Idle]
      BY <1>1 DEF PortalRender
    <2>5. tab' \in [Tab -> Page]
      BY <2>3, <2>4 DEF Page
    <2> QED BY <1>1, <2>4, <2>5 DEF PortalRender
  <1>2. ASSUME NEW t \in Thread, SaveCommit(t)
        PROVE  TypeOK'
    <2>1. req[t] \in SaveRequest
      BY <1>2, RequestShape DEF SaveCommit
    <2>2. req' \in [Thread -> Request]
      <3>1. req[t].tab # NoTab =>
              [op |-> "reply", tab |-> req[t].tab, booking |-> req[t].booking] \in ReplyRequest
        BY <2>1, SMT DEF SaveRequest, ReplyRequest
      <3> QED BY <1>2, <3>1 DEF SaveCommit, Reply
    <2>3. revision' \in [BookingId -> Nat] /\ selected' \in [BookingId -> [ItemId -> Quantity]]
      BY <1>2, <2>1, SMT DEF SaveCommit, SaveRequest
    <2> QED BY <1>2, <2>2, <2>3 DEF SaveCommit
  <1>3. ASSUME NEW t \in Thread, ReplyDeliver(t)
        PROVE  TypeOK'
    <2> DEFINE r == req[t]
               page == tab[r.tab]
               listed == page.cards \cap SnapshotItems(r.booking)
               locked == (page.locked \ listed) \cup {i \in listed : ~visible[i]}
               shown == [i \in ItemId |-> IF i \in listed THEN selected[r.booking][i]
                                          ELSE page.shown[i]]
               new == [page EXCEPT !.revision = r.revision, !.listed = listed,
                                   !.locked = locked, !.shown = shown]
    <2>1. r \in PageRequest /\ page \in OpenPage
      BY <1>3, WaitingPageIsOpen DEF ReplyDeliver
    <2>2. listed \subseteq ItemId
      BY DEF SnapshotItems
    <2>3. new \in OpenPage
      <3>1. locked \in SUBSET ItemId
        BY <2>1, <2>2, SMT DEF OpenPage
      <3>2. shown \in [ItemId -> Quantity]
        BY <2>1, SMT DEF OpenPage, PageRequest
      <3>3. r.revision \in Nat /\ listed \in SUBSET ItemId
        BY <2>1, <2>2, SMT DEF PageRequest
      <3> HIDE DEF r, page, listed, locked, shown
      <3> QED BY <2>1, <3>1, <3>2, <3>3, UpdatedPage
    <2>4. tab' = [tab EXCEPT ![r.tab] = new] /\ req' = [req EXCEPT ![t] = Idle]
      BY <1>3 DEF ReplyDeliver
    <2>5. tab' \in [Tab -> Page]
      BY <2>3, <2>4 DEF Page
    <2> QED BY <1>3, <2>4, <2>5 DEF ReplyDeliver
  <1>4. ASSUME NEW t \in Thread, NEW d \in Day, BookingCreate(t, d)
        PROVE  TypeOK'
    BY <1>4, SMT DEF BookingCreate, BookingId
  <1>5. ASSUME NEW t \in Thread, MoveBookingCommit(t)
        PROVE  TypeOK'
    <2>1. req[t] \in MoveBookingRequest
      BY <1>5, RequestShape DEF MoveBookingCommit
    <2>2. eventDate' \in [BookingId -> Day]
      BY <1>5, <2>1, SMT DEF MoveBookingCommit, MoveBookingRequest
    <2> QED BY <1>5, <2>2 DEF MoveBookingCommit
  <1>6. ASSUME NEW t \in Thread, DeleteBookingCommit(t)
        PROVE  TypeOK'
    <2>1. selected' \in [BookingId -> [ItemId -> Quantity]]
      <3> DEFINE none == [i \in ItemId |-> 0]
      <3>1. none \in [ItemId -> Quantity]
        BY SMT DEF Quantity
      <3>2. selected' = [selected EXCEPT ![req[t].booking] = none]
        BY <1>6 DEF DeleteBookingCommit
      <3> HIDE DEF none
      <3> QED BY <3>1, <3>2
    <2> QED BY <1>6, <2>1 DEF DeleteBookingCommit
  <1>7. ASSUME NEW t \in Thread, AdminSaveCommit(t)
        PROVE  TypeOK'
    <2>1. req[t] \in AdminSaveRequest
      BY <1>7, RequestShape DEF AdminSaveCommit
    <2>2. revision' \in [BookingId -> Nat] /\ selected' \in [BookingId -> [ItemId -> Quantity]]
      BY <1>7, <2>1, SMT DEF AdminSaveCommit, AdminSaveRequest
    <2> QED BY <1>7, <2>2 DEF AdminSaveCommit
  <1>8. ASSUME NEW t \in Thread, NEW i \in ItemId, NEW s \in Quantity, NEW v \in BOOLEAN,
               ItemCreate(t, i, s, v)
        PROVE  TypeOK'
    BY <1>8, SMT DEF ItemCreate
  <1>9. ASSUME NEW t \in Thread, UpdateItemCommit(t)
        PROVE  TypeOK'
    <2>1. req[t] \in UpdateItemRequest
      BY <1>9, RequestShape DEF UpdateItemCommit
    <2>2. req[t].stock \in Quantity /\ req[t].visible \in BOOLEAN
      BY <2>1, SMT DEF UpdateItemRequest
    <2>3. stock' \in [ItemId -> Quantity] /\ visible' \in [ItemId -> BOOLEAN]
      BY <1>9, <2>2 DEF UpdateItemCommit
    <2> QED BY <1>9, <2>3 DEF UpdateItemCommit
  <1>10. ASSUME NEW t \in Thread, ToggleItemCommit(t)
         PROVE  TypeOK'
    BY <1>10 DEF ToggleItemCommit
  <1>11. ASSUME NEW t \in Thread, DeleteItemCommit(t)
         PROVE  TypeOK'
    <2>1. selected' \in [BookingId -> [ItemId -> Quantity]]
      BY <1>11, SMT DEF DeleteItemCommit, Quantity
    <2> QED BY <1>11, <2>1 DEF DeleteItemCommit
  <1>12. CASE NextDay
    BY <1>12, SMT DEF NextDay, Day
  <1>13. CASE UNCHANGED vars
    BY <1>13 DEF vars
  <1> QED BY <1>1, <1>2, <1>3, <1>4, <1>5, <1>6, <1>7, <1>8, <1>9, <1>10, <1>11,
             <1>12, <1>13, LoadType
          DEF Next, CustomerStep, AdminBookingStep, AdminItemStep, Load

-----------------------------------------------------------------------------
(* Answers fit the pages that wait for them *)

(* Thread t replaces its request by r and no page changes: answers still fit   *)
(* if r goes to a tab that waited for t already, or for nobody.                *)
LEMMA AnswersStillFit ==
  ASSUME TypeOK, AnswersFitPages, NEW t \in Thread, NEW r,
         req' = [req EXCEPT ![t] = r], tab' = tab,
         \A p \in Tab : Awaits(p, r) =>
           /\ Awaits(p, req[t]) \/ ~Waiting(p)
           /\ r.op # "portal" => tab[p].booking = r.booking
  PROVE  AnswersFitPages'
  <1> SUFFICES ASSUME NEW u \in Thread, NEW v \in Thread, NEW p \in Tab, Awaits(p, req'[u])
               PROVE  /\ Awaits(p, req'[v]) => u = v
                      /\ req'[u].op # "portal" => tab[p].booking = req'[u].booking
    BY DEF AnswersFitPages, Awaits
  <1>1. /\ req'[t] = r
        /\ \A w \in Thread : w # t => req'[w] = req[w]
    BY DEF TypeOK
  <1>2. req'[u].op # "portal" => tab[p].booking = req'[u].booking
    BY <1>1 DEF AnswersFitPages
  <1>3. ASSUME Awaits(p, req'[v]), u # v
        PROVE  FALSE
    <2>1. \A w \in Thread \ {t} : Awaits(p, req[w]) => ~Awaits(p, r)
      BY DEF AnswersFitPages, Waiting
    <2> QED BY <1>1, <1>3, <2>1 DEF AnswersFitPages
  <1> QED BY <1>2, <1>3

(* Thread t delivers to the tab that waits for it: the others keep waiting.    *)
LEMMA DeliveryFits ==
  ASSUME TypeOK, AnswersFitPages, NEW t \in Thread, NEW page,
         Awaits(req[t].tab, req[t]), req[t].tab \in Tab,
         req' = [req EXCEPT ![t] = Idle], tab' = [tab EXCEPT ![req[t].tab] = page]
  PROVE  AnswersFitPages'
  <1> SUFFICES ASSUME NEW u \in Thread, NEW v \in Thread, NEW p \in Tab, Awaits(p, req'[u])
               PROVE  /\ Awaits(p, req'[v]) => u = v
                      /\ req'[u].op # "portal" => tab'[p].booking = req'[u].booking
    BY DEF AnswersFitPages, Awaits
  <1>1. /\ ~Awaits(p, req'[t])
        /\ \A w \in Thread : w # t => req'[w] = req[w]
    BY DEF TypeOK, Awaits, Idle
  <1>2. u # t /\ req[u] = req'[u] /\ p # req[t].tab
    BY <1>1 DEF AnswersFitPages
  <1>3. tab'[p] = tab[p]
    BY <1>2 DEF TypeOK
  <1> QED BY <1>1, <1>2, <1>3 DEF AnswersFitPages

(* Idle and the requests of administrators are awaited by no tab. *)
LEMMA NotAwaited ==
  ASSUME NEW p \in Tab, NEW r,
         r.op \in {"idle", "adminSave", "moveBooking", "deleteBooking", "updateItem",
                   "toggleItem", "deleteItem"} \/ r.tab = NoTab
  PROVE  ~Awaits(p, r)
  BY NoTabAssumption DEF Awaits

LEMMA FitStep ==
  ASSUME TypeOK, AnswersFitPages, [Next]_vars
  PROVE  AnswersFitPages'
  <1> USE DEF Begin, Finish
  <1>1. ASSUME NEW t \in Thread, NEW p \in Tab, NEW b \in BookingId, PortalBegin(t, p, b)
        PROVE  AnswersFitPages'
    <2> DEFINE r == [op |-> "portal", tab |-> p, booking |-> b, revision |-> revision[b]]
    <2>1. r.op = "portal" /\ \A p2 \in Tab : Awaits(p2, r) => ~Waiting(p2)
      BY <1>1 DEF PortalBegin, Awaits
    <2>2. req' = [req EXCEPT ![t] = r] /\ tab' = tab
      BY <1>1 DEF PortalBegin
    <2> HIDE DEF r
    <2> QED BY <2>1, <2>2, AnswersStillFit
  <1>2. ASSUME NEW t \in Thread, NEW basketOnly \in BOOLEAN, PortalRender(t, basketOnly)
        PROVE  AnswersFitPages'
    <2>1. req[t] \in PageRequest
      BY <1>2, RequestShape DEF PortalRender, TypeOK
    <2>2. req[t].tab \in Tab /\ Awaits(req[t].tab, req[t])
      BY <2>1, SMT DEF PageRequest, Awaits
    <2> QED BY <1>2, <2>2, DeliveryFits DEF PortalRender
  <1>3. ASSUME NEW t \in Thread, NEW p \in Tab, NEW i \in ItemId, NEW q \in Quantity,
               SaveBegin(t, p, i, q)
        PROVE  AnswersFitPages'
    <2> DEFINE page == tab[p]
               r == [op |-> "save", tab |-> p, booking |-> page.booking, item |-> i,
                     quantity |-> q, revision |-> page.revision,
                     seen |-> page.shown[i], born |-> page.born[i],
                     listed |-> i \in page.listed]
    <2>1. \A p2 \in Tab : Awaits(p2, r) => ~Waiting(p2) /\ tab[p2].booking = r.booking
      BY <1>3 DEF SaveBegin, Awaits
    <2>2. req' = [req EXCEPT ![t] = r] /\ tab' = tab
      BY <1>3 DEF SaveBegin
    <2> HIDE DEF r
    <2> QED BY <2>1, <2>2, AnswersStillFit
  <1>4. ASSUME NEW t \in Thread, SaveAbandon(t)
        PROVE  AnswersFitPages'
    <2> DEFINE r == [req[t] EXCEPT !.tab = NoTab]
    <2>1. req[t] \in SaveRequest
      BY <1>4, RequestShape DEF SaveAbandon, TypeOK
    <2>2. r.tab = NoTab
      BY <2>1, SMT DEF SaveRequest
    <2>3. req' = [req EXCEPT ![t] = r] /\ tab' = tab
      BY <1>4, SMT DEF SaveAbandon
    <2> HIDE DEF r
    <2> QED BY <2>2, <2>3, AnswersStillFit, NotAwaited
  <1>5. ASSUME NEW t \in Thread, SaveCommit(t) \/ SaveRefuse(t)
        PROVE  AnswersFitPages'
    <2> DEFINE answer == [op |-> "reply", tab |-> req[t].tab, booking |-> req[t].booking]
               r == IF req[t].tab = NoTab THEN Idle ELSE answer
    <2>1. \A p \in Tab : Awaits(p, r) => p = req[t].tab /\ r = answer
      BY DEF Awaits, Idle
    <2>2. \A p \in Tab : Awaits(p, r) => Awaits(p, req[t]) /\ tab[p].booking = r.booking
      BY <1>5, <2>1 DEF SaveCommit, SaveRefuse, AnswersFitPages, Awaits
    <2>3. req' = [req EXCEPT ![t] = r] /\ tab' = tab
      BY <1>5 DEF SaveCommit, SaveRefuse, Reply
    <2> QED BY <2>2, <2>3, AnswersStillFit
  <1>6. ASSUME NEW t \in Thread, ReplyRevision(t)
        PROVE  AnswersFitPages'
    <2>1. \A p \in Tab : req[t].tab = p => Awaits(p, req[t]) /\ tab[p].booking = req[t].booking
      BY <1>6 DEF ReplyRevision, Awaits, AnswersFitPages
    <2> DEFINE r == [op |-> "snapshot", tab |-> req[t].tab, booking |-> req[t].booking,
                     revision |-> revision[req[t].booking]]
    <2>2. \A p \in Tab : Awaits(p, r) => Awaits(p, req[t]) /\ tab[p].booking = r.booking
      BY <2>1 DEF Awaits
    <2>3. req' = [req EXCEPT ![t] = r] /\ tab' = tab
      BY <1>6 DEF ReplyRevision
    <2> HIDE DEF r
    <2> QED BY <2>2, <2>3, AnswersStillFit
  <1>7. ASSUME NEW t \in Thread, ReplyDeliver(t)
        PROVE  AnswersFitPages'
    <2>1. req[t] \in PageRequest
      BY <1>7, RequestShape DEF ReplyDeliver, TypeOK
    <2>2. req[t].tab \in Tab /\ Awaits(req[t].tab, req[t])
      BY <2>1, SMT DEF PageRequest, Awaits
    <2> QED BY <1>7, <2>2, DeliveryFits DEF ReplyDeliver
  <1>8. ASSUME NEW t \in Thread, Fail(t) \/ AdminBookingStep(t) \/ AdminItemStep(t)
        PROVE  AnswersFitPages'
    <2>1. tab' = tab /\ (req' = req \/ \E r : /\ req' = [req EXCEPT ![t] = r]
                                           /\ \A p \in Tab : ~Awaits(p, r))
      <3>1. CASE Fail(t)
        <4>1. \A p \in Tab : ~Awaits(p, Idle)
          BY DEF Awaits, Idle
        <4> QED BY <3>1, <4>1 DEF Fail
      <3> USE DEF Awaits, Idle
      <3>2. CASE AdminBookingStep(t)
        BY <3>2 DEF AdminBookingStep, BookingCreate, MoveBookingBegin, MoveBookingCommit,
             DeleteBookingBegin, DeleteBookingCommit, AdminSaveBegin, AdminSaveCommit
      <3>3. CASE AdminItemStep(t)
        BY <3>3 DEF AdminItemStep, ItemCreate, UpdateItemBegin, UpdateItemCommit,
             ToggleItemBegin, ToggleItemCommit, DeleteItemBegin, DeleteItemCommit
      <3> QED BY <1>8, <3>1, <3>2, <3>3
    <2>2. CASE req' = req
      BY <2>1, <2>2 DEF AnswersFitPages
    <2>3. CASE \E r : req' = [req EXCEPT ![t] = r] /\ \A p \in Tab : ~Awaits(p, r)
      BY <2>1, <2>3, AnswersStillFit
    <2> QED BY <2>1, <2>2, <2>3
  <1>9. CASE NextDay \/ UNCHANGED vars
    BY <1>9 DEF NextDay, vars, AnswersFitPages
  <1> QED BY <1>1, <1>2, <1>3, <1>4, <1>5, <1>6, <1>7, <1>8, <1>9 DEF Next, CustomerStep

-----------------------------------------------------------------------------
(* How the tables change *)

(* Ids, revisions, births and dates only go up. *)
TablesAdvance ==
  /\ lastBooking <= lastBooking'
  /\ \A b \in BookingId : b <= lastBooking => revision[b] <= revision'[b]
  /\ \A i \in ItemId : birth[i] <= birth'[i]
  /\ today <= today'

(* A row of a booking that keeps its revision, for an item that stays the same *)
(* item, keeps its quantity.                                                   *)
EditsAreCounted ==
  \A b \in BookingId, i \in ItemId :
    /\ b \in bookings' /\ b <= lastBooking /\ revision'[b] = revision[b]
    /\ i \in items' /\ birth'[i] = birth[i]
    => b \in bookings /\ i \in items /\ selected'[b][i] = selected[b][i]

LEMMA SameCounters ==
  ASSUME TypeOK, UNCHANGED <<lastBooking, birth, today>>,
         revision' = revision \/ \E b \in BookingId : revision' = [revision EXCEPT ![b] = @ + 1]
  PROVE  TablesAdvance
  <1>1. lastBooking <= lastBooking' /\ today <= today'
    BY BoundsAssumption, SMT DEF TypeOK, Day
  <1>2. \A i \in ItemId : birth[i] <= birth'[i]
    BY SMT DEF TypeOK
  <1>3. \A b \in BookingId : revision[b] <= revision'[b]
    BY SMT DEF TypeOK
  <1> QED BY <1>1, <1>2, <1>3 DEF TablesAdvance

(* Steps that leave the tables alone count no edit. *)
LEMMA SameTables ==
  ASSUME TypeOK, UNCHANGED <<bookings, lastBooking, revision, items, birth, selected>>,
         today <= today'
  PROVE  TablesAdvance /\ EditsAreCounted
  BY SMT DEF TypeOK, TablesAdvance, EditsAreCounted, BookingId

LEMMA TablesStep ==
  ASSUME TypeOK, [Next]_vars
  PROVE  TablesAdvance /\ EditsAreCounted
  <1> USE DEF bookingVars, catalogVars
  <1>0. today <= today
    BY BoundsAssumption, SMT DEF TypeOK, Day
  <1>1. ASSUME NEW t \in Thread, Load(t)
        PROVE  TablesAdvance /\ EditsAreCounted
    BY <1>0, <1>1, LoadStep, SameTables
  <1>2. ASSUME NEW t \in Thread, NEW basketOnly \in BOOLEAN,
               \/ PortalRender(t, basketOnly) \/ ReplyDeliver(t)
               \/ MoveBookingCommit(t) \/ UpdateItemCommit(t) \/ ToggleItemCommit(t)
        PROVE  TablesAdvance /\ EditsAreCounted
    BY <1>0, <1>2, SameTables
    DEF PortalRender, ReplyDeliver, MoveBookingCommit, UpdateItemCommit, ToggleItemCommit
  <1>3. ASSUME NEW t \in Thread, SaveCommit(t) \/ AdminSaveCommit(t)
        PROVE  TablesAdvance /\ EditsAreCounted
    <2> DEFINE b == req[t].booking
               i == req[t].item
               q == req[t].quantity
    <2>1. b \in BookingId /\ i \in ItemId
      <3>1. req[t] \in SaveRequest \/ req[t] \in AdminSaveRequest
        BY <1>3, RequestShape DEF SaveCommit, AdminSaveCommit, TypeOK
      <3> QED BY <3>1, SMT DEF SaveRequest, AdminSaveRequest
    <2>2. /\ revision' = [revision EXCEPT ![b] = @ + 1]
          /\ selected' = [selected EXCEPT ![b][i] = q]
          /\ UNCHANGED <<bookings, lastBooking, items, birth, today>>
      BY <1>3 DEF SaveCommit, AdminSaveCommit
    <2> HIDE DEF b, i, q
    <2>3. TablesAdvance
      BY <2>1, <2>2, SameCounters
    <2>4. EditsAreCounted
      BY <2>1, <2>2, SMT DEF TypeOK, EditsAreCounted
    <2> QED BY <2>3, <2>4
  <1>4. ASSUME NEW t \in Thread, NEW d \in Day, BookingCreate(t, d)
        PROVE  TablesAdvance /\ EditsAreCounted
    <2>1. TablesAdvance
      BY <1>0, <1>4, BoundsAssumption, SMT DEF TypeOK, TablesAdvance, BookingCreate, BookingId
    <2>2. EditsAreCounted
      BY <1>4, BoundsAssumption, SMT DEF TypeOK, EditsAreCounted, BookingCreate, BookingId
    <2> QED BY <2>1, <2>2
  <1>5. ASSUME NEW t \in Thread, DeleteBookingCommit(t)
        PROVE  TablesAdvance /\ EditsAreCounted
    <2>1. TablesAdvance
      BY <1>5, SameCounters DEF DeleteBookingCommit
    <2>2. EditsAreCounted
      BY <1>5, SMT DEF TypeOK, EditsAreCounted, DeleteBookingCommit
    <2> QED BY <2>1, <2>2
  <1>6. ASSUME NEW t \in Thread, NEW i \in ItemId, NEW s \in Quantity, NEW v \in BOOLEAN,
               ItemCreate(t, i, s, v)
        PROVE  TablesAdvance /\ EditsAreCounted
    <2>1. TablesAdvance
      <3>1. \A j \in ItemId : birth[j] <= birth'[j]
        BY <1>6, SMT DEF TypeOK, ItemCreate
      <3>2. lastBooking <= lastBooking' /\ today <= today'
        BY <1>6, BoundsAssumption, SMT DEF TypeOK, ItemCreate, Day
      <3>3. \A b \in BookingId : revision[b] <= revision'[b]
        BY <1>6, SMT DEF TypeOK, ItemCreate
      <3> QED BY <3>1, <3>2, <3>3 DEF TablesAdvance
    <2>2. EditsAreCounted
      BY <1>6, SMT DEF TypeOK, EditsAreCounted, ItemCreate
    <2> QED BY <2>1, <2>2
  <1>7. ASSUME NEW t \in Thread, DeleteItemCommit(t)
        PROVE  TablesAdvance /\ EditsAreCounted
    <2>1. TablesAdvance
      BY <1>7, SameCounters DEF DeleteItemCommit
    <2>2. EditsAreCounted
      BY <1>7, SMT DEF TypeOK, EditsAreCounted, DeleteItemCommit
    <2> QED BY <2>1, <2>2
  <1>8. CASE NextDay \/ UNCHANGED vars
    <2>1. today <= today'
      BY <1>0, <1>8, BoundsAssumption, SMT DEF TypeOK, NextDay, vars, Day
    <2> QED BY <1>8, <2>1, SameTables DEF NextDay, vars
  <1> QED BY <1>1, <1>2, <1>3, <1>4, <1>5, <1>6, <1>7, <1>8
          DEF Next, CustomerStep, AdminBookingStep, AdminItemStep, Load

-----------------------------------------------------------------------------
(* What handlers and pages know stays true *)

(* Facts that are not ahead of the tables stay so when the tables advance. *)
LEMMA RequestStaysBehind ==
  ASSUME TypeOK, TypeOK', TablesAdvance, NEW r \in Request, RequestNotAhead(r)
  PROVE  RequestNotAhead(r)'
  <1>0. lastBooking \in Int /\ lastBooking' \in Int /\ today \in Int /\ today' \in Int
    BY BoundsAssumption, SMT DEF TypeOK, Day
  <1>1. CASE r.op \in {"portal", "snapshot"}
    <2>1. r \in PageRequest
      BY <1>1, RequestShape
    <2>2. r.booking \in BookingId /\ r.revision \in Nat /\ r.op # "save" /\ r.op # "deleteItem"
      BY <1>1, <2>1, SMT DEF PageRequest
    <2> QED BY <1>0, <1>1, <2>2, SMT DEF RequestNotAhead, TablesAdvance, TypeOK, BookingId
  <1>2. CASE r.op = "save"
    <2>1. r \in SaveRequest
      BY <1>2, RequestShape
    <2>2. r.booking \in BookingId /\ r.revision \in Nat /\ r.item \in ItemId /\ r.born \in Nat
      BY <2>1, SMT DEF SaveRequest
    <2> QED BY <1>0, <1>2, <2>2, SMT DEF RequestNotAhead, TablesAdvance, TypeOK, BookingId
  <1>3. CASE r.op = "reply"
    <2>1. r \in ReplyRequest
      BY <1>3, RequestShape
    <2>2. r.booking \in BookingId
      BY <2>1, SMT DEF ReplyRequest
    <2> QED BY <1>0, <1>3, <2>2, SMT DEF RequestNotAhead, TablesAdvance, BookingId
  <1>4. CASE r.op = "deleteItem"
    <2>1. r \in DeleteItemRequest
      BY <1>4, RequestShape
    <2>2. r.day \in Int
      BY <2>1, BoundsAssumption, SMT DEF DeleteItemRequest, Day
    <2> QED BY <1>0, <1>4, <2>2, SMT DEF RequestNotAhead, TablesAdvance
  <1> QED BY <1>1, <1>2, <1>3, <1>4 DEF RequestNotAhead

LEMMA PageStaysBehind ==
  ASSUME TypeOK, TypeOK', TablesAdvance, NEW page \in Page, PageNotAhead(page)
  PROVE  PageNotAhead(page)'
  <1> SUFFICES ASSUME page # NoPage PROVE PageNotAhead(page)'
    BY DEF PageNotAhead
  <1>1. page \in OpenPage
    BY PageShape
  <1>2. page.booking \in BookingId /\ page.revision \in Nat /\ page.born \in [ItemId -> Nat]
    BY <1>1, SMT DEF OpenPage
  <1>3. lastBooking \in Int /\ lastBooking' \in Int
    BY BoundsAssumption, SMT DEF TypeOK
  <1>4. page.booking <= lastBooking' /\ page.revision <= revision'[page.booking]
    BY <1>2, <1>3, SMT DEF PageNotAhead, TablesAdvance, TypeOK, BookingId
  <1>5. \A i \in ItemId : page.born[i] <= birth'[i]
    BY <1>2, SMT DEF PageNotAhead, TablesAdvance, TypeOK
  <1> QED BY <1>4, <1>5 DEF PageNotAhead

(* A quantity seen at a revision that is not ahead is the quantity for as long *)
(* as the booking keeps that revision and the item stays the same item.        *)
LEMMA SeenStillHolds ==
  ASSUME TypeOK, TypeOK', TablesAdvance, EditsAreCounted,
         NEW b \in BookingId, NEW rev \in Nat, NEW i \in ItemId, NEW n \in Nat, NEW q,
         b <= lastBooking, rev <= revision[b], n <= birth[i],
         StillHolds(b, rev, i, n, q)
  PROVE  StillHolds(b, rev, i, n, q)'
  <1> SUFFICES ASSUME b \in bookings', revision'[b] = rev, i \in items', birth'[i] = n
               PROVE  selected'[b][i] = q
    BY DEF StillHolds
  <1>1. revision[b] = rev /\ birth[i] = n
    <2>1. revision[b] \in Nat /\ revision'[b] \in Nat /\ birth[i] \in Nat /\ birth'[i] \in Nat
      BY DEF TypeOK
    <2>2. revision[b] <= revision'[b] /\ birth[i] <= birth'[i]
      BY DEF TablesAdvance
    <2> QED BY <2>1, <2>2, SMT
  <1>2. b \in bookings /\ i \in items /\ selected'[b][i] = selected[b][i]
    BY <1>1 DEF EditsAreCounted
  <1> QED BY <1>1, <1>2 DEF StillHolds

LEMMA SaveStaysCurrent ==
  ASSUME TypeOK, TypeOK', TablesAdvance, EditsAreCounted, NEW r \in Request,
         RequestNotAhead(r), SaveIsCurrent(r)
  PROVE  SaveIsCurrent(r)'
  <1> SUFFICES ASSUME r.op = "save", r.listed
               PROVE  StillHolds(r.booking, r.revision, r.item, r.born, r.seen)'
    BY DEF SaveIsCurrent
  <1>1. r \in SaveRequest
    BY RequestShape
  <1>2. r.booking \in BookingId /\ r.revision \in Nat /\ r.item \in ItemId /\ r.born \in Nat
    BY <1>1, SMT DEF SaveRequest
  <1> QED BY <1>2, SeenStillHolds DEF RequestNotAhead, SaveIsCurrent

LEMMA PageStaysCurrent ==
  ASSUME TypeOK, TypeOK', TablesAdvance, EditsAreCounted, NEW page \in Page,
         PageNotAhead(page), PageIsCurrent(page)
  PROVE  PageIsCurrent(page)'
  <1> SUFFICES ASSUME page # NoPage, NEW i \in page.listed
               PROVE  StillHolds(page.booking, page.revision, i, page.born[i], page.shown[i])'
    BY DEF PageIsCurrent
  <1>1. page \in OpenPage
    BY PageShape
  <1>2. /\ page.booking \in BookingId /\ page.revision \in Nat
        /\ i \in ItemId /\ page.born[i] \in Nat
    BY <1>1, SMT DEF OpenPage
  <1> QED BY <1>2, SeenStillHolds DEF PageNotAhead, PageIsCurrent

-----------------------------------------------------------------------------
(* What a step puts into its thread and its tab *)

(* The request a load leaves in its thread is not ahead, and what it has seen  *)
(* is current.                                                                 *)
LEMMA LoadedRequest ==
  ASSUME IInv, NEW t \in Thread, Load(t)
  PROVE  RequestNotAhead(req'[t]) /\ SaveIsCurrent(req'[t])
  <1> USE DEF Begin, Finish
  <1>0. TypeOK
    BY DEF IInv
  <1>1. RequestNotAhead(req[t]) /\ SaveIsCurrent(req[t])
    BY DEF IInv, NothingFromTheFuture, CurrentRevisionShowsCurrentBasket
  <1>2. ASSUME NEW p \in Tab, NEW b \in BookingId, PortalBegin(t, p, b)
        PROVE  RequestNotAhead(req'[t]) /\ SaveIsCurrent(req'[t])
    <2>1. req'[t] = [op |-> "portal", tab |-> p, booking |-> b, revision |-> revision[b]]
      BY <1>0, <1>2 DEF PortalBegin, TypeOK
    <2>2. b <= lastBooking /\ revision[b] <= revision[b]
      BY <1>0, <1>2, BoundsAssumption, SMT DEF PortalBegin, TypeOK
    <2> QED BY <2>1, <2>2, SMT DEF RequestNotAhead, SaveIsCurrent
  <1>3. ASSUME NEW p \in Tab, NEW i \in ItemId, NEW q \in Quantity, SaveBegin(t, p, i, q)
        PROVE  RequestNotAhead(req'[t]) /\ SaveIsCurrent(req'[t])
    <2> DEFINE page == tab[p]
               r == [op |-> "save", tab |-> p, booking |-> page.booking, item |-> i,
                     quantity |-> q, revision |-> page.revision,
                     seen |-> page.shown[i], born |-> page.born[i],
                     listed |-> i \in page.listed]
    <2>1. req'[t] = r
      BY <1>0, <1>3 DEF SaveBegin, TypeOK
    <2>2. page # NoPage
      BY <1>0, <1>3, LiveBookings, PageShape DEF SaveBegin, TypeOK
    <2>3. PageNotAhead(page) /\ PageIsCurrent(page)
      BY DEF IInv, NothingFromTheFuture, CurrentRevisionShowsCurrentBasket
    <2>4. RequestNotAhead(r)
      BY <2>2, <2>3 DEF RequestNotAhead, PageNotAhead
    <2>5. SaveIsCurrent(r)
      BY <2>2, <2>3 DEF SaveIsCurrent, PageIsCurrent
    <2> QED BY <2>1, <2>4, <2>5
  <1>4. CASE SaveAbandon(t)
    <2> DEFINE r == [req[t] EXCEPT !.tab = NoTab]
    <2>1. req'[t] = r /\ req[t] \in SaveRequest
      BY <1>0, <1>4, RequestShape DEF SaveAbandon, TypeOK
    <2>2. /\ r.op = req[t].op /\ r.booking = req[t].booking /\ r.item = req[t].item
          /\ r.revision = req[t].revision /\ r.seen = req[t].seen
          /\ r.born = req[t].born /\ r.listed = req[t].listed
      BY <2>1, SMT DEF SaveRequest
    <2> HIDE DEF r
    <2>3. r.op = "save"
      BY <1>4, <2>2 DEF SaveAbandon
    <2>4. RequestNotAhead(r)
      BY <1>1, <2>2, <2>3 DEF RequestNotAhead
    <2>5. SaveIsCurrent(r)
      BY <1>1, <2>2 DEF SaveIsCurrent
    <2> QED BY <2>1, <2>4, <2>5
  <1>5. CASE SaveRefuse(t)
    <2>1. req'[t] = Idle \/ req'[t] = [op |-> "reply", tab |-> req[t].tab,
                                       booking |-> req[t].booking]
      BY <1>0, <1>5 DEF SaveRefuse, Reply, TypeOK
    <2>2. req[t].booking <= lastBooking
      BY <1>1, <1>5 DEF SaveRefuse, RequestNotAhead
    <2> QED BY <2>1, <2>2 DEF RequestNotAhead, SaveIsCurrent, Idle
  <1>6. CASE ReplyRevision(t)
    <2>1. req'[t] = [op |-> "snapshot", tab |-> req[t].tab, booking |-> req[t].booking,
                     revision |-> revision[req[t].booking]]
      BY <1>0, <1>6 DEF ReplyRevision, TypeOK
    <2>2. req[t].booking \in BookingId
      BY <1>0, <1>6, LiveBookings DEF ReplyRevision
    <2>3. revision[req[t].booking] <= revision[req[t].booking]
      BY <1>0, <2>2, SMT DEF TypeOK
    <2>4. req[t].booking <= lastBooking
      BY <1>1, <1>6 DEF ReplyRevision, RequestNotAhead
    <2> QED BY <2>1, <2>3, <2>4 DEF RequestNotAhead, SaveIsCurrent
  <1>7. CASE Fail(t)
    <2>1. req'[t] = Idle
      BY <1>0, <1>7 DEF Fail, TypeOK
    <2> QED BY <2>1 DEF RequestNotAhead, SaveIsCurrent, Idle
  <1>8. ASSUME NEW i \in ItemId, DeleteItemBegin(t, i)
        PROVE  RequestNotAhead(req'[t]) /\ SaveIsCurrent(req'[t])
    <2>1. req'[t] = [op |-> "deleteItem", item |-> i, day |-> today]
      BY <1>0, <1>8 DEF DeleteItemBegin, TypeOK
    <2>2. today <= today
      BY <1>0, BoundsAssumption, SMT DEF TypeOK, Day
    <2> QED BY <2>1, <2>2 DEF RequestNotAhead, SaveIsCurrent
  <1>9. ASSUME NEW b \in BookingId, NEW d \in Day, MoveBookingBegin(t, b, d)
         PROVE  req'[t].op = "moveBooking"
    BY <1>0, <1>9 DEF MoveBookingBegin, TypeOK
  <1>10. ASSUME NEW b \in BookingId, DeleteBookingBegin(t, b)
         PROVE  req'[t].op = "deleteBooking"
    BY <1>0, <1>10 DEF DeleteBookingBegin, TypeOK
  <1>11. ASSUME NEW b \in BookingId, NEW i \in ItemId, NEW q \in Quantity,
                AdminSaveBegin(t, b, i, q)
         PROVE  req'[t].op = "adminSave"
    BY <1>0, <1>11 DEF AdminSaveBegin, TypeOK
  <1>12. ASSUME NEW i \in ItemId, NEW s \in Quantity, NEW v \in BOOLEAN,
                UpdateItemBegin(t, i, s, v)
         PROVE  req'[t].op = "updateItem"
    BY <1>0, <1>12 DEF UpdateItemBegin, TypeOK
  <1>13. ASSUME NEW i \in ItemId, ToggleItemBegin(t, i)
         PROVE  req'[t].op = "toggleItem"
    BY <1>0, <1>13 DEF ToggleItemBegin, TypeOK
  <1>14. req'[t].op \in {"moveBooking", "deleteBooking", "adminSave", "updateItem", "toggleItem"}
           => RequestNotAhead(req'[t]) /\ SaveIsCurrent(req'[t])
    BY DEF RequestNotAhead, SaveIsCurrent
  <1> QED BY <1>2, <1>3, <1>4, <1>5, <1>6, <1>7, <1>8, <1>9, <1>10, <1>11, <1>12,
             <1>13, <1>14 DEF Load

(* So is every other request a step leaves behind: an old one, Idle, or the    *)
(* answer to a committed save.                                                 *)
LEMMA NextRequest ==
  ASSUME IInv, [Next]_vars, NEW u \in Thread
  PROVE  RequestNotAhead(req'[u]) /\ SaveIsCurrent(req'[u])
  <1> USE DEF Finish
  <1>0. TypeOK
    BY DEF IInv
  <1>1. RequestNotAhead(req[u]) /\ SaveIsCurrent(req[u])
    BY DEF IInv, NothingFromTheFuture, CurrentRevisionShowsCurrentBasket
  <1>2. req'[u] = Idle => RequestNotAhead(req'[u]) /\ SaveIsCurrent(req'[u])
    BY DEF RequestNotAhead, SaveIsCurrent, Idle
  <1>3. ASSUME NEW t \in Thread, Load(t)
        PROVE  RequestNotAhead(req'[u]) /\ SaveIsCurrent(req'[u])
    <2>1. CASE u = t
      BY <1>3, <2>1, LoadedRequest
    <2>2. CASE u # t
      BY <1>0, <1>1, <1>3, <2>2, LoadStep DEF TypeOK
    <2> QED BY <2>1, <2>2
  <1>4. ASSUME NEW t \in Thread, SaveCommit(t)
        PROVE  RequestNotAhead(req'[u]) /\ SaveIsCurrent(req'[u])
    <2>1. CASE u = t
      <3>1. req'[t] = Idle \/ req'[t] = [op |-> "reply", tab |-> req[t].tab,
                                         booking |-> req[t].booking]
        BY <1>0, <1>4 DEF SaveCommit, Reply, TypeOK
      <3>2. req[t].booking <= lastBooking
        BY <1>1, <1>4, <2>1 DEF SaveCommit, RequestNotAhead
      <3> QED BY <2>1, <3>1, <3>2 DEF RequestNotAhead, SaveIsCurrent, Idle
    <2>2. CASE u # t
      BY <1>0, <1>1, <1>4, <2>2 DEF SaveCommit, Reply, TypeOK
    <2> QED BY <2>1, <2>2
  <1>5. ASSUME NEW t \in Thread, NEW basketOnly \in BOOLEAN,
               \/ PortalRender(t, basketOnly) \/ ReplyDeliver(t) \/ MoveBookingCommit(t)
               \/ DeleteBookingCommit(t) \/ AdminSaveCommit(t) \/ UpdateItemCommit(t)
               \/ ToggleItemCommit(t) \/ DeleteItemCommit(t)
        PROVE  RequestNotAhead(req'[u]) /\ SaveIsCurrent(req'[u])
    <2>1. req' = [req EXCEPT ![t] = Idle]
      BY <1>5 DEF PortalRender, ReplyDeliver, MoveBookingCommit, DeleteBookingCommit,
                  AdminSaveCommit, UpdateItemCommit, ToggleItemCommit, DeleteItemCommit
    <2> QED BY <1>0, <1>1, <1>2, <2>1 DEF TypeOK
  <1>6. ASSUME \/ \E t \in Thread, d \in Day : BookingCreate(t, d)
               \/ \E t \in Thread, i \in ItemId, s \in Quantity, v \in BOOLEAN :
                    ItemCreate(t, i, s, v)
               \/ NextDay \/ UNCHANGED vars
        PROVE  RequestNotAhead(req'[u]) /\ SaveIsCurrent(req'[u])
    <2>1. req' = req
      BY <1>6 DEF BookingCreate, ItemCreate, NextDay, vars
    <2> QED BY <1>1, <2>1
  <1> QED BY <1>3, <1>4, <1>5, <1>6
          DEF Next, CustomerStep, AdminBookingStep, AdminItemStep, Load

(* A page that a step fills is not ahead, and what it lists is current: its    *)
(* revision was read before its quantities.                                    *)
LEMMA NextPage ==
  ASSUME IInv, [Next]_vars, NEW p \in Tab
  PROVE  PageNotAhead(tab'[p]) /\ PageIsCurrent(tab'[p])
  <1>0. TypeOK
    BY DEF IInv
  <1>1. PageNotAhead(tab[p]) /\ PageIsCurrent(tab[p])
    BY DEF IInv, NothingFromTheFuture, CurrentRevisionShowsCurrentBasket
  <1>2. ASSUME NEW t \in Thread, NEW basketOnly \in BOOLEAN, PortalRender(t, basketOnly)
        PROVE  PageNotAhead(tab'[p]) /\ PageIsCurrent(tab'[p])
    <2> DEFINE r == req[t]
               b == r.booking
               cards == PortalCards(b, basketOnly)
               shown == [i \in ItemId |-> IF i \in cards THEN selected[b][i] ELSE 0]
               born == [i \in ItemId |-> IF i \in cards THEN birth[i] ELSE 0]
               page == [booking |-> b, revision |-> r.revision,
                        cards |-> cards, listed |-> cards,
                        locked |-> {i \in cards : ~visible[i]},
                        shown |-> shown, born |-> born]
    <2>1. tab' = [tab EXCEPT ![r.tab] = page]
      BY <1>2 DEF PortalRender
    <2>2. b <= lastBooking /\ r.revision <= revision[b]
      BY <1>2 DEF PortalRender, IInv, NothingFromTheFuture, RequestNotAhead
    <2>3. cards \subseteq ItemId
      BY <1>0 DEF PortalCards, TypeOK
    <2>4. \A i \in ItemId : born[i] <= birth[i]
      <3>1. \A i \in ItemId : birth[i] \in Nat
        BY <1>0 DEF TypeOK
      <3> QED BY <3>1, SMT
    <2>5. \A i \in cards : shown[i] = selected[b][i]
      BY <2>3
    <2> HIDE DEF shown, born, cards
    <2>6. PageNotAhead(page)
      BY <2>2, <2>4 DEF PageNotAhead
    <2>7. PageIsCurrent(page)
      BY <2>5 DEF PageIsCurrent, StillHolds
    <2> QED BY <1>0, <1>1, <2>1, <2>6, <2>7 DEF TypeOK
  <1>3. ASSUME NEW t \in Thread, ReplyDeliver(t)
        PROVE  PageNotAhead(tab'[p]) /\ PageIsCurrent(tab'[p])
    <2> DEFINE r == req[t]
               old == tab[r.tab]
               listed == old.cards \cap SnapshotItems(r.booking)
               locked == (old.locked \ listed) \cup {i \in listed : ~visible[i]}
               shown == [i \in ItemId |-> IF i \in listed THEN selected[r.booking][i]
                                          ELSE old.shown[i]]
               page == [old EXCEPT !.revision = r.revision, !.listed = listed,
                                   !.locked = locked, !.shown = shown]
    <2>1. tab' = [tab EXCEPT ![r.tab] = page]
      BY <1>3 DEF ReplyDeliver
    <2>2. r \in PageRequest /\ old \in OpenPage /\ old.booking = r.booking
      BY <1>0, <1>3, WaitingPageIsOpen DEF ReplyDeliver, IInv
    <2>3. r.booking <= lastBooking /\ r.revision <= revision[r.booking]
      BY <1>3 DEF ReplyDeliver, IInv, NothingFromTheFuture, RequestNotAhead
    <2>4. \A i \in ItemId : old.born[i] <= birth[i]
      <3>1. old # NoPage
        BY <2>2, SMT DEF OpenPage, NoPage, BookingId
      <3>2. r.tab \in Tab
        BY <2>2, SMT DEF PageRequest
      <3> QED BY <3>1, <3>2 DEF IInv, NothingFromTheFuture, PageNotAhead
    <2>5. \A i \in listed : shown[i] = selected[r.booking][i]
      BY <1>0 DEF SnapshotItems, TypeOK
    <2> HIDE DEF old, shown, listed, locked
    <2>6. /\ page.booking = r.booking /\ page.revision = r.revision
          /\ page.born = old.born /\ page.listed = listed /\ page.shown = shown
      BY <2>2, SMT DEF OpenPage
    <2> HIDE DEF page
    <2>7. PageNotAhead(page)
      BY <2>3, <2>4, <2>6 DEF PageNotAhead
    <2>8. PageIsCurrent(page)
      BY <2>5, <2>6 DEF PageIsCurrent, StillHolds
    <2> QED BY <1>0, <1>1, <2>1, <2>7, <2>8 DEF TypeOK
  <1>4. CASE tab' = tab
    BY <1>1, <1>4
  <1>5. \/ tab' = tab
        \/ \E t \in Thread : ReplyDeliver(t)
        \/ \E t \in Thread, basketOnly \in BOOLEAN : PortalRender(t, basketOnly)
    <2>1. ASSUME NEW t \in Thread, Load(t)
          PROVE  tab' = tab
      BY <1>0, <2>1, LoadStep
    <2>2. ASSUME NEW t \in Thread, NEW d \in Day,
                 \/ SaveCommit(t) \/ BookingCreate(t, d) \/ MoveBookingCommit(t)
                 \/ DeleteBookingCommit(t) \/ AdminSaveCommit(t) \/ UpdateItemCommit(t)
                 \/ ToggleItemCommit(t) \/ DeleteItemCommit(t)
          PROVE  tab' = tab
      BY <2>2 DEF SaveCommit, BookingCreate, MoveBookingCommit, DeleteBookingCommit,
                  AdminSaveCommit, UpdateItemCommit, ToggleItemCommit, DeleteItemCommit
    <2>3. ASSUME NEW t \in Thread, NEW i \in ItemId, NEW s \in Quantity, NEW v \in BOOLEAN,
                 ItemCreate(t, i, s, v)
          PROVE  tab' = tab
      BY <2>3 DEF ItemCreate
    <2>4. CASE NextDay \/ UNCHANGED vars
      BY <2>4 DEF NextDay, vars
    <2>5. Day # {}
      BY BoundsAssumption, SMT DEF Day
    <2> QED BY <2>1, <2>2, <2>3, <2>4, <2>5
            DEF Next, CustomerStep, AdminBookingStep, AdminItemStep, Load
  <1> QED BY <1>2, <1>3, <1>4, <1>5

LEMMA LookBackStep ==
  ASSUME IInv, TypeOK', [Next]_vars
  PROVE  NothingFromTheFuture' /\ CurrentRevisionShowsCurrentBasket'
  <1>1. TypeOK /\ TablesAdvance /\ EditsAreCounted
    BY TablesStep DEF IInv
  <1>2. \A r \in Request : RequestNotAhead(r) /\ SaveIsCurrent(r)
                             => RequestNotAhead(r)' /\ SaveIsCurrent(r)'
    BY <1>1, RequestStaysBehind, SaveStaysCurrent
  <1>3. \A page \in Page : PageNotAhead(page) /\ PageIsCurrent(page)
                            => PageNotAhead(page)' /\ PageIsCurrent(page)'
    BY <1>1, PageStaysBehind, PageStaysCurrent
  <1>4. ASSUME NEW u \in Thread
        PROVE  RequestNotAhead(req[u])' /\ SaveIsCurrent(req[u])'
    <2>1. req'[u] \in Request
      BY DEF TypeOK
    <2> QED BY <1>2, <2>1, NextRequest
  <1>5. ASSUME NEW p \in Tab
        PROVE  PageNotAhead(tab[p])' /\ PageIsCurrent(tab[p])'
    <2>1. tab'[p] \in Page
      BY DEF TypeOK
    <2> QED BY <1>3, <2>1, NextPage
  <1> QED BY <1>4, <1>5 DEF NothingFromTheFuture, CurrentRevisionShowsCurrentBasket

-----------------------------------------------------------------------------
(* Referential integrity *)

LEMMA JoinStep ==
  ASSUME TypeOK, SelectionsJoinLiveRows, [Next]_vars
  PROVE  SelectionsJoinLiveRows'
  <1> USE DEF bookingVars, catalogVars
  <1>1. ASSUME UNCHANGED selected, bookings \subseteq bookings', items \subseteq items'
        PROVE  SelectionsJoinLiveRows'
    BY <1>1 DEF SelectionsJoinLiveRows
  <1>2. ASSUME NEW t \in Thread, Load(t)
        PROVE  SelectionsJoinLiveRows'
    BY <1>1, <1>2, LoadStep
  <1>3. ASSUME NEW t \in Thread, NEW basketOnly \in BOOLEAN,
               \/ PortalRender(t, basketOnly) \/ ReplyDeliver(t) \/ MoveBookingCommit(t)
               \/ UpdateItemCommit(t) \/ ToggleItemCommit(t)
        PROVE  SelectionsJoinLiveRows'
    BY <1>1, <1>3 DEF PortalRender, ReplyDeliver, MoveBookingCommit, UpdateItemCommit,
                      ToggleItemCommit
  <1>4. ASSUME \/ \E t \in Thread, d \in Day : BookingCreate(t, d)
               \/ \E t \in Thread, i \in ItemId, s \in Quantity, v \in BOOLEAN :
                    ItemCreate(t, i, s, v)
               \/ NextDay \/ UNCHANGED vars
        PROVE  SelectionsJoinLiveRows'
    BY <1>1, <1>4 DEF BookingCreate, ItemCreate, NextDay, vars
  <1>5. ASSUME NEW t \in Thread, SaveCommit(t) \/ AdminSaveCommit(t)
        PROVE  SelectionsJoinLiveRows'
    <2> DEFINE b == req[t].booking
               i == req[t].item
               q == req[t].quantity
    <2>1. b \in BookingId /\ i \in ItemId /\ q \in Quantity
      <3>1. req[t] \in SaveRequest \/ req[t] \in AdminSaveRequest
        BY <1>5, RequestShape DEF SaveCommit, AdminSaveCommit, TypeOK
      <3> QED BY <3>1, SMT DEF SaveRequest, AdminSaveRequest
    <2>2. /\ selected' = [selected EXCEPT ![b][i] = q]
          /\ b \in bookings /\ (i \in items \/ q = 0)
          /\ UNCHANGED <<bookings, items>>
      BY <1>5 DEF SaveCommit, RevisionClaimed, SaveAllowed, AdminSaveCommit
    <2> HIDE DEF b, i, q
    <2> QED BY <2>1, <2>2, SMT DEF SelectionsJoinLiveRows, TypeOK, Quantity
  <1>6. ASSUME NEW t \in Thread, DeleteBookingCommit(t)
        PROVE  SelectionsJoinLiveRows'
    <2>1. req[t].booking \in BookingId
      <3>1. req[t] \in DeleteBookingRequest
        BY <1>6, RequestShape DEF DeleteBookingCommit, TypeOK
      <3> QED BY <3>1, SMT DEF DeleteBookingRequest
    <2> QED BY <1>6, <2>1, SMT DEF DeleteBookingCommit, SelectionsJoinLiveRows, TypeOK
  <1>7. ASSUME NEW t \in Thread, DeleteItemCommit(t)
        PROVE  SelectionsJoinLiveRows'
    <2>1. req[t].item \in ItemId
      <3>1. req[t] \in DeleteItemRequest
        BY <1>7, RequestShape DEF DeleteItemCommit, TypeOK
      <3> QED BY <3>1, SMT DEF DeleteItemRequest
    <2> QED BY <1>7, <2>1, SMT DEF DeleteItemCommit, SelectionsJoinLiveRows, TypeOK
  <1> QED BY <1>2, <1>3, <1>4, <1>5, <1>6, <1>7
          DEF Next, CustomerStep, AdminBookingStep, AdminItemStep, Load

-----------------------------------------------------------------------------
(* The invariant and what follows from it *)

LEMMA InitInv == Init => IInv
  <1> SUFFICES ASSUME Init PROVE IInv
    OBVIOUS
  <1>1. TypeOK
    BY InitType
  <1>2. /\ \A t \in Thread : req[t] = Idle
        /\ \A p \in Tab : tab[p] = NoPage
        /\ \A b \in BookingId, i \in ItemId : selected[b][i] = 0
    BY DEF Init
  <1>3. AnswersFitPages /\ NothingFromTheFuture /\ CurrentRevisionShowsCurrentBasket
    BY <1>2 DEF AnswersFitPages, NothingFromTheFuture, CurrentRevisionShowsCurrentBasket,
                Awaits, Idle, RequestNotAhead, PageNotAhead, PageIsCurrent, SaveIsCurrent
  <1>4. SelectionsJoinLiveRows
    BY <1>2, SMT DEF SelectionsJoinLiveRows
  <1> QED BY <1>1, <1>3, <1>4 DEF IInv

LEMMA NextInv == IInv /\ [Next]_vars => IInv'
  <1> SUFFICES ASSUME IInv, [Next]_vars PROVE IInv'
    OBVIOUS
  <1>1. TypeOK /\ AnswersFitPages /\ SelectionsJoinLiveRows
    BY DEF IInv
  <1>2. TypeOK' /\ AnswersFitPages'
    BY <1>1, TypeStep, FitStep
  <1>3. SelectionsJoinLiveRows'
    BY <1>1, JoinStep
  <1>4. NothingFromTheFuture' /\ CurrentRevisionShowsCurrentBasket'
    BY <1>2, LookBackStep
  <1> QED BY <1>2, <1>3, <1>4 DEF IInv

(* The inductive invariant holds in every state. *)
THEOREM Invariant == Spec => []IInv
  BY InitInv, NextInv, PTL DEF Spec

(* Every variable keeps its type. *)
THEOREM TypeCorrect == Spec => []TypeOK
  <1>1. IInv => TypeOK
    BY DEF IInv
  <1> QED BY <1>1, Invariant, PTL

(* Every basket row joins a live booking and a live item. *)
THEOREM SelectionsCorrect == Spec => []SelectionsJoinLiveRows
  <1>1. IInv => SelectionsJoinLiveRows
    BY DEF IInv
  <1> QED BY <1>1, Invariant, PTL

(* The optimistic lock: a page or a save on its way that carries the current   *)
(* revision saw the current quantity.                                          *)
THEOREM RevisionsProtectBaskets == Spec => []CurrentRevisionShowsCurrentBasket
  <1>1. IInv => CurrentRevisionShowsCurrentBasket
    BY DEF IInv
  <1> QED BY <1>1, Invariant, PTL

(* A deleted item was in no current or future booking's basket. *)
THEOREM DeletionIsSafe == Spec => DeletionSparesCurrentBookings
  <1> DEFINE Spared == \A i \in items \ items', b \in bookings :
                         selected[b][i] > 0 => eventDate[b] < today
  <1>1. ASSUME IInv, [Next]_vars, NEW i \in items \ items', NEW b \in bookings,
               selected[b][i] > 0
        PROVE  eventDate[b] < today
    <2>0. TypeOK
      BY <1>1 DEF IInv
    <2>1. PICK t \in Thread : DeleteItemCommit(t) /\ req[t].item = i
      <3>1. ASSUME NEW t \in Thread, Load(t)
            PROVE  items' = items
        BY <2>0, <3>1, LoadStep
      <3>2. ASSUME NEW t \in Thread, NEW basketOnly \in BOOLEAN, NEW d \in Day,
                   \/ PortalRender(t, basketOnly) \/ ReplyDeliver(t) \/ SaveCommit(t)
                   \/ BookingCreate(t, d) \/ MoveBookingCommit(t) \/ DeleteBookingCommit(t)
                   \/ AdminSaveCommit(t) \/ UpdateItemCommit(t) \/ ToggleItemCommit(t)
            PROVE  items' = items
        BY <3>2 DEF PortalRender, ReplyDeliver, SaveCommit, BookingCreate,
             MoveBookingCommit, DeleteBookingCommit, AdminSaveCommit, UpdateItemCommit,
             ToggleItemCommit, catalogVars
      <3>3. ASSUME NEW t \in Thread, NEW j \in ItemId, NEW s \in Quantity, NEW v \in BOOLEAN,
                   ItemCreate(t, j, s, v)
            PROVE  items \subseteq items'
        BY <3>3 DEF ItemCreate
      <3>4. ASSUME NEW t \in Thread, DeleteItemCommit(t)
            PROVE  req[t].item = i
        BY <1>1, <3>4 DEF DeleteItemCommit
      <3>5. CASE NextDay \/ UNCHANGED vars
        BY <1>1, <3>5 DEF NextDay, vars, catalogVars
      <3>6. today \in Day
        BY <2>0 DEF TypeOK
      <3> QED BY <1>1, <3>1, <3>2, <3>3, <3>4, <3>5, <3>6
              DEF Next, CustomerStep, AdminBookingStep, AdminItemStep, Load
    <2>2. req[t] \in DeleteItemRequest /\ req[t].day <= today
      BY <1>1, <2>0, <2>1, RequestShape
      DEF DeleteItemCommit, TypeOK, IInv, NothingFromTheFuture, RequestNotAhead
    <2>3. ~(eventDate[b] >= req[t].day)
      BY <1>1, <2>1 DEF DeleteItemCommit, Blocked
    <2>4. eventDate[b] \in Int /\ today \in Int /\ req[t].day \in Int
      <3>1. eventDate[b] \in Day /\ today \in Day
        BY <1>1, <2>0, LiveBookings DEF TypeOK
      <3>2. req[t].day \in Day
        BY <2>2, SMT DEF DeleteItemRequest
      <3> QED BY <3>1, <3>2, BoundsAssumption, SMT DEF Day
    <2> QED BY <2>2, <2>3, <2>4, SMT
  <1>2. IInv /\ [Next]_vars => [Spared]_vars
    BY <1>1
  <1> QED BY <1>2, Invariant, PTL DEF Spec, DeletionSparesCurrentBookings

-----------------------------------------------------------------------------
(* Baskets implements BasketStore: a handler that loads rows, waits and writes   *)
(* later takes effect at the instant of its write.                              *)

(* The two modules count bookings, items, quantities and days alike. *)
LEMMA SameSets ==
  /\ Store!BookingId = BookingId /\ Store!ItemId = ItemId
  /\ Store!Quantity = Quantity /\ Store!Day = Day
  BY DEF Store!BookingId, BookingId, Store!ItemId, ItemId, Store!Quantity, Quantity,
         Store!Day, Day

(* The tables start empty in both. *)
LEMMA StoreInit == Init => Store!Init
  BY SameSets DEF Init, Store!Init

(* A customer's or an administrator's save is one edit of the basket. *)
LEMMA SaveIsEdit ==
  ASSUME TypeOK, NEW t \in Thread, SaveCommit(t) \/ AdminSaveCommit(t)
  PROVE  \E b \in BookingId, i \in ItemId, q \in Quantity : Store!Edit(b, i, q)
  <1> DEFINE b == req[t].booking
             i == req[t].item
             q == req[t].quantity
  <1>1. b \in BookingId /\ i \in ItemId /\ q \in Quantity
    <2>1. req[t] \in SaveRequest \/ req[t] \in AdminSaveRequest
      BY RequestShape DEF SaveCommit, AdminSaveCommit, TypeOK
    <2> QED BY <2>1, SMT DEF SaveRequest, AdminSaveRequest
  <1>2. Store!Edit(b, i, q)
    BY DEF SaveCommit, RevisionClaimed, SaveAllowed, AdminSaveCommit, Store!Edit,
           bookingVars, catalogVars, Store!bookingVars, Store!itemVars
  <1> HIDE DEF b, i, q
  <1> QED BY <1>1, <1>2

(* A committed booking form moves the booking, possibly to where it is. *)
LEMMA MoveIsMove ==
  ASSUME TypeOK, NEW t \in Thread, MoveBookingCommit(t)
  PROVE  \E b \in BookingId, d \in Day : Store!MoveBooking(b, d)
  <1> DEFINE b == req[t].booking
             d == IF req[t].date = req[t].loaded THEN eventDate[b] ELSE req[t].date
  <1>1. req[t] \in MoveBookingRequest
    BY RequestShape DEF MoveBookingCommit, TypeOK
  <1>2. b \in BookingId /\ d \in Day
    BY <1>1, SMT DEF MoveBookingRequest, TypeOK
  <1>3. Store!MoveBooking(b, d)
    BY DEF MoveBookingCommit, Store!MoveBooking, catalogVars, Store!itemVars
  <1> HIDE DEF b, d
  <1> QED BY <1>2, <1>3

(* Deleting a booking removes it, or does nothing when it is already gone: *)
(* then its basket is gone as well.                                        *)
LEMMA DeleteIsRemove ==
  ASSUME TypeOK, SelectionsJoinLiveRows, NEW t \in Thread, DeleteBookingCommit(t)
  PROVE  (\E b \in BookingId : Store!RemoveBooking(b)) \/ UNCHANGED Store!vars
  <1> DEFINE b == req[t].booking
             none == [i \in ItemId |-> 0]
  <1>1. b \in BookingId
    <2>1. req[t] \in DeleteBookingRequest
      BY RequestShape DEF DeleteBookingCommit, TypeOK
    <2> QED BY <2>1, SMT DEF DeleteBookingRequest
  <1>2. /\ bookings' = bookings \ {b} /\ selected' = [selected EXCEPT ![b] = none]
        /\ UNCHANGED <<lastBooking, eventDate, revision, items, stock, visible, today>>
    BY DEF DeleteBookingCommit, catalogVars
  <1>3. CASE b \in bookings
    <2>1. Store!RemoveBooking(b)
      BY <1>2, <1>3, SameSets DEF Store!RemoveBooking, Store!itemVars
    <2> QED BY <1>1, <2>1
  <1>4. CASE b \notin bookings
    <2>1. \A i \in ItemId : selected[b][i] = 0
      <3>1. \A i \in ItemId : selected[b][i] \in Nat /\ ~(selected[b][i] > 0)
        BY <1>1, <1>4, BoundsAssumption, SMT DEF SelectionsJoinLiveRows, TypeOK, Quantity
      <3> QED BY <3>1, SMT
    <2>2. selected[b] = none
      <3>1. selected[b] \in [ItemId -> Quantity]
        BY <1>1 DEF TypeOK
      <3> QED BY <2>1, <3>1
    <2>3. selected' = selected
      BY <1>2, <2>2 DEF TypeOK
    <2>4. bookings' = bookings
      BY <1>2, <1>4
    <2> QED BY <1>2, <2>3, <2>4 DEF Store!vars, Store!bookingVars, Store!itemVars
  <1> QED BY <1>3, <1>4

(* The forms and the visibility button change an item that exists. *)
LEMMA UpdateIsChange ==
  ASSUME TypeOK, NEW t \in Thread, UpdateItemCommit(t) \/ ToggleItemCommit(t)
  PROVE  \E i \in ItemId, s \in Quantity, v \in BOOLEAN : Store!ChangeItem(i, s, v)
  <1>1. ASSUME UpdateItemCommit(t)
        PROVE  \E i \in ItemId, s \in Quantity, v \in BOOLEAN : Store!ChangeItem(i, s, v)
    <2> DEFINE r == req[t]
               i == r.item
               s == IF r.stock = r.loadedStock THEN stock[i] ELSE r.stock
               v == IF r.visible = r.loadedVisible THEN visible[i] ELSE r.visible
    <2>1. r \in UpdateItemRequest
      BY <1>1, RequestShape DEF UpdateItemCommit, TypeOK
    <2>2. i \in ItemId /\ s \in Quantity /\ v \in BOOLEAN
      <3>1. i \in ItemId /\ r.stock \in Quantity /\ r.visible \in BOOLEAN
        BY <2>1, SMT DEF UpdateItemRequest
      <3> QED BY <3>1 DEF TypeOK
    <2>3. Store!ChangeItem(i, s, v)
      BY <1>1 DEF UpdateItemCommit, Store!ChangeItem, bookingVars, Store!bookingVars
    <2> HIDE DEF i, s, v
    <2> QED BY <2>2, <2>3
  <1>2. ASSUME ToggleItemCommit(t)
        PROVE  \E i \in ItemId, s \in Quantity, v \in BOOLEAN : Store!ChangeItem(i, s, v)
    <2> DEFINE i == req[t].item
               v == ~req[t].loadedVisible
    <2>1. i \in ItemId
      <3>1. req[t] \in ToggleItemRequest
        BY <1>2, RequestShape DEF ToggleItemCommit, TypeOK
      <3> QED BY <3>1, SMT DEF ToggleItemRequest
    <2>2. stock' = [stock EXCEPT ![i] = stock[i]]
      BY <1>2 DEF ToggleItemCommit, TypeOK
    <2>3. Store!ChangeItem(i, stock[i], v)
      BY <1>2, <2>2 DEF ToggleItemCommit, Store!ChangeItem, bookingVars, Store!bookingVars
    <2>4. stock[i] \in Quantity /\ v \in BOOLEAN
      BY <2>1 DEF TypeOK
    <2> HIDE DEF i, v
    <2> QED BY <2>1, <2>3, <2>4
  <1> QED BY <1>1, <1>2

(* The item whose deletion passes the second guard is in no current basket,  *)
(* although that guard compares with a date read earlier.                     *)
LEMMA DeleteItemIsRemove ==
  ASSUME TypeOK, NothingFromTheFuture, NEW t \in Thread, DeleteItemCommit(t)
  PROVE  \E i \in ItemId : Store!RemoveItem(i)
  <1> DEFINE r == req[t]
  <1>1. r \in DeleteItemRequest /\ r.day <= today
    BY RequestShape DEF DeleteItemCommit, TypeOK, NothingFromTheFuture, RequestNotAhead
  <1>2. r.item \in ItemId /\ r.day \in Day
    BY <1>1, SMT DEF DeleteItemRequest
  <1>3. ASSUME NEW b \in bookings, selected[b][r.item] > 0
        PROVE  eventDate[b] < today
    <2>1. ~(eventDate[b] >= r.day)
      BY <1>3 DEF DeleteItemCommit, Blocked
    <2>2. eventDate[b] \in Day /\ today \in Day
      BY LiveBookings DEF TypeOK
    <2> HIDE DEF r
    <2> QED BY <1>1, <1>2, <2>1, <2>2, BoundsAssumption, SMT DEF Day
  <1>4. Store!RemoveItem(r.item)
    BY <1>3, SameSets DEF DeleteItemCommit, Store!RemoveItem, bookingVars, Store!bookingVars
  <1> HIDE DEF r
  <1> QED BY <1>2, <1>4

(* Every step is a step of the store or leaves the store alone. *)
LEMMA StoreStep ==
  ASSUME IInv, [Next]_vars
  PROVE  [Store!Next]_(Store!vars)
  <1>0. TypeOK /\ NothingFromTheFuture /\ SelectionsJoinLiveRows
    BY DEF IInv
  <1> USE SameSets DEF Store!vars, Store!bookingVars, Store!itemVars
  <1>1. ASSUME NEW t \in Thread, Load(t)
        PROVE  UNCHANGED Store!vars
    BY <1>0, <1>1, LoadStep
  <1>2. ASSUME NEW t \in Thread, NEW basketOnly \in BOOLEAN,
               PortalRender(t, basketOnly) \/ ReplyDeliver(t)
        PROVE  UNCHANGED Store!vars
    BY <1>2 DEF PortalRender, ReplyDeliver, bookingVars, catalogVars
  <1>3. ASSUME NEW t \in Thread, SaveCommit(t) \/ AdminSaveCommit(t)
        PROVE  Store!Next
    BY <1>0, <1>3, SaveIsEdit DEF Store!Next
  <1>4. ASSUME NEW t \in Thread, NEW d \in Day, BookingCreate(t, d)
        PROVE  Store!Next
    <2>1. Store!AddBooking(lastBooking + 1, d) /\ lastBooking + 1 \in BookingId
      BY <1>4 DEF BookingCreate, Store!AddBooking, catalogVars
    <2> QED BY <2>1 DEF Store!Next
  <1>5. ASSUME NEW t \in Thread, MoveBookingCommit(t)
        PROVE  Store!Next
    BY <1>0, <1>5, MoveIsMove DEF Store!Next
  <1>6. ASSUME NEW t \in Thread, DeleteBookingCommit(t)
        PROVE  Store!Next \/ UNCHANGED Store!vars
    <2>1. (\E b \in BookingId : Store!RemoveBooking(b)) \/ UNCHANGED Store!vars
      BY <1>0, <1>6, DeleteIsRemove
    <2> QED BY <2>1 DEF Store!Next
  <1>7. ASSUME NEW t \in Thread, NEW i \in ItemId, NEW s \in Quantity, NEW v \in BOOLEAN,
               ItemCreate(t, i, s, v)
        PROVE  Store!Next
    <2>1. i \notin items
      BY <1>7, SMT DEF ItemCreate, IsNextItemId, ItemId
    <2>2. Store!AddItem(i, s, v)
      BY <1>7, <2>1 DEF ItemCreate, Store!AddItem, bookingVars
    <2> QED BY <2>2 DEF Store!Next
  <1>8. ASSUME NEW t \in Thread, UpdateItemCommit(t) \/ ToggleItemCommit(t)
        PROVE  Store!Next
    BY <1>0, <1>8, UpdateIsChange DEF Store!Next
  <1>9. ASSUME NEW t \in Thread, DeleteItemCommit(t)
        PROVE  Store!Next
    BY <1>0, <1>9, DeleteItemIsRemove DEF Store!Next
  <1>10. CASE NextDay
    BY <1>10 DEF NextDay, Store!Next, Store!NextDay, bookingVars, catalogVars
  <1>11. CASE UNCHANGED vars
    BY <1>11 DEF vars
  <1> QED BY <1>1, <1>2, <1>3, <1>4, <1>5, <1>6, <1>7, <1>8, <1>9, <1>10, <1>11
          DEF Next, CustomerStep, AdminBookingStep, AdminItemStep, Load

(* The handlers implement the atomic store. *)
THEOREM Refinement == Spec => HandlersAreAtomic
  <1>1. IInv /\ [Next]_vars => [Store!Next]_(Store!vars)
    BY StoreStep
  <1> QED BY <1>1, StoreInit, Invariant, PTL DEF Spec, HandlersAreAtomic, Store!Spec

-----------------------------------------------------------------------------
(* Only an administrator goes past the stock or edits a hidden item. *)
THEOREM CatalogIsRespected == Spec => CustomersStayWithinCatalog
  <1> DEFINE Edited(b, i) ==
               \E t \in Thread :
                 /\ req[t].op = "adminSave" /\ req[t].booking = b /\ req[t].item = i
                 /\ req'[t] = Idle
             Respected ==
               \A b \in bookings \cap bookings', i \in items \cap items' :
                 /\ selected'[b][i] # selected[b][i]
                 /\ ~visible[i] \/ selected'[b][i] > stock[i]
                 => Edited(b, i)
  <1>1. ASSUME IInv, [Next]_vars,
               NEW b \in bookings \cap bookings', NEW i \in items \cap items',
               selected'[b][i] # selected[b][i],
               ~visible[i] \/ selected'[b][i] > stock[i]
        PROVE  Edited(b, i)
    <2>0. TypeOK /\ b \in BookingId /\ i \in ItemId
      <3>1. TypeOK
        BY <1>1 DEF IInv
      <3>2. bookings \subseteq BookingId /\ items \subseteq ItemId
        BY <3>1, BoundsAssumption DEF TypeOK, BookingId
      <3> QED BY <3>1, <3>2
    <2>1. \A t \in Thread : ~Load(t)
      BY <1>1, <2>0, LoadStep
    <2>2. ASSUME NEW t \in Thread, AdminSaveCommit(t)
          PROVE  Edited(b, i)
      <3> DEFINE r == req[t]
      <3>1. r \in AdminSaveRequest
        BY <2>0, <2>2, RequestShape DEF AdminSaveCommit, TypeOK
      <3>2. r.booking \in BookingId /\ r.item \in ItemId
        BY <3>1, SMT DEF AdminSaveRequest
      <3>3. selected' = [selected EXCEPT ![r.booking][r.item] = r.quantity]
        BY <2>2 DEF AdminSaveCommit
      <3>4. r.op = "adminSave" /\ req'[t] = Idle
        BY <2>0, <2>2 DEF AdminSaveCommit, Finish, TypeOK
      <3> HIDE DEF r
      <3>5. r.booking = b /\ r.item = i
        BY <1>1, <2>0, <3>2, <3>3, SMT DEF TypeOK
      <3> QED BY <3>4, <3>5 DEF r
    <2>3. ASSUME NEW t \in Thread, SaveCommit(t)
          PROVE  FALSE
      <3> DEFINE r == req[t]
      <3>1. r \in SaveRequest
        BY <2>0, <2>3, RequestShape DEF SaveCommit, TypeOK
      <3>2. r.booking \in BookingId /\ r.item \in ItemId /\ r.quantity \in Quantity
        BY <3>1, SMT DEF SaveRequest
      <3>3. selected' = [selected EXCEPT ![r.booking][r.item] = r.quantity]
        BY <2>3 DEF SaveCommit
      <3>4. visible[r.item] /\ r.quantity <= stock[r.item]
        BY <2>3 DEF SaveCommit, SaveAllowed
      <3> HIDE DEF r
      <3>5. r.booking = b /\ r.item = i /\ selected'[b][i] = r.quantity
        BY <1>1, <2>0, <3>2, <3>3, SMT DEF TypeOK
      <3>6. r.quantity \in Int /\ stock[i] \in Int
        BY <2>0, <3>2, BoundsAssumption, SMT DEF TypeOK, Quantity
      <3>7. ~(r.quantity > stock[i])
        BY <3>4, <3>5, <3>6, SMT
      <3> QED BY <1>1, <3>4, <3>5, <3>7
    <2>4. ASSUME NEW t \in Thread, NEW d \in Day, NEW basketOnly \in BOOLEAN,
                 \/ PortalRender(t, basketOnly) \/ ReplyDeliver(t) \/ BookingCreate(t, d)
                 \/ MoveBookingCommit(t) \/ UpdateItemCommit(t) \/ ToggleItemCommit(t)
          PROVE  FALSE
      BY <1>1, <2>4 DEF PortalRender, ReplyDeliver, BookingCreate, MoveBookingCommit,
                        UpdateItemCommit, ToggleItemCommit
    <2>5. ASSUME NEW t \in Thread, NEW j \in ItemId, NEW s \in Quantity, NEW v \in BOOLEAN,
                 ItemCreate(t, j, s, v)
          PROVE  FALSE
      BY <1>1, <2>5 DEF ItemCreate
    <2>6. ASSUME NEW t \in Thread, DeleteBookingCommit(t)
          PROVE  FALSE
      <3> DEFINE none == [j \in ItemId |-> 0]
                 x == req[t].booking
      <3>1. selected' = [selected EXCEPT ![x] = none] /\ x \notin bookings'
        BY <2>6 DEF DeleteBookingCommit
      <3> HIDE DEF none, x
      <3> QED BY <1>1, <2>0, <3>1, SMT DEF TypeOK
    <2>7. ASSUME NEW t \in Thread, DeleteItemCommit(t)
          PROVE  FALSE
      BY <1>1, <2>0, <2>7, SMT DEF DeleteItemCommit, TypeOK
    <2>8. ~NextDay /\ ~UNCHANGED vars
      BY <1>1 DEF NextDay, vars
    <2>9. today \in Day
      BY <2>0 DEF TypeOK
    <2> QED BY <1>1, <2>1, <2>2, <2>3, <2>4, <2>5, <2>6, <2>7, <2>8, <2>9
            DEF Next, CustomerStep, AdminBookingStep, AdminItemStep, Load
  <1>2. IInv /\ [Next]_vars => [Respected]_vars
    BY <1>1
  <1> QED BY <1>2, Invariant, PTL DEF Spec, CustomersStayWithinCatalog
=============================================================================
