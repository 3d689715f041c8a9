------------------------------- MODULE Sessions -------------------------------
(***************************************************************************)
(* Server-side sessions (app/__init__.py, app/csrf.py, app/security.py,    *)
(* the sign-in and sign-out handlers of app/views).  A request carries the *)
(* cookie its browser had when it was sent; load_web_session looks the     *)
(* session up, and then deletes or touches the row by its primary key in a *)
(* second statement.  SQLite hands the largest id out again, so by then    *)
(* the id may be another session's.                                        *)
(***************************************************************************)
EXTENDS Integers, FiniteSets, FiniteSetsExt

CONSTANTS
  Request,      \* requests that can be under way at once
  Browser,      \* cookie jars
  MaxBooking,   \* bound: bookings are 1..MaxBooking
  MaxToken,     \* bound: sign-ins that succeed
  LastDay,      \* bound on the clock
  CustomerDays, \* CUSTOMER_SESSION_SECONDS
  AdminDays,    \* ADMIN_SESSION_SECONDS
  Admin,        \* the actor of administrator sessions
  Nobody,       \* no session
  NoRow         \* no row has this id

ASSUME SessionsAssumption ==
  /\ MaxBooking \in Nat /\ MaxToken \in Nat /\ LastDay \in Nat
  /\ CustomerDays \in Nat \ {0} /\ AdminDays \in Nat \ {0}
  /\ Admin \notin Int /\ Nobody \notin Int /\ Admin # Nobody

Booking == 1..MaxBooking
Actor == Booking \cup {Admin}

\* new_session_token: random, so never the same twice; 0 is no token.
Token == 1..MaxToken
NoToken == 0

\* Ids are handed out from 1, and no more rows exist than tokens.
Id == 1..MaxToken

VARIABLES
  rows,     \* web_sessions by id: digest, actor, expires_at; or NoRow
  bookings, \* "new", "live" or "deleted" (AUTOINCREMENT: ids are not reused)
  clock,    \* the day
  cookie,   \* venue_session in each browser
  pages,    \* pages open in the tabs of each browser: csrf_token, whose page
  request,  \* the requests under way
  issued,   \* tokens generated so far
  ended     \* history: tokens whose sign-out the server has committed

vars == <<rows, bookings, clock, cookie, pages, request, issued, ended>>

Row == [digest : Token, actor : Actor, expires : Nat]
Page == [csrf : Token \cup {NoToken}, of : Actor \cup {Nobody}]

\* view: any GET; the others are POSTs from a page.  save: selection_update;
\* delete: booking_delete.
Op == {"view", "save", "signIn", "signOut", "delete"}

\* What an answer does to the cookie besides setting it to a token.
Clear == NoToken
Keep == -1

\* sent: not arrived; found: the SELECT has returned a row; ready: g.web_session
\* is set; admitted: past the decorator.
RequestStep == {"sent", "found", "ready", "admitted"}

RequestState ==
  [step : RequestStep, browser : Browser, op : Op, page : Page,
   cookie : Token \cup {NoToken},
   id : Id \cup {0},                \* the loaded row: primary key,
   session : Token \cup {NoToken},  \* session_digest,
   actor : Actor \cup {Nobody},     \* actor
   expires : Nat]                   \* and expires_at

\* A sign-in that has been accepted for an actor.
VerifiedState == [step : {"verified"}, browser : Browser, actor : Actor]

\* An answer on its way: Set-Cookie, and the page if it is one with forms.
AnswerState ==
  [step : {"answered"}, browser : Browser, reply : Token \cup {Clear, Keep},
   shows : SUBSET Page]

Idle == [step |-> "idle"]

Sent(w, op, p) ==
  [step |-> "sent", browser |-> w, op |-> op, page |-> p, cookie |-> cookie[w],
   id |-> 0, session |-> NoToken, actor |-> Nobody, expires |-> 0]

\* What a request has come to know of its session.
Knows(r, step, id, session, actor, expires) ==
  [step |-> step, browser |-> request[r].browser, op |-> request[r].op,
   page |-> request[r].page, cookie |-> request[r].cookie,
   id |-> id, session |-> session, actor |-> actor, expires |-> expires]

\* It goes on with what it knows.
Goes(r, step) ==
  Knows(r, step, request[r].id, request[r].session, request[r].actor, request[r].expires)

Verified(r, a) == [step |-> "verified", browser |-> request[r].browser, actor |-> a]

Answered(r, reply, shows) ==
  [step |-> "answered", browser |-> request[r].browser, reply |-> reply, shows |-> shows]

At(r, step) == request[r].step = step

AnonymousPage == [csrf |-> NoToken, of |-> Nobody]

\* The page rendered in answer to a request: csrf_token of its session.
PageOf(r) == [csrf |-> request[r].session, of |-> request[r].actor]

Used == {i \in Id : rows[i] # NoRow}
Live == {b \in Booking : bookings[b] = "live"}

Lifetime(a) == IF a = Admin THEN AdminDays ELSE CustomerDays

\* Mutant of FormsOf: a sign-in page has every form.
EveryForm(p) == Op \ {"view"}

\* The forms on pages rendered for nobody, the administrator, or a customer; the
\* administrator may open the customers' sign-in page, and the other way round.
FormsOf(p) ==
  CASE p.of = Nobody -> {"signIn"}
    [] p.of = Admin -> {"delete", "signOut", "signIn"}
    [] OTHER -> {"save", "signOut", "signIn"}

\* INTEGER PRIMARY KEY without AUTOINCREMENT: one more than the largest.
NextId == Max(Used \cup {0}) + 1

\* Mutant of Removed: the ids are forgotten with the rows.
RemovedWithIds(ids) == [i \in Id \ ids |-> rows[i]]

\* Mutant of Removed: the row stays.
RemovedNever(ids) == rows

Removed(ids) == [i \in Id |-> IF i \in ids THEN NoRow ELSE rows[i]]

Answer(r, reply) == request' = [request EXCEPT ![r] = Answered(r, reply, {})]

Init ==
  /\ rows = [i \in Id |-> NoRow]
  /\ bookings = [b \in Booking |-> "new"]
  /\ clock = 0
  /\ cookie = [w \in Browser |-> NoToken]
  /\ pages = [w \in Browser |-> {AnonymousPage}]
  /\ request = [r \in Request |-> Idle]
  /\ issued = 0
  /\ ended = {}

-----------------------------------------------------------------------------
(* The session of a request *)

\* A tab follows a link, or submits a form of a page that is still open.
Send(r, w, op, p) ==
  /\ At(r, "idle")
  /\ \/ op = "view" /\ p = AnonymousPage
     \/ p \in pages[w] /\ op \in FormsOf(p)
  /\ request' = [request EXCEPT ![r] = Sent(w, op, p)]
  /\ UNCHANGED <<rows, bookings, clock, cookie, pages, issued, ended>>

\* load_web_session: SELECT by digest.
LookupSession(r, i) ==
  /\ At(r, "sent")
  /\ i \in Used /\ rows[i].digest = request[r].cookie
  /\ request' = [request EXCEPT ![r] =
       Knows(r, "found", i, rows[i].digest, rows[i].actor, rows[i].expires)]
  /\ UNCHANGED <<rows, bookings, clock, cookie, pages, issued, ended>>

NoSession(r) ==
  /\ At(r, "sent")
  /\ \A i \in Used : rows[i].digest # request[r].cookie
  /\ request' = [request EXCEPT ![r] = Goes(r, "ready")]
  /\ UNCHANGED <<rows, bookings, clock, cookie, pages, issued, ended>>

\* Mutant of Own: by actor instead of by primary key.
OwnByActor(r) == {i \in Used : rows[i].actor = request[r].actor}

\* The row that load_web_session has found, by its primary key.
Own(r) == {request[r].id}

\* The row has expired: DELETE by primary key, and no session.
ExpireSession(r) ==
  /\ At(r, "found") /\ request[r].expires <= clock
  /\ rows' = Removed(Own(r))
  /\ request' = [request EXCEPT ![r] = Knows(r, "ready", 0, NoToken, Nobody, 0)]
  /\ UNCHANGED <<bookings, clock, cookie, pages, issued, ended>>

\* UPDATE last_seen_at by primary key.  If no row has the id any more the flush
\* fails (StaleDataError): the answer is a 500.
TouchSession(r) ==
  /\ At(r, "found") /\ request[r].expires > clock
  /\ IF request[r].id \in Used
       THEN request' = [request EXCEPT ![r] =
              Knows(r, "ready", request[r].id, request[r].session, request[r].actor, 0)]
       ELSE Answer(r, Keep)
  /\ UNCHANGED <<rows, bookings, clock, cookie, pages, issued, ended>>

\* Mutant of TokenFits: enforce_csrf accepts any valid token.
AnyToken(r) == TRUE

\* enforce_csrf: the form was rendered for the session it arrives with.
TokenFits(r) == request[r].page.csrf = request[r].session

\* A form of another session, or one whose token is too old: 403.
RefuseForm(r) ==
  /\ At(r, "ready") /\ request[r].op # "view"
  /\ Answer(r, Keep)
  /\ UNCHANGED <<rows, bookings, clock, cookie, pages, issued, ended>>

\* enforce_csrf lets the form pass, and so does the decorator of its handler.
MayAct(r) ==
  /\ TokenFits(r)
  /\ CASE request[r].op = "save" -> request[r].actor \in Booking
       [] request[r].op = "delete" -> request[r].actor = Admin
       [] request[r].op = "signOut" ->
            request[r].actor = Admin <=> request[r].page.of = Admin
       [] OTHER -> FALSE

\* admin_required; customer_required, which looks the booking up.
Admit(r) ==
  /\ At(r, "ready") /\ MayAct(r)
  /\ request[r].actor \in Live \cup {Admin}
  /\ request' = [request EXCEPT ![r] = Goes(r, "admitted")]
  /\ UNCHANGED <<rows, bookings, clock, cookie, pages, issued, ended>>

\* The decorator finds no session of its kind, or its booking deleted.
Redirect(r) ==
  /\ At(r, "ready")
  /\ request[r].op = "view" \/ (TokenFits(r) /\ request[r].op # "signIn")
  /\ request[r].actor \notin Live
  /\ request[r].actor = Admin =>
       \/ request[r].op \in {"view", "save"}
       \/ request[r].op = "signOut" /\ request[r].page.of # Admin
  /\ Answer(r, IF request[r].actor = Admin \/ request[r].cookie = NoToken
                 THEN Keep ELSE Clear)
  /\ UNCHANGED <<rows, bookings, clock, cookie, pages, issued, ended>>

-----------------------------------------------------------------------------
(* Handlers *)

\* A page is rendered: it has the csrf_token of the session it is rendered for.
View(r) ==
  /\ At(r, "ready") /\ request[r].op = "view"
  /\ request[r].actor \in Live \cup {Admin, Nobody}
  /\ request' = [request EXCEPT ![r] = Answered(r, Keep, {PageOf(r)})]
  /\ UNCHANGED <<rows, bookings, clock, cookie, pages, issued, ended>>

\* selection_update: Baskets.tla says what it does to the basket of the actor.
Save(r) ==
  /\ At(r, "admitted") /\ request[r].op = "save"
  /\ Answer(r, Keep)
  /\ UNCHANGED <<rows, bookings, clock, cookie, pages, issued, ended>>

\* logout: DELETE by primary key; no row is left is only a warning.
SignOut(r) ==
  /\ At(r, "admitted") /\ request[r].op = "signOut"
  /\ rows' = Removed(Own(r))
  /\ ended' = ended \cup {request[r].session}
  /\ Answer(r, Clear)
  /\ UNCHANGED <<bookings, clock, cookie, pages, issued>>

\* login_submit, up to the access code's SELECT or the password's check.  A
\* customer's sign-in form is of no use to a customer, an administrator's to an
\* administrator.
VerifySignIn(r, a) ==
  /\ At(r, "ready") /\ request[r].op = "signIn" /\ TokenFits(r)
  /\ a \in Live \cup {Admin}
  /\ request[r].actor # Nobody => (request[r].actor = Admin) # (a = Admin)
  /\ request' = [request EXCEPT ![r] = Verified(r, a)]
  /\ UNCHANGED <<rows, bookings, clock, cookie, pages, issued, ended>>

\* Wrong code or password, too many failures (RateLimiter.tla), or signed in.
RefuseSignIn(r) ==
  /\ At(r, "ready") /\ request[r].op = "signIn" /\ TokenFits(r)
  /\ Answer(r, Keep)
  /\ UNCHANGED <<rows, bookings, clock, cookie, pages, issued, ended>>

\* Mutant of ActorExists: foreign keys are not enforced.
ActorAssumed(a) == TRUE

\* The foreign key of booking_id.
ActorExists(a) == a = Admin \/ a \in Live

\* A new row, with the token that has just been made.
NewRow(a) == [digest |-> issued + 1, actor |-> a, expires |-> clock + Lifetime(a)]

\* INSERT of the session, and the cookie in the answer.
StoreSession(r) ==
  /\ At(r, "verified") /\ ActorExists(request[r].actor)
  /\ issued < MaxToken
  /\ issued' = issued + 1
  /\ rows' = [rows EXCEPT ![NextId] = NewRow(request[r].actor)]
  /\ Answer(r, issued + 1)
  /\ UNCHANGED <<bookings, clock, cookie, pages, ended>>

\* The booking is gone by now, or the database fails: the sign-in page again.
StoreFails(r) ==
  /\ At(r, "verified")
  /\ Answer(r, Keep)
  /\ UNCHANGED <<rows, bookings, clock, cookie, pages, issued, ended>>

\* Mutant of SessionsOf: booking_delete forgets the sessions.
SessionsOfNone(b) == {}

SessionsOf(b) == {i \in Used : rows[i].actor = b}

\* booking_delete: sessions and booking in one transaction, or neither.
DeleteBooking(r, b) ==
  /\ At(r, "admitted") /\ request[r].op = "delete"
  /\ b \in Live
  /\ \/ /\ rows' = Removed(SessionsOf(b))
        /\ bookings' = [bookings EXCEPT ![b] = "deleted"]
     \/ UNCHANGED <<rows, bookings>>
  /\ Answer(r, Keep)
  /\ UNCHANGED <<clock, cookie, pages, issued, ended>>

\* booking_create; AUTOINCREMENT gives ids in order, each once.
CreateBooking(b) ==
  /\ \A c \in Booking : (bookings[c] = "new") <=> (c >= b)
  /\ bookings' = [bookings EXCEPT ![b] = "live"]
  /\ UNCHANGED <<rows, clock, cookie, pages, request, issued, ended>>

-----------------------------------------------------------------------------
(* The answer *)

Deliver(r) ==
  LET q == request[r]
  IN /\ At(r, "answered")
     /\ cookie' = IF q.reply = Keep THEN cookie
                  ELSE [cookie EXCEPT ![q.browser] = q.reply]
     /\ pages' = [pages EXCEPT ![q.browser] = @ \cup q.shows]
     /\ request' = [request EXCEPT ![r] = Idle]
     /\ UNCHANGED <<rows, bookings, clock, issued, ended>>

\* The browser has gone away.
LoseAnswer(r) ==
  /\ At(r, "answered")
  /\ request' = [request EXCEPT ![r] = Idle]
  /\ UNCHANGED <<rows, bookings, clock, cookie, pages, issued, ended>>

NextDay ==
  /\ clock < LastDay
  /\ clock' = clock + 1
  /\ UNCHANGED <<rows, bookings, cookie, pages, request, issued, ended>>

Handle(r) ==
  \/ \E w \in Browser, op \in Op, p \in Page : Send(r, w, op, p)
  \/ \E i \in Id : LookupSession(r, i)
  \/ NoSession(r) \/ ExpireSession(r) \/ TouchSession(r)
  \/ RefuseForm(r) \/ Admit(r) \/ Redirect(r)
  \/ View(r) \/ Save(r) \/ SignOut(r)
  \/ \E a \in Actor : VerifySignIn(r, a)
  \/ RefuseSignIn(r) \/ StoreSession(r) \/ StoreFails(r)
  \/ \E b \in Booking : DeleteBooking(r, b)
  \/ Deliver(r) \/ LoseAnswer(r)

Next ==
  \/ \E r \in Request : Handle(r)
  \/ \E b \in Booking : CreateBooking(b)
  \/ NextDay

Spec == Init /\ [][Next]_vars

-----------------------------------------------------------------------------
(* Properties *)

\* Every variable has its type: ids are handed out within their bound.
TypeOK ==
  /\ rows \in [Id -> Row \cup {NoRow}]
  /\ bookings \in [Booking -> {"new", "live", "deleted"}]
  /\ clock \in 0..LastDay
  /\ cookie \in [Browser -> Token \cup {NoToken}]
  /\ pages \in [Browser -> SUBSET Page]
  /\ request \in [Request -> RequestState \cup VerifiedState \cup AnswerState \cup {Idle}]
  /\ issued \in 0..MaxToken
  /\ ended \in SUBSET Token

\* docs/plans/03:42 "Deleting a booking transactionally removes its sessions":
\* no session of a booking that is gone, also when a sign-in looked the booking
\* up before it was deleted and stores its session afterwards.
SessionsJoinLiveBookings ==
  \A i \in Used : rows[i].actor \in Live \cup {Admin}

\* A form acts for the booking, or the administrator, whose page it is on: a
\* customer's page left open while another customer, or the administrator, signs
\* in in the same browser never changes the basket, or ends the session, of that
\* one (enforce_csrf, the decorators).
FormsActForTheirPage ==
  \A r \in Request : At(r, "admitted") => request[r].page.of = request[r].actor

\* docs/plans/03:39 "end on logout": once the server has answered a sign-out, no
\* row has its digest, whatever other requests had loaded the session before.
SignedOutStaysOut ==
  \A i \in Used : rows[i].digest \notin ended

\* docs/plans/03:39 "Customer sessions persist for 30 days [...] and end on
\* logout": a session that has not expired leaves the table only by its own
\* sign-out, with its booking, or because a request still holds its id from an
\* earlier session to which SQLite had given the same one.
SessionsPersist ==
  [][\A i \in Used :
       rows[i].expires > clock /\ rows'[i] = NoRow =>
         \/ rows[i].digest \in ended'
         \/ rows[i].actor \in Booking /\ bookings'[rows[i].actor] = "deleted"
         \/ \E r \in Request :
              /\ At(r, "found") \/ At(r, "admitted")
              /\ request[r].id = i /\ request[r].session # rows[i].digest
              /\ request'[r] # request[r]]_vars
=============================================================================
