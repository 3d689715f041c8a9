---------------------------- MODULE SessionsProofs ----------------------------
(* Theorems about Sessions for any number of requests, browsers, bookings and  *)
(* sign-ins.                                                                   *)
EXTENDS Sessions, FiniteSetTheorems, WellFoundedInduction, TLAPS

-----------------------------------------------------------------------------
(* The inductive invariant *)

\* The requests that have arrived and know what the browser sent.
Under(r) == request[r].step \in RequestStep
Active == {r \in Request : Under(r)}
Reply == {r \in Request : At(r, "answered")}

\* SQLite has not handed out more ids than sessions have been made.
IdsInOrder == \A i \in Used : i <= issued

\* Only tokens that have been made are anywhere.
TokensAreIssued ==
  /\ \A i \in Used : rows[i].digest <= issued
  /\ \A r \in Active : request[r].session <= issued /\ request[r].page.csrf <= issued
  /\ \A r \in Reply : \A p \in request[r].shows : p.csrf <= issued
  /\ \A w \in Browser : \A p \in pages[w] : p.csrf <= issued

\* Every token stands for the one who has signed in with it: in the table, in
\* what requests have loaded, and on pages.
Agree(owner) ==
  /\ owner[NoToken] = Nobody
  /\ \A i \in Used : rows[i].actor = owner[rows[i].digest]
  /\ \A r \in Active :
       /\ request[r].actor = owner[request[r].session]
       /\ request[r].page.of = owner[request[r].page.csrf]
  /\ \A r \in Reply : \A p \in request[r].shows : p.of = owner[p.csrf]
  /\ \A w \in Browser : \A p \in pages[w] : p.of = owner[p.csrf]

Owners == [Token \cup {NoToken} -> Actor \cup {Nobody}]

TokensHaveOwners == \E owner \in Owners : Agree(owner)

OneRowPerToken ==
  \A i, j \in Used : rows[i].digest = rows[j].digest => i = j

\* What a request knows of its row is true as long as that row exists.
KnownRow ==
  \A r \in Active, i \in Used :
    rows[i].digest = request[r].session =>
      /\ request[r].id = i
      /\ At(r, "found") => request[r].expires = rows[i].expires

AdmittedFit ==
  \A r \in Request : At(r, "admitted") =>
    request[r].session # NoToken /\ request[r].page.csrf = request[r].session

SignOutsAreIssued == \A k \in ended : k <= issued

Core ==
  /\ IdsInOrder /\ TokensAreIssued /\ TokensHaveOwners
  /\ OneRowPerToken /\ KnownRow /\ AdmittedFit

IInv ==
  TypeOK /\ SessionsJoinLiveBookings /\ SignedOutStaysOut /\ SignOutsAreIssued /\ Core

-----------------------------------------------------------------------------
(* Ids *)

LEMMA LargestExists ==
  ASSUME NEW S, S \subseteq Int, S # {}, IsFiniteSet(S)
  PROVE  \E m \in S : \A n \in S : n <= m
  <1> DEFINE Above(m) == {n \in S : n > m}
             T == {Above(m) : m \in S}
             R == StrictSubsetOrdering(S)
  <1>1. IsWellFoundedOn(R, FiniteSubsetsOf(S))
    BY FS_StrictSubsetOrderingWellFounded
  <1>2. T \subseteq FiniteSubsetsOf(S)
    BY FS_Subset, Zenon DEF FiniteSubsetsOf
  <1>3. T # {}
    OBVIOUS
  <1>4. \E t \in T : \A u \in T : ~ (<<u, t>> \in R)
    <2> HIDE DEF T, R
    <2> QED BY <1>1, <1>2, <1>3, WFMin, Zenon
  <1>5. PICK m \in S : \A k \in S : ~ (<<Above(k), Above(m)>> \in R)
    BY <1>4, Zenon
  <1>6. ASSUME NEW n \in S, ~ (n <= m) PROVE FALSE
    <2>0. n \in Int /\ m \in Int /\ S \subseteq Int
      OBVIOUS
    <2>1. n > m
      BY <1>6, <2>0
    <2>2. n \in Above(m) /\ n \notin Above(n)
      BY <2>0, <2>1
    <2>4. ASSUME NEW x \in Above(n) PROVE x \in Above(m)
      <3>1. x \in Int /\ x > n
        BY <2>0
      <3>2. x > m
        BY <3>1, <2>0, <2>1
      <3> QED BY <3>2
    <2>5. Above(n) \subseteq Above(m) /\ Above(n) # Above(m)
      BY <2>2, <2>4
    <2>3. <<Above(n), Above(m)>> \in R
      BY <2>5 DEF StrictSubsetOrdering
    <2> QED BY <2>3, <1>5
  <1> QED BY <1>6

\* The next id is free, and at most one more than the sessions made so far.
LEMMA NextIdIsFree ==
  ASSUME TypeOK, IdsInOrder
  PROVE  /\ NextId \in 1..(issued + 1)
         /\ NextId \notin Used
  <1> DEFINE S == Used \cup {0}
  <1>1. issued \in Nat /\ MaxToken \in Nat /\ Used \subseteq 1..issued
    BY SessionsAssumption DEF TypeOK, IdsInOrder, Used, Id
  <1>2. S \subseteq 0..issued
    BY <1>1
  <1>3. IsFiniteSet(0..issued)
    BY <1>1, FS_Interval
  <1>4. S \subseteq Int /\ S # {} /\ IsFiniteSet(S)
    <2>1. IsFiniteSet(S)
      BY <1>2, <1>3, FS_Subset
    <2> QED BY <1>2, <2>1
  <1>5. \E m \in S : \A n \in S : n <= m
    <2> HIDE DEF S
    <2> QED BY <1>4, LargestExists
  <1>6. Max(S) \in S /\ \A n \in S : n <= Max(S)
    <2> HIDE DEF S
    <2>1. \E m \in S : \A n \in S : m >= n
      BY <1>4, <1>5
    <2>2. Max(S) \in S /\ \A n \in S : Max(S) >= n
      BY <2>1, Zenon DEF Max
    <2> QED BY <2>2, <1>4
  <1>7. NextId = Max(S) + 1
    BY DEF NextId
  <1> HIDE DEF S
  <1>8. Max(S) \in 0..issued
    BY <1>2, <1>6
  <1>9. \A n \in S : n < NextId
    BY <1>4, <1>6, <1>7, <1>8
  <1> QED BY <1>1, <1>7, <1>8, <1>9 DEF S

-----------------------------------------------------------------------------
(* Requests *)

Requests == RequestState \cup VerifiedState \cup AnswerState \cup {Idle}

\* The step tells what is known of a request.
LEMMA RequestShape ==
  ASSUME NEW q \in Requests
  PROVE  /\ q.step \in RequestStep => q \in RequestState
         /\ q.step = "verified" => q \in VerifiedState
         /\ q.step = "answered" => q \in AnswerState
  <1>1. q \in RequestState => q.step \in RequestStep
    BY Zenon DEF RequestState
  <1>2. q \in VerifiedState => q.step = "verified"
    BY Zenon DEF VerifiedState
  <1>3. q \in AnswerState => q.step = "answered"
    BY Zenon DEF AnswerState
  <1>4. q = Idle => q.step = "idle"
    BY DEF Idle
  <1> QED BY <1>1, <1>2, <1>3, <1>4 DEF Requests, RequestStep

LEMMA RequestFields ==
  ASSUME NEW q \in RequestState
  PROVE  /\ q.step \in RequestStep /\ q.browser \in Browser /\ q.op \in Op
         /\ q.page \in Page /\ q.cookie \in Token \cup {NoToken}
         /\ q.id \in Id \cup {0} /\ q.session \in Token \cup {NoToken}
         /\ q.actor \in Actor \cup {Nobody} /\ q.expires \in Nat
  BY Zenon DEF RequestState

LEMMA Renewed ==
  ASSUME NEW r \in Request, NEW v \in Requests, request \in [Request -> Requests],
         request' = [request EXCEPT ![r] = v]
  PROVE  /\ request' \in [Request -> Requests]
         /\ request'[r] = v
         /\ \A q \in Request : q # r => request'[q] = request[q]
  BY SMT

\* What a request has come to know.
LEMMA KnowsIs ==
  ASSUME NEW r \in Request, request[r] \in RequestState,
         NEW step \in RequestStep, NEW id \in Id \cup {0},
         NEW session \in Token \cup {NoToken}, NEW actor \in Actor \cup {Nobody},
         NEW expires \in Nat,
         NEW v, v = Knows(r, step, id, session, actor, expires)
  PROVE  /\ v \in RequestState /\ v.step = step /\ v.page = request[r].page
         /\ v.id = id /\ v.session = session /\ v.actor = actor /\ v.expires = expires
  <1>1. /\ request[r].browser \in Browser /\ request[r].op \in Op
        /\ request[r].page \in Page /\ request[r].cookie \in Token \cup {NoToken}
    BY RequestFields
  <1> QED BY <1>1, SMT DEF Knows, RequestState

LEMMA AnsweredIs ==
  ASSUME NEW r \in Request, request[r].browser \in Browser,
         NEW reply \in Token \cup {Clear, Keep}, NEW shows \in SUBSET Page,
         NEW v, v = Answered(r, reply, shows)
  PROVE  v \in AnswerState /\ v.step = "answered" /\ v.shows = shows
  BY SMT DEF Answered, AnswerState

-----------------------------------------------------------------------------
(* What keeps the invariant *)

\* A request that may take the place of another.
SafeActive(v) ==
  /\ v.session <= issued /\ v.page.csrf <= issued
  /\ \A owner \in Owners : Agree(owner) =>
       v.actor = owner[v.session] /\ v.page.of = owner[v.page.csrf]
  /\ \A i \in Used : rows[i].digest = v.session =>
       v.id = i /\ (v.step = "found" => v.expires = rows[i].expires)
  /\ v.step = "admitted" => v.session # NoToken /\ v.page.csrf = v.session

SafePages(ps) ==
  \A p \in ps : p.csrf <= issued /\ \A owner \in Owners : Agree(owner) => p.of = owner[p.csrf]

Safe(v) ==
  /\ v.step \in RequestStep => SafeActive(v)
  /\ v.step = "answered" => SafePages(v.shows)

\* One request goes on, rows may go, pages may arrive.
LEMMA CoreKept ==
  ASSUME TypeOK, Core, NEW r \in Request, NEW v \in Requests, Safe(v),
         request' = [request EXCEPT ![r] = v],
         Used' \subseteq Used, \A i \in Used' : rows'[i] = rows[i],
         \A w \in Browser : \A p \in pages'[w] :
           p \in pages[w] \/ \E q \in Reply : p \in request[q].shows,
         issued' = issued
  PROVE  Core'
  <1>1. /\ request' \in [Request -> Requests] /\ request'[r] = v
        /\ \A q \in Request : q # r => request'[q] = request[q]
    <2>1. request \in [Request -> Requests]
      BY DEF TypeOK, Requests
    <2> QED BY <2>1, Renewed
  <1>2. IdsInOrder'
    BY DEF Core, IdsInOrder
  <1>3. ASSUME NEW q \in Active', q # r PROVE q \in Active /\ request'[q] = request[q]
    BY <1>1, <1>3 DEF Active, Under
  <1>4. ASSUME NEW q \in Reply', q # r PROVE q \in Reply /\ request'[q] = request[q]
    BY <1>1, <1>4 DEF Reply, At
  <1>5. r \in Active' => SafeActive(v)
    BY <1>1 DEF Safe, Active, Under
  <1>6. r \in Reply' => SafePages(v.shows)
    BY <1>1 DEF Safe, Reply, At
  <1>7. TokensAreIssued'
    <2>1. ASSUME NEW i \in Used' PROVE rows'[i].digest <= issued'
      BY DEF Core, TokensAreIssued
    <2>2. ASSUME NEW q \in Active'
          PROVE request'[q].session <= issued' /\ request'[q].page.csrf <= issued'
      <3>1. CASE q = r
        BY <3>1, <1>1, <1>5 DEF SafeActive
      <3>2. CASE q # r
        BY <3>2, <1>3 DEF Core, TokensAreIssued
      <3> QED BY <3>1, <3>2
    <2>3. ASSUME NEW q \in Reply', NEW p \in request'[q].shows PROVE p.csrf <= issued'
      <3>1. CASE q = r
        BY <3>1, <1>1, <1>6 DEF SafePages
      <3>2. CASE q # r
        BY <3>2, <1>4 DEF Core, TokensAreIssued
      <3> QED BY <3>1, <3>2
    <2>4. ASSUME NEW w \in Browser, NEW p \in pages'[w] PROVE p.csrf <= issued'
      BY DEF Core, TokensAreIssued
    <2> QED BY <2>1, <2>2, <2>3, <2>4 DEF TokensAreIssued
  <1>8. TokensHaveOwners'
    <2>1. PICK owner \in Owners : Agree(owner)
      BY DEF Core, TokensHaveOwners
    <2>2. Agree(owner)'
      <3>1. ASSUME NEW i \in Used' PROVE rows'[i].actor = owner[rows'[i].digest]
        BY <2>1 DEF Agree
      <3>2. ASSUME NEW q \in Active'
            PROVE /\ request'[q].actor = owner[request'[q].session]
                  /\ request'[q].page.of = owner[request'[q].page.csrf]
        <4>1. CASE q = r
          BY <4>1, <1>1, <1>5, <2>1 DEF SafeActive
        <4>2. CASE q # r
          BY <4>2, <1>3, <2>1 DEF Agree
        <4> QED BY <4>1, <4>2
      <3>3. ASSUME NEW q \in Reply', NEW p \in request'[q].shows PROVE p.of = owner[p.csrf]
        <4>1. CASE q = r
          BY <4>1, <1>1, <1>6, <2>1 DEF SafePages
        <4>2. CASE q # r
          BY <4>2, <1>4, <2>1 DEF Agree
        <4> QED BY <4>1, <4>2
      <3>4. ASSUME NEW w \in Browser, NEW p \in pages'[w] PROVE p.of = owner[p.csrf]
        BY <2>1 DEF Agree
      <3>5. owner[NoToken] = Nobody
        BY <2>1 DEF Agree
      <3> QED BY <3>1, <3>2, <3>3, <3>4, <3>5 DEF Agree
    <2> QED BY <2>2 DEF TokensHaveOwners, Owners, Token, Actor, Booking
  <1>9. OneRowPerToken'
    BY DEF Core, OneRowPerToken
  <1>10. KnownRow'
    <2>1. ASSUME NEW q \in Active', NEW i \in Used',
                 rows'[i].digest = request'[q].session
          PROVE  request'[q].id = i /\ (At(q, "found")' => request'[q].expires = rows'[i].expires)
      <3>0. i \in Used /\ rows'[i] = rows[i]
        OBVIOUS
      <3>1. CASE q = r
        BY <3>0, <3>1, <2>1, <1>1, <1>5 DEF SafeActive, At
      <3>2. CASE q # r
        <4>1. q \in Active /\ request'[q] = request[q]
          BY <1>3, <3>2
        <4>2. request[q].id = i /\ (At(q, "found") => request[q].expires = rows[i].expires)
          BY <3>0, <4>1, <2>1 DEF Core, KnownRow
        <4> QED BY <3>0, <4>1, <4>2 DEF At
      <3> QED BY <3>1, <3>2
    <2> QED BY <2>1 DEF KnownRow
  <1>11. AdmittedFit'
    <2>1. ASSUME NEW q \in Request, request'[q].step = "admitted"
          PROVE  request'[q].session # NoToken /\ request'[q].page.csrf = request'[q].session
      <3>1. CASE q = r
        BY <3>1, <2>1, <1>1 DEF Safe, SafeActive, RequestStep
      <3>2. CASE q # r
        BY <3>2, <2>1, <1>1 DEF Core, AdmittedFit, At
      <3> QED BY <3>1, <3>2
    <2> QED BY <2>1 DEF AdmittedFit, At
  <1> QED BY <1>2, <1>7, <1>8, <1>9, <1>10, <1>11 DEF Core

\* Requests that have what they had are safe, whatever step they go to.
LEMMA GoingOnIsSafe ==
  ASSUME TypeOK, Core, NEW r \in Active, NEW v, NEW step \in {"ready", "admitted"},
         v.step = step, v.page = request[r].page, v.id = request[r].id,
         v.session = request[r].session, v.actor = request[r].actor,
         step = "admitted" =>
           request[r].actor # Nobody /\ request[r].page.csrf = request[r].session
  PROVE  Safe(v)
  <1>1. v.session <= issued /\ v.page.csrf <= issued
    BY DEF Core, TokensAreIssued
  <1>2. ASSUME NEW owner \in Owners, Agree(owner)
        PROVE  v.actor = owner[v.session] /\ v.page.of = owner[v.page.csrf]
    BY <1>2 DEF Agree
  <1>3. ASSUME NEW i \in Used, rows[i].digest = v.session
        PROVE  v.id = i
    BY <1>3 DEF Core, KnownRow
  <1>4. step = "admitted" => v.session # NoToken /\ v.page.csrf = v.session
    <2>1. PICK owner \in Owners : Agree(owner)
      BY DEF Core, TokensHaveOwners
    <2> QED BY <2>1 DEF Agree
  <1> QED BY <1>1, <1>2, <1>3, <1>4 DEF Safe, SafeActive, RequestStep

\* Steps that change nothing but the request.
LEMMA RequestOnly ==
  ASSUME IInv, NEW r \in Request, NEW v \in Requests, Safe(v),
         request' = [request EXCEPT ![r] = v],
         UNCHANGED <<rows, bookings, clock, cookie, pages, issued, ended>>
  PROVE  IInv'
  <1>1. Core'
    <2>1. TypeOK /\ Core /\ Used' = Used
      BY DEF IInv, Used
    <2> QED BY <2>1, CoreKept
  <1>2. TypeOK'
    <2>1. request' \in [Request -> Requests]
      BY Renewed DEF IInv, TypeOK, Requests
    <2> QED BY <2>1 DEF IInv, TypeOK, Requests, Row, Page, RequestState, VerifiedState, AnswerState
  <1>3. SessionsJoinLiveBookings' /\ SignedOutStaysOut' /\ SignOutsAreIssued'
    BY DEF IInv, SessionsJoinLiveBookings, SignedOutStaysOut, SignOutsAreIssued, Used, Live
  <1> QED BY <1>1, <1>2, <1>3 DEF IInv

LEMMA AnswerIsSafe ==
  ASSUME NEW r \in Request, request[r].browser \in Browser,
         NEW reply \in Token \cup {Clear, Keep}
  PROVE  Answered(r, reply, {}) \in Requests /\ Safe(Answered(r, reply, {}))
  <1> DEFINE v == Answered(r, reply, {})
  <1>1. v \in AnswerState /\ v.step = "answered" /\ v.shows = {}
    BY AnsweredIs
  <1> HIDE DEF v
  <1>2. v \in Requests /\ Safe(v)
    BY <1>1 DEF Requests, Safe, SafePages, RequestStep
  <1> QED BY <1>2 DEF v

\* Requests that have arrived have a browser.
LEMMA ActiveShape ==
  ASSUME TypeOK, NEW r \in Request
  PROVE  /\ r \in Active => request[r] \in RequestState
         /\ At(r, "verified") => request[r] \in VerifiedState
         /\ At(r, "answered") => request[r] \in AnswerState
         /\ r \in Active \/ At(r, "verified") => request[r].browser \in Browser
  <1>1. request[r] \in Requests
    BY DEF TypeOK, Requests
  <1>2. /\ r \in Active => request[r] \in RequestState
        /\ At(r, "verified") => request[r] \in VerifiedState
        /\ At(r, "answered") => request[r] \in AnswerState
    BY <1>1, RequestShape DEF Active, Under, At
  <1>3. request[r] \in VerifiedState => request[r].browser \in Browser
    BY Zenon DEF VerifiedState
  <1> QED BY <1>2, <1>3, RequestFields

-----------------------------------------------------------------------------
(* Each step keeps it *)

LEMMA AnswerStep ==
  ASSUME IInv, NEW r \in Request, r \in Active \/ At(r, "verified"),
         NEW reply \in Token \cup {Clear, Keep}, Answer(r, reply),
         UNCHANGED <<rows, bookings, clock, cookie, pages, issued, ended>>
  PROVE  IInv'
  <1>1. request[r].browser \in Browser
    BY ActiveShape DEF IInv
  <1>2. Answered(r, reply, {}) \in Requests /\ Safe(Answered(r, reply, {}))
    BY <1>1, AnswerIsSafe
  <1> QED BY <1>2, RequestOnly DEF Answer

LEMMA IdleStep ==
  ASSUME IInv, NEW r \in Request, request' = [request EXCEPT ![r] = Idle],
         UNCHANGED <<rows, bookings, clock, cookie, pages, issued, ended>>
  PROVE  IInv'
  <1>1. Idle \in Requests /\ Safe(Idle)
    BY DEF Idle, Requests, Safe, RequestStep
  <1> QED BY <1>1, RequestOnly

LEMMA SendStep ==
  ASSUME IInv, NEW r \in Request, NEW w \in Browser, NEW op \in Op, NEW p \in Page,
         Send(r, w, op, p)
  PROVE  IInv'
  <1> DEFINE v == Sent(w, op, p)
  <1>1. cookie[w] \in Token \cup {NoToken} /\ issued \in Nat
    BY SessionsAssumption DEF IInv, TypeOK
  <1>2. /\ v \in RequestState /\ v.step = "sent" /\ v.page = p /\ v.session = NoToken
        /\ v.actor = Nobody
    BY <1>1, SMT DEF Sent, RequestState, RequestStep
  <1>3. p = AnonymousPage \/ p \in pages[w]
    BY DEF Send
  <1>4. p.csrf <= issued
    BY <1>1, <1>3 DEF IInv, Core, TokensAreIssued, AnonymousPage, NoToken
  <1>5. ASSUME NEW owner \in Owners, Agree(owner) PROVE p.of = owner[p.csrf]
    BY <1>3, <1>5 DEF Agree, AnonymousPage
  <1>6. \A i \in Used : rows[i].digest # NoToken
    <2>1. ASSUME NEW i \in Used PROVE rows[i].digest \in Token
      <3>1. rows[i] \in Row
        BY DEF IInv, TypeOK, Used
      <3> QED BY <3>1 DEF Row
    <2> QED BY <2>1 DEF Token, NoToken
  <1> HIDE DEF v
  <1>7. v \in Requests /\ Safe(v)
    BY <1>1, <1>2, <1>4, <1>5, <1>6 DEF Requests, Safe, SafeActive, Agree, NoToken
  <1> QED BY <1>7, RequestOnly DEF Send, v

LEMMA LookupStep ==
  ASSUME IInv, NEW r \in Request, NEW i \in Id, LookupSession(r, i)
  PROVE  IInv'
  <1> DEFINE v == Knows(r, "found", i, rows[i].digest, rows[i].actor, rows[i].expires)
  <1>1. r \in Active /\ i \in Used
    BY DEF LookupSession, Active, Under, At, RequestStep
  <1>2. request[r] \in RequestState
    BY <1>1, ActiveShape DEF IInv
  <1>3. rows[i].digest \in Token /\ rows[i].actor \in Actor /\ rows[i].expires \in Nat
    <2>1. rows[i] \in Row
      BY <1>1 DEF IInv, TypeOK, Used
    <2> QED BY <2>1 DEF Row
  <1>4. /\ v \in RequestState /\ v.step = "found" /\ v.page = request[r].page /\ v.id = i
        /\ v.session = rows[i].digest /\ v.actor = rows[i].actor /\ v.expires = rows[i].expires
    BY <1>2, <1>3, KnowsIs DEF RequestStep
  <1> HIDE DEF v
  <1>5. v.session <= issued /\ v.page.csrf <= issued
    BY <1>1, <1>4 DEF IInv, Core, TokensAreIssued
  <1>6. ASSUME NEW owner \in Owners, Agree(owner)
        PROVE  v.actor = owner[v.session] /\ v.page.of = owner[v.page.csrf]
    BY <1>1, <1>4, <1>6 DEF Agree
  <1>7. ASSUME NEW j \in Used, rows[j].digest = v.session PROVE j = i
    BY <1>1, <1>4, <1>7 DEF IInv, Core, OneRowPerToken
  <1>8. v \in Requests /\ Safe(v)
    BY <1>4, <1>5, <1>6, <1>7 DEF Requests, Safe, SafeActive
  <1> QED BY <1>8, RequestOnly DEF LookupSession, v

LEMMA GoOnStep ==
  ASSUME IInv, NEW r \in Active, NEW step \in {"ready", "admitted"}, NEW expires \in Nat,
         step = "admitted" =>
           request[r].actor # Nobody /\ request[r].page.csrf = request[r].session,
         request' = [request EXCEPT ![r] =
           Knows(r, step, request[r].id, request[r].session, request[r].actor, expires)],
         UNCHANGED <<rows, bookings, clock, cookie, pages, issued, ended>>
  PROVE  IInv'
  <1> DEFINE v == Knows(r, step, request[r].id, request[r].session, request[r].actor, expires)
  <1>1. r \in Request /\ TypeOK /\ Core
    BY DEF Active, IInv
  <1>2. request[r] \in RequestState
    BY <1>1, ActiveShape
  <1>3. /\ request[r].id \in Id \cup {0} /\ request[r].session \in Token \cup {NoToken}
        /\ request[r].actor \in Actor \cup {Nobody}
    BY <1>2, RequestFields
  <1>4. /\ v \in RequestState /\ v.step = step /\ v.page = request[r].page
        /\ v.id = request[r].id /\ v.session = request[r].session
        /\ v.actor = request[r].actor
    <2>1. step \in RequestStep
      BY DEF RequestStep
    <2> HIDE DEF v
    <2>2. v = Knows(r, step, request[r].id, request[r].session, request[r].actor, expires)
      BY DEF v
    <2> QED BY ONLY <1>1, <1>2, <1>3, <2>1, <2>2, expires \in Nat, KnowsIs, SMT
  <1> HIDE DEF v
  <1>5. Safe(v)
    BY <1>1, <1>4, GoingOnIsSafe
  <1>6. v \in Requests
    BY <1>4 DEF Requests
  <1> QED BY <1>1, <1>5, <1>6, RequestOnly DEF v

LEMMA NoSessionStep ==
  ASSUME IInv, NEW r \in Request, NoSession(r)
  PROVE  IInv'
  <1>1. r \in Active
    BY DEF NoSession, Active, Under, At, RequestStep
  <1>2. request[r].expires \in Nat
    BY <1>1, ActiveShape, RequestFields DEF IInv
  <1> QED BY <1>1, <1>2, GoOnStep DEF NoSession, Goes

LEMMA TouchStep ==
  ASSUME IInv, NEW r \in Request, TouchSession(r)
  PROVE  IInv'
  <1>1. r \in Active
    BY DEF TouchSession, Active, Under, At, RequestStep
  <1>2. CASE request[r].id \in Used
    BY <1>1, <1>2, GoOnStep DEF TouchSession
  <1>3. CASE request[r].id \notin Used
    BY <1>1, <1>3, AnswerStep DEF TouchSession
  <1> QED BY <1>2, <1>3

LEMMA AdmitStep ==
  ASSUME IInv, NEW r \in Request, Admit(r)
  PROVE  IInv'
  <1>1. r \in Active
    BY DEF Admit, Active, Under, At, RequestStep
  <1>2. request[r].expires \in Nat
    BY <1>1, ActiveShape, RequestFields DEF IInv
  <1>3. request[r].actor # Nobody
    BY SessionsAssumption DEF Admit, Live, Booking
  <1>4. request[r].page.csrf = request[r].session
    BY Zenon DEF Admit, MayAct, TokenFits
  <1> QED BY <1>1, <1>2, <1>3, <1>4, GoOnStep DEF Admit, Goes

\* The answers that change nothing.
LEMMA PlainAnswerStep ==
  ASSUME IInv, NEW r \in Request,
         RefuseForm(r) \/ Redirect(r) \/ Save(r) \/ RefuseSignIn(r) \/ StoreFails(r)
  PROVE  IInv'
  <1>1. r \in Active \/ At(r, "verified")
    BY DEF RefuseForm, Redirect, Save, RefuseSignIn, StoreFails, Active, Under, At, RequestStep
  <1>2. \E reply \in Token \cup {Clear, Keep} : Answer(r, reply)
    <2>1. CASE Redirect(r)
      <3>1. PICK reply : /\ reply = IF request[r].actor = Admin \/ request[r].cookie = NoToken
                                      THEN Keep ELSE Clear
                         /\ Answer(r, reply)
        BY <2>1, Zenon DEF Redirect
      <3>2. reply \in Token \cup {Clear, Keep}
        BY <3>1
      <3> QED BY <3>1, <3>2
    <2>2. CASE RefuseForm(r) \/ Save(r) \/ RefuseSignIn(r) \/ StoreFails(r)
      BY <2>2, Zenon DEF RefuseForm, Save, RefuseSignIn, StoreFails
    <2> QED BY <2>1, <2>2
  <1>3. UNCHANGED <<rows, bookings, clock, cookie, pages, issued, ended>>
    BY DEF RefuseForm, Redirect, Save, RefuseSignIn, StoreFails
  <1> QED BY <1>1, <1>2, <1>3, AnswerStep

LEMMA ViewStep ==
  ASSUME IInv, NEW r \in Request, View(r)
  PROVE  IInv'
  <1> DEFINE v == Answered(r, Keep, {PageOf(r)})
  <1>1. r \in Active
    BY DEF View, Active, Under, At, RequestStep
  <1>2. request[r] \in RequestState /\ request[r].browser \in Browser
    BY <1>1, ActiveShape, RequestFields DEF IInv
  <1>3. /\ PageOf(r) \in Page /\ PageOf(r).csrf = request[r].session
        /\ PageOf(r).of = request[r].actor
    <2>1. request[r].session \in Token \cup {NoToken} /\ request[r].actor \in Actor \cup {Nobody}
      BY <1>2, RequestFields
    <2> QED BY <2>1, SMT DEF PageOf, Page
  <1>4. v \in AnswerState /\ v.step = "answered" /\ v.shows = {PageOf(r)}
    BY <1>2, <1>3, AnsweredIs
  <1> HIDE DEF v
  <1>5. SafePages({PageOf(r)})
    BY <1>1, <1>3 DEF SafePages, Agree, IInv, Core, TokensAreIssued
  <1>6. v \in Requests /\ Safe(v)
    BY <1>4, <1>5 DEF Requests, Safe, RequestStep
  <1> QED BY <1>6, RequestOnly DEF View, v

LEMMA VerifyStep ==
  ASSUME IInv, NEW r \in Request, NEW a \in Actor, VerifySignIn(r, a)
  PROVE  IInv'
  <1> DEFINE v == Verified(r, a)
  <1>1. r \in Active
    BY DEF VerifySignIn, Active, Under, At, RequestStep
  <1>2. request[r].browser \in Browser
    BY <1>1, ActiveShape DEF IInv
  <1>3. v \in VerifiedState /\ v.step = "verified"
    BY <1>2, SMT DEF Verified, VerifiedState
  <1> HIDE DEF v
  <1>4. v \in Requests /\ Safe(v)
    BY <1>3 DEF Requests, Safe, RequestStep
  <1> QED BY <1>4, RequestOnly DEF VerifySignIn, v

\* The rows of some ids are removed, and a request goes on.
LEMMA RemoveStep ==
  ASSUME IInv, NEW r \in Request, NEW v \in Requests, Safe(v),
         request' = [request EXCEPT ![r] = v],
         NEW ids, rows' = Removed(ids), UNCHANGED <<pages, issued>>
  PROVE  /\ Core' /\ rows' \in [Id -> Row \cup {NoRow}]
         /\ request' \in [Request -> Requests]
         /\ Used' = Used \ ids /\ \A i \in Used' : rows'[i] = rows[i]
  <1>1. rows \in [Id -> Row \cup {NoRow}]
    BY DEF IInv, TypeOK
  <1>2. \A i \in Id : rows'[i] = IF i \in ids THEN NoRow ELSE rows[i]
    BY DEF Removed
  <1>3. rows' \in [Id -> Row \cup {NoRow}]
    BY <1>1 DEF Removed
  <1>4. Used' = Used \ ids /\ \A i \in Used' : rows'[i] = rows[i]
    BY <1>2 DEF Used
  <1>5. request' \in [Request -> Requests]
    BY Renewed DEF IInv, TypeOK, Requests
  <1>6. Core'
    BY <1>4, CoreKept DEF IInv
  <1> QED BY <1>3, <1>4, <1>5, <1>6

LEMMA NoRowForNoToken ==
  ASSUME TypeOK, NEW i \in Used
  PROVE  rows[i].digest \in Token /\ rows[i].digest # NoToken
  <1>1. rows[i] \in Row
    BY DEF TypeOK, Used
  <1> QED BY <1>1 DEF Row, Token, NoToken

\* With fewer rows, the rest of the invariant holds.
LEMMA RowsLeave ==
  ASSUME IInv, Core', rows' \in [Id -> Row \cup {NoRow}], request' \in [Request -> Requests],
         Used' \subseteq Used, \A i \in Used' : rows'[i] = rows[i],
         UNCHANGED <<bookings, clock, cookie, pages, issued, ended>>
  PROVE  IInv'
  <1>1. SessionsJoinLiveBookings' /\ SignedOutStaysOut' /\ SignOutsAreIssued'
    BY DEF IInv, SessionsJoinLiveBookings, SignedOutStaysOut, SignOutsAreIssued, Live
  <1>2. TypeOK'
    BY DEF IInv, TypeOK, Requests
  <1> QED BY <1>1, <1>2 DEF IInv

LEMMA ExpireStep ==
  ASSUME IInv, NEW r \in Request, ExpireSession(r)
  PROVE  IInv'
  <1> DEFINE v == Knows(r, "ready", 0, NoToken, Nobody, 0)
  <1>1. r \in Active
    BY DEF ExpireSession, Active, Under, At, RequestStep
  <1>2. request[r] \in RequestState /\ issued \in Nat
    BY <1>1, ActiveShape, SessionsAssumption DEF IInv, TypeOK
  <1>3. /\ v \in RequestState /\ v.step = "ready" /\ v.page = request[r].page
        /\ v.session = NoToken /\ v.actor = Nobody
    BY <1>2, KnowsIs DEF RequestStep
  <1> HIDE DEF v
  <1>4. \A i \in Used : rows[i].digest # NoToken
    BY NoRowForNoToken DEF IInv
  <1>5. Safe(v)
    BY <1>1, <1>2, <1>3, <1>4
       DEF Safe, SafeActive, Agree, IInv, Core, TokensAreIssued, NoToken
  <1>6. v \in Requests
    BY <1>3 DEF Requests
  <1>7. /\ Core' /\ rows' \in [Id -> Row \cup {NoRow}] /\ request' \in [Request -> Requests]
        /\ Used' = Used \ Own(r) /\ \A i \in Used' : rows'[i] = rows[i]
    BY <1>5, <1>6, RemoveStep DEF ExpireSession, v
  <1> QED BY <1>7, RowsLeave DEF ExpireSession

LEMMA SignOutStep ==
  ASSUME IInv, NEW r \in Request, SignOut(r)
  PROVE  IInv'
  <1> DEFINE v == Answered(r, Clear, {})
  <1>1. r \in Active
    BY DEF SignOut, Active, Under, At, RequestStep
  <1>2. request[r] \in RequestState /\ request[r].browser \in Browser
    BY <1>1, ActiveShape DEF IInv
  <1>3. v \in Requests /\ Safe(v)
    BY <1>2, AnswerIsSafe
  <1> HIDE DEF v
  <1>4. /\ Core' /\ rows' \in [Id -> Row \cup {NoRow}] /\ request' \in [Request -> Requests]
        /\ Used' = Used \ Own(r) /\ \A i \in Used' : rows'[i] = rows[i]
    BY <1>3, RemoveStep DEF SignOut, Answer, v
  <1>5. request[r].session \in Token
    <2>1. request[r].session # NoToken
      BY DEF SignOut, IInv, Core, AdmittedFit
    <2> QED BY <1>2, <2>1, RequestFields
  <1>6. SignedOutStaysOut'
    <2>1. ASSUME NEW i \in Used' PROVE rows[i].digest # request[r].session
      BY <1>1, <1>4 DEF Own, IInv, Core, KnownRow
    <2>2. ASSUME NEW i \in Used' PROVE rows'[i].digest \notin ended'
      BY <1>4, <2>1 DEF SignOut, IInv, SignedOutStaysOut
    <2> QED BY <2>2 DEF SignedOutStaysOut
  <1>7. SignOutsAreIssued'
    BY <1>1 DEF SignOut, IInv, SignOutsAreIssued, Core, TokensAreIssued
  <1>8. SessionsJoinLiveBookings'
    BY <1>4 DEF SignOut, IInv, SessionsJoinLiveBookings, Live
  <1>9. TypeOK'
    BY <1>4, <1>5 DEF SignOut, IInv, TypeOK, Requests
  <1> QED BY <1>4, <1>6, <1>7, <1>8, <1>9 DEF IInv

LEMMA DeleteStep ==
  ASSUME IInv, NEW r \in Request, NEW b \in Booking, DeleteBooking(r, b)
  PROVE  IInv'
  <1> DEFINE v == Answered(r, Keep, {})
  <1>1. r \in Active
    BY DEF DeleteBooking, Active, Under, At, RequestStep
  <1>2. request[r].browser \in Browser
    BY <1>1, ActiveShape DEF IInv
  <1>3. v \in Requests /\ Safe(v)
    BY <1>2, AnswerIsSafe
  <1> HIDE DEF v
  <1>4. CASE UNCHANGED <<rows, bookings>>
    BY <1>1, <1>4, AnswerStep DEF DeleteBooking
  <1>5. CASE rows' = Removed(SessionsOf(b)) /\ bookings' = [bookings EXCEPT ![b] = "deleted"]
    <2>1. /\ Core' /\ rows' \in [Id -> Row \cup {NoRow}] /\ request' \in [Request -> Requests]
          /\ Used' = Used \ SessionsOf(b) /\ \A i \in Used' : rows'[i] = rows[i]
      BY <1>3, <1>5, RemoveStep DEF DeleteBooking, Answer, v
    <2>2. SessionsJoinLiveBookings'
      <3>1. ASSUME NEW i \in Used' PROVE rows'[i].actor \in (Live \ {b}) \cup {Admin}
        BY <2>1 DEF IInv, SessionsJoinLiveBookings, SessionsOf
      <3>2. Live \ {b} \subseteq Live'
        BY <1>5 DEF Live, IInv, TypeOK
      <3> QED BY <3>1, <3>2 DEF SessionsJoinLiveBookings
    <2>3. SignedOutStaysOut' /\ SignOutsAreIssued'
      BY <2>1 DEF DeleteBooking, IInv, SignedOutStaysOut, SignOutsAreIssued
    <2>4. TypeOK'
      BY <1>5, <2>1 DEF DeleteBooking, IInv, TypeOK, Requests
    <2> QED BY <2>1, <2>2, <2>3, <2>4 DEF IInv
  <1> QED BY <1>4, <1>5 DEF DeleteBooking

\* A token that nothing names yet gets an owner.
LEMMA StoredCore ==
  ASSUME TypeOK, Core, issued \in Nat, NEW k, k = issued + 1, k \in Token, issued' = k,
         NEW n \in Id, n <= k, n \notin Used, rows'[n].digest = k, NEW a \in Actor, rows'[n].actor = a,
         \A i \in Used' : i = n \/ (i \in Used /\ i # n /\ rows'[i] = rows[i]),
         \A q \in Active' : q \in Active /\ request'[q] = request[q],
         \A q \in Reply' : request'[q].shows = {} \/ (q \in Reply /\ request'[q] = request[q]),
         \A q \in Request : At(q, "admitted")' => At(q, "admitted") /\ request'[q] = request[q],
         UNCHANGED pages
  PROVE  Core'
  <1>1. /\ \A i \in Used : i <= issued /\ i \in Nat /\ rows[i].digest <= issued /\ rows[i].digest \in Token
        /\ \A q \in Active :
             /\ request[q].session <= issued /\ request[q].session \in Token \cup {NoToken}
             /\ request[q].page.csrf <= issued /\ request[q].page.csrf \in Token \cup {NoToken}
        /\ \A q \in Reply : \A p \in request[q].shows : p.csrf <= issued /\ p.csrf \in Token \cup {NoToken}
        /\ \A w \in Browser : \A p \in pages[w] : p.csrf <= issued /\ p.csrf \in Token \cup {NoToken}
    <2>1. ASSUME NEW p \in Page PROVE p.csrf \in Token \cup {NoToken}
      BY DEF Page
    <2>2. ASSUME NEW q \in Active
          PROVE  /\ request[q].session \in Token \cup {NoToken}
                 /\ request[q].page \in Page
      <3>1. request[q] \in RequestState
        BY ActiveShape DEF Active
      <3> QED BY <3>1, RequestFields
    <2>3. ASSUME NEW q \in Reply, NEW p \in request[q].shows PROVE p \in Page
      <3>1. request[q] \in AnswerState
        BY ActiveShape DEF Reply
      <3>2. request[q].shows \in SUBSET Page
        BY <3>1, Zenon DEF AnswerState
      <3> QED BY <3>2
    <2>4. ASSUME NEW w \in Browser, NEW p \in pages[w] PROVE p \in Page
      BY DEF TypeOK
    <2>5. \A i \in Used : i \in Nat /\ rows[i].digest \in Token
      BY NoRowForNoToken DEF Used, Id
    <2> QED BY <2>1, <2>2, <2>3, <2>4, <2>5 DEF Core, IdsInOrder, TokensAreIssued
  <1>2. Token \subseteq Nat /\ NoToken \in Nat /\ k > issued
    BY DEF Token, NoToken
  <1>3. IdsInOrder'
    BY <1>1, <1>2 DEF IdsInOrder
  <1>4. TokensAreIssued'
    <2>1. \A x \in Token \cup {NoToken} : x <= issued => x <= k
      BY <1>2
    <2>2. k <= k
      BY <1>2
    <2>3. \A i \in Used' : rows'[i].digest <= issued'
      BY <1>1, <2>1, <2>2
    <2>4. \A q \in Active' : request'[q].session <= issued' /\ request'[q].page.csrf <= issued'
      BY <1>1, <2>1
    <2>5. \A q \in Reply' : \A p \in request'[q].shows : p.csrf <= issued'
      BY <1>1, <2>1
    <2>6. \A w \in Browser : \A p \in pages'[w] : p.csrf <= issued'
      BY <1>1, <2>1
    <2> QED BY <2>3, <2>4, <2>5, <2>6 DEF TokensAreIssued
  <1>5. TokensHaveOwners'
    <2>1. PICK owner \in Owners : Agree(owner)
      BY DEF Core, TokensHaveOwners
    <2> DEFINE new == [owner EXCEPT ![k] = a]
    <2>2. new \in Owners /\ new[k] = a
      BY DEF Owners
    <2>3. \A x \in Token \cup {NoToken} : x <= issued => new[x] = owner[x]
      <3>1. \A x \in Token \cup {NoToken} : x <= issued => x # k
        BY <1>2
      <3> QED BY <3>1 DEF Owners
    <2> HIDE DEF new
    <2>4. new[NoToken] = Nobody
      <3>1. NoToken <= issued
        BY <1>2 DEF NoToken
      <3> QED BY <3>1, <2>1, <2>3 DEF Agree
    <2>5. ASSUME NEW i \in Used' PROVE rows'[i].actor = new[rows'[i].digest]
      <3>1. CASE i = n
        BY <3>1, <2>2
      <3>2. CASE i # n
        <4>1. i \in Used /\ rows'[i] = rows[i]
          BY <3>2
        <4>2. rows[i].actor = owner[rows[i].digest]
          BY <4>1, <2>1 DEF Agree
        <4>3. new[rows[i].digest] = owner[rows[i].digest]
          BY <4>1, <1>1, <2>3
        <4> QED BY <4>1, <4>2, <4>3
      <3> QED BY <3>1, <3>2
    <2>6. ASSUME NEW q \in Active'
          PROVE  /\ request'[q].actor = new[request'[q].session]
                 /\ request'[q].page.of = new[request'[q].page.csrf]
      <3>1. q \in Active /\ request'[q] = request[q]
        OBVIOUS
      <3>2. /\ request[q].actor = owner[request[q].session]
            /\ request[q].page.of = owner[request[q].page.csrf]
        BY <3>1, <2>1 DEF Agree
      <3>3. /\ new[request[q].session] = owner[request[q].session]
            /\ new[request[q].page.csrf] = owner[request[q].page.csrf]
        BY <3>1, <1>1, <2>3
      <3> QED BY <3>1, <3>2, <3>3
    <2>7. \A q \in Reply' : \A p \in request'[q].shows : p.of = new[p.csrf]
      BY <1>1, <2>1, <2>3 DEF Agree
    <2>8. \A w \in Browser : \A p \in pages'[w] : p.of = new[p.csrf]
      BY <1>1, <2>1, <2>3 DEF Agree
    <2>9. Agree(new)'
      BY <2>4, <2>5, <2>6, <2>7, <2>8 DEF Agree
    <2>10. Owners' = Owners
      BY DEF Owners, Token, Actor, Booking
    <2> QED BY <2>2, <2>9, <2>10 DEF TokensHaveOwners
  <1>6. OneRowPerToken'
    <2>1. \A i \in Used : rows[i].digest # k
      BY <1>1, <1>2
    <2> QED BY <2>1 DEF Core, OneRowPerToken
  <1>7. KnownRow'
    <2>1. \A q \in Active : request[q].session # k
      BY <1>1, <1>2
    <2> QED BY <2>1 DEF Core, KnownRow, At
  <1>8. AdmittedFit'
    BY DEF Core, AdmittedFit
  <1> QED BY <1>3, <1>4, <1>5, <1>6, <1>7, <1>8 DEF Core

\* The new session's token is new, and so is its id.
LEMMA StoreStep ==
  ASSUME IInv, NEW r \in Request, StoreSession(r)
  PROVE  IInv'
  <1> DEFINE a == request[r].actor
             k == issued + 1
             n == NextId
             v == Answered(r, k, {})
  <1>1. request[r] \in VerifiedState /\ r \notin Active
    BY ActiveShape DEF StoreSession, IInv, Active, Under, At, RequestStep
  <1>2. a \in Actor /\ request[r].browser \in Browser
    BY <1>1, Zenon DEF VerifiedState
  <1>3. issued \in Nat /\ MaxToken \in Nat /\ clock \in Nat /\ issued < MaxToken /\ k \in Token
    BY SessionsAssumption DEF IInv, TypeOK, StoreSession, Token
  <1>4. n \in 1..k /\ n \in Id /\ n \notin Used
    BY <1>3, NextIdIsFree DEF IInv, Core, Id
  <1>5. v \in AnswerState /\ v.step = "answered" /\ v.shows = {}
    BY <1>2, <1>3, AnsweredIs
  <1>6. NewRow(a) \in Row /\ NewRow(a).digest = k /\ NewRow(a).actor = a
    <2>1. clock + Lifetime(a) \in Nat
      BY <1>3, SessionsAssumption DEF Lifetime
    <2> QED BY <1>2, <1>3, <2>1, SMT DEF NewRow, Row
  <1>7. /\ rows' \in [Id -> Row \cup {NoRow}] /\ rows'[n] = NewRow(a)
        /\ \A i \in Id : i # n => rows'[i] = rows[i]
    BY <1>4, <1>6 DEF StoreSession, IInv, TypeOK
  <1>8. /\ request' \in [Request -> Requests] /\ request'[r] = v
        /\ \A q \in Request : q # r => request'[q] = request[q]
    BY <1>5, Renewed DEF StoreSession, Answer, IInv, TypeOK, Requests
  <1>9. issued' = k /\ UNCHANGED <<bookings, clock, cookie, pages, ended>>
    BY DEF StoreSession
  <1>10. a \in Live \cup {Admin}
    BY DEF StoreSession, ActorExists
  <1> HIDE DEF a, k, n, v
  <1>11. \A i \in Used' : i = n \/ (i \in Used /\ i # n /\ rows'[i] = rows[i])
    BY <1>4, <1>7 DEF Used
  <1>12. \A q \in Active' : q \in Active /\ request'[q] = request[q]
    BY <1>5, <1>8 DEF Active, Under, RequestStep
  <1>13. \A q \in Reply' : (q = r /\ request'[q].shows = {}) \/ (q \in Reply /\ request'[q] = request[q])
    BY <1>5, <1>8 DEF Reply, At
  <1>14. TypeOK'
    BY <1>3, <1>7, <1>8, <1>9 DEF IInv, TypeOK, Requests, Token
  <1>15. SessionsJoinLiveBookings'
    BY <1>6, <1>7, <1>9, <1>10, <1>11 DEF IInv, SessionsJoinLiveBookings, Live
  <1>16. SignedOutStaysOut' /\ SignOutsAreIssued'
    <2>1. k = issued + 1
      BY DEF k
    <2>2. \A x \in ended : x <= issued /\ x \in Token
      BY DEF IInv, SignOutsAreIssued, TypeOK
    <2>3. k \notin ended /\ \A x \in ended : x <= k
      BY <2>1, <2>2, <1>3 DEF Token
    <2> QED BY <1>6, <1>7, <1>9, <1>11, <2>3
            DEF IInv, SignedOutStaysOut, SignOutsAreIssued
  <1>17. Core'
    <2>1. k = issued + 1 /\ n <= k
      BY <1>3, <1>4 DEF k
    <2>2. rows'[n].digest = k /\ rows'[n].actor = a
      BY <1>6, <1>7
    <2>3. \A q \in Reply' : request'[q].shows = {} \/ (q \in Reply /\ request'[q] = request[q])
      BY <1>13
    <2>4. ASSUME NEW q \in Request, At(q, "admitted")'
          PROVE  At(q, "admitted") /\ request'[q] = request[q]
      BY <2>4, <1>5, <1>8 DEF At
    <2>5. TypeOK /\ Core /\ UNCHANGED pages
      BY <1>9 DEF IInv
    <2> QED BY <1>2, <1>3, <1>4, <1>9, <1>11, <1>12, <2>1, <2>2, <2>3, <2>4, <2>5, StoredCore
  <1> QED BY <1>14, <1>15, <1>16, <1>17 DEF IInv

LEMMA DeliverStep ==
  ASSUME IInv, NEW r \in Request, Deliver(r)
  PROVE  IInv'
  <1>1. r \in Reply /\ request[r] \in AnswerState
    BY ActiveShape DEF Deliver, Reply, IInv
  <1>2. /\ request[r].reply \in Token \cup {Clear, Keep} /\ request[r].shows \in SUBSET Page
        /\ request[r].browser \in Browser
    BY <1>1, Zenon DEF AnswerState
  <1>3. Idle \in Requests /\ Safe(Idle)
    BY DEF Idle, Requests, Safe, RequestStep
  <1>4. request' \in [Request -> Requests]
    BY <1>3, Renewed DEF Deliver, IInv, TypeOK, Requests
  <1>5. pages' \in [Browser -> SUBSET Page]
    BY <1>2 DEF Deliver, IInv, TypeOK
  <1>6. cookie' \in [Browser -> Token \cup {NoToken}]
    BY <1>2 DEF Deliver, IInv, TypeOK, Clear
  <1>7. \A w \in Browser : \A p \in pages'[w] :
          p \in pages[w] \/ \E q \in Reply : p \in request[q].shows
    BY <1>1, <1>2 DEF Deliver, IInv, TypeOK
  <1>8. Core'
    <2>1. TypeOK /\ Core /\ Used' = Used /\ rows' = rows /\ issued' = issued
          /\ request' = [request EXCEPT ![r] = Idle]
      BY DEF Deliver, IInv, Used
    <2> QED BY <1>3, <1>7, <2>1, CoreKept
  <1>9. TypeOK'
    BY <1>4, <1>5, <1>6 DEF Deliver, IInv, TypeOK, Requests
  <1>10. SessionsJoinLiveBookings' /\ SignedOutStaysOut' /\ SignOutsAreIssued'
    BY DEF Deliver, IInv, SessionsJoinLiveBookings, SignedOutStaysOut, SignOutsAreIssued, Used, Live
  <1> QED BY <1>8, <1>9, <1>10 DEF IInv

LEMMA CoreUnchanged ==
  ASSUME Core, UNCHANGED <<rows, request, pages, issued>>
  PROVE  Core'
  <1>1. Used' = Used /\ Active' = Active /\ Reply' = Reply /\ Owners' = Owners
    BY DEF Used, Active, Under, Reply, At, Owners, Token, Actor, Booking
  <1>2. TokensHaveOwners'
    BY <1>1 DEF Core, TokensHaveOwners, Agree
  <1> QED BY <1>1, <1>2
       DEF Core, IdsInOrder, TokensAreIssued, OneRowPerToken, KnownRow, AdmittedFit, At

LEMMA CreateStep ==
  ASSUME IInv, NEW b \in Booking, CreateBooking(b)
  PROVE  IInv'
  <1>1. Core'
    BY CoreUnchanged DEF CreateBooking, IInv
  <1>2. TypeOK'
    BY DEF CreateBooking, IInv, TypeOK
  <1>3. SessionsJoinLiveBookings'
    <2>1. Live \subseteq Live' /\ Used' = Used
      BY DEF CreateBooking, IInv, TypeOK, Live, Used
    <2> QED BY <2>1 DEF CreateBooking, IInv, SessionsJoinLiveBookings
  <1>4. SignedOutStaysOut' /\ SignOutsAreIssued'
    BY DEF CreateBooking, IInv, SignedOutStaysOut, SignOutsAreIssued, Used
  <1> QED BY <1>1, <1>2, <1>3, <1>4 DEF IInv

LEMMA NextDayStep ==
  ASSUME IInv, NextDay
  PROVE  IInv'
  <1>1. Core'
    BY CoreUnchanged DEF NextDay, IInv
  <1>2. TypeOK'
    BY SessionsAssumption DEF NextDay, IInv, TypeOK
  <1>3. SessionsJoinLiveBookings' /\ SignedOutStaysOut' /\ SignOutsAreIssued'
    BY DEF NextDay, IInv, SessionsJoinLiveBookings, SignedOutStaysOut, SignOutsAreIssued, Used, Live
  <1> QED BY <1>1, <1>2, <1>3 DEF IInv

LEMMA StutterStep ==
  ASSUME IInv, UNCHANGED vars
  PROVE  IInv'
  <1>1. Core'
    BY CoreUnchanged DEF vars, IInv
  <1> QED BY <1>1
       DEF vars, IInv, TypeOK, SessionsJoinLiveBookings, SignedOutStaysOut, SignOutsAreIssued,
           Used, Live

-----------------------------------------------------------------------------
(* Theorems *)

LEMMA InitHolds == Init => IInv
  <1> SUFFICES ASSUME Init PROVE IInv
    OBVIOUS
  <1>1. Used = {} /\ Active = {} /\ Reply = {}
    BY DEF Init, Used, Active, Under, Reply, At, Idle, RequestStep
  <1>2. AnonymousPage \in Page /\ AnonymousPage.csrf = NoToken /\ AnonymousPage.of = Nobody
    BY DEF AnonymousPage, Page
  <1>3. TypeOK
    <2>1. /\ rows \in [Id -> Row \cup {NoRow}] /\ bookings \in [Booking -> {"new", "live", "deleted"}]
          /\ cookie \in [Browser -> Token \cup {NoToken}] /\ pages \in [Browser -> SUBSET Page]
          /\ request \in [Request -> RequestState \cup VerifiedState \cup AnswerState \cup {Idle}]
      BY <1>2 DEF Init
    <2>2. clock \in 0..LastDay /\ issued \in 0..MaxToken /\ ended \in SUBSET Token
      BY SessionsAssumption DEF Init
    <2> QED BY <2>1, <2>2 DEF TypeOK
  <1>4. TokensHaveOwners
    <2> DEFINE owner == [k \in Token \cup {NoToken} |-> Nobody]
    <2>1. owner \in Owners
      BY DEF Owners
    <2>2. Agree(owner)
      BY <1>1, <1>2 DEF Agree, Init
    <2> QED BY <2>1, <2>2 DEF TokensHaveOwners
  <1>5. /\ IdsInOrder /\ OneRowPerToken /\ KnownRow
        /\ SessionsJoinLiveBookings /\ SignedOutStaysOut
    BY <1>1 DEF IdsInOrder, OneRowPerToken, KnownRow, SessionsJoinLiveBookings, SignedOutStaysOut
  <1>6. TokensAreIssued
    BY <1>1, <1>2 DEF TokensAreIssued, Init, NoToken
  <1>7. SignOutsAreIssued /\ AdmittedFit
    BY DEF SignOutsAreIssued, AdmittedFit, Init, At, Idle
  <1> QED BY <1>3, <1>4, <1>5, <1>6, <1>7 DEF IInv, Core

LEMMA HandleStep ==
  ASSUME IInv, NEW r \in Request, Handle(r)
  PROVE  IInv'
  <1>1. CASE \E w \in Browser, op \in Op, p \in Page : Send(r, w, op, p)
    BY <1>1, SendStep
  <1>2. CASE \E i \in Id : LookupSession(r, i)
    BY <1>2, LookupStep
  <1>3. CASE NoSession(r) \/ ExpireSession(r) \/ TouchSession(r)
    BY <1>3, NoSessionStep, ExpireStep, TouchStep
  <1>4. CASE RefuseForm(r) \/ Redirect(r) \/ Save(r) \/ RefuseSignIn(r) \/ StoreFails(r)
    BY <1>4, PlainAnswerStep
  <1>5. CASE Admit(r) \/ View(r) \/ SignOut(r)
    BY <1>5, AdmitStep, ViewStep, SignOutStep
  <1>6. CASE \E a \in Actor : VerifySignIn(r, a)
    BY <1>6, VerifyStep
  <1>7. CASE StoreSession(r)
    BY <1>7, StoreStep
  <1>8. CASE \E b \in Booking : DeleteBooking(r, b)
    BY <1>8, DeleteStep
  <1>9. CASE Deliver(r)
    BY <1>9, DeliverStep
  <1>10. CASE LoseAnswer(r)
    BY <1>10, IdleStep DEF LoseAnswer
  <1> QED BY <1>1, <1>2, <1>3, <1>4, <1>5, <1>6, <1>7, <1>8, <1>9, <1>10 DEF Handle

LEMMA NextHolds == IInv /\ [Next]_vars => IInv'
  <1> SUFFICES ASSUME IInv, [Next]_vars PROVE IInv'
    OBVIOUS
  <1>1. CASE \E r \in Request : Handle(r)
    BY <1>1, HandleStep
  <1>2. CASE \E b \in Booking : CreateBooking(b)
    BY <1>2, CreateStep
  <1>3. CASE NextDay
    BY <1>3, NextDayStep
  <1>4. CASE UNCHANGED vars
    BY <1>4, StutterStep
  <1> QED BY <1>1, <1>2, <1>3, <1>4 DEF Next

\* The inductive invariant holds in every reachable state of load_web_session,
\* enforce_csrf and the sign-in and sign-out handlers.
THEOREM Invariance == Spec => []IInv
  BY InitHolds, NextHolds, PTL DEF Spec

\* Every variable of Sessions has its type; in particular SQLite never needs an
\* id beyond the number of sign-ins.
THEOREM TypeCorrectness == Spec => []TypeOK
  <1>1. IInv => TypeOK
    BY DEF IInv
  <1> QED BY <1>1, Invariance, PTL

\* No session of a booking that is gone (booking_delete, the foreign key).
THEOREM NoOrphanedSessions == Spec => []SessionsJoinLiveBookings
  <1>1. IInv => SessionsJoinLiveBookings
    BY DEF IInv
  <1> QED BY <1>1, Invariance, PTL

\* A signed-out session's digest never returns to the table (logout,
\* load_web_session).
THEOREM SignedOut == Spec => []SignedOutStaysOut
  <1>1. IInv => SignedOutStaysOut
    BY DEF IInv
  <1> QED BY <1>1, Invariance, PTL

\* A form acts for the one whose page it is on (enforce_csrf, the decorators),
\* whoever has signed in in the same browser since: a request past the decorator
\* has its page's token as its session's, and a token has one owner.
THEOREM FormsFit == Spec => []FormsActForTheirPage
  <1>1. ASSUME IInv PROVE FormsActForTheirPage
    <2>1. ASSUME NEW r \in Request, At(r, "admitted")
          PROVE  request[r].page.of = request[r].actor
      <3>1. PICK owner \in Owners : Agree(owner)
        BY <1>1 DEF IInv, Core, TokensHaveOwners
      <3>2. r \in Active
        BY <2>1 DEF Active, Under, At, RequestStep
      <3>3. request[r].page.csrf = request[r].session
        BY <1>1, <2>1 DEF IInv, Core, AdmittedFit
      <3> QED BY <3>1, <3>2, <3>3 DEF Agree
    <2> QED BY <2>1 DEF FormsActForTheirPage
  <1> QED BY <1>1, Invariance, PTL

\* A row that goes has expired, is signed out, loses its booking, or has the id
\* of an earlier session that a request still holds.
LEMMA RowsGo ==
  ASSUME IInv, NEW r \in Request, Handle(r), NEW i \in Used,
         rows[i].expires > clock, rows'[i] = NoRow
  PROVE  \/ rows[i].digest \in ended'
         \/ rows[i].actor \in Booking /\ bookings'[rows[i].actor] = "deleted"
         \/ /\ At(r, "found") \/ At(r, "admitted")
            /\ request[r].id = i /\ request[r].session # rows[i].digest
            /\ request'[r] # request[r]
  <1>1. rows[i] \in Row /\ rows[i] # NoRow /\ i \in Id /\ request \in [Request -> Requests]
    BY DEF Used, IInv, TypeOK, Requests
  <1>2. clock \in Nat /\ rows[i].expires \in Nat /\ rows[i].actor \in Actor
    BY <1>1, SessionsAssumption DEF IInv, TypeOK, Row
  <1>3. \A ids : rows' = Removed(ids) => i \in ids
    BY <1>1 DEF Removed
  <1>4. CASE ExpireSession(r)
    <2>1. i = request[r].id /\ At(r, "found") /\ r \in Active
      BY <1>3, <1>4 DEF ExpireSession, Own, At, Active, Under, RequestStep
    <2>2. ASSUME request[r].session = rows[i].digest PROVE FALSE
      <3>1. request[r].expires = rows[i].expires
        BY <2>1, <2>2 DEF IInv, Core, KnownRow
      <3>2. request[r].expires <= clock
        BY <1>4 DEF ExpireSession
      <3> QED BY <3>1, <3>2, <1>2
    <2>3. request'[r] # request[r]
      <3>1. request'[r] = Knows(r, "ready", 0, NoToken, Nobody, 0)
        BY <1>1, <1>4 DEF ExpireSession
      <3>2. request'[r].step = "ready"
        BY <3>1 DEF Knows
      <3> QED BY <3>2, <2>1 DEF At
    <2> QED BY <2>1, <2>2, <2>3
  <1>5. CASE SignOut(r)
    <2>1. i = request[r].id /\ At(r, "admitted") /\ request[r].session \in ended'
      BY <1>3, <1>5 DEF SignOut, Own
    <2>2. request'[r] # request[r]
      <3>1. request'[r] = Answered(r, Clear, {})
        BY <1>1, <1>5 DEF SignOut, Answer
      <3>2. request'[r].step = "answered"
        BY <3>1 DEF Answered
      <3> QED BY <3>2, <2>1 DEF At
    <2> QED BY <2>1, <2>2
  <1>6. CASE \E b \in Booking : DeleteBooking(r, b)
    <2>1. PICK b \in Booking : DeleteBooking(r, b)
      BY <1>6
    <2>2. rows' = Removed(SessionsOf(b)) /\ bookings' = [bookings EXCEPT ![b] = "deleted"]
      BY <1>1, <2>1 DEF DeleteBooking
    <2>3. rows[i].actor = b /\ bookings'[b] = "deleted"
      BY <1>3, <2>2 DEF SessionsOf, IInv, TypeOK
    <2> QED BY <2>3
  <1>7. CASE StoreSession(r)
    <2>1. NextId \notin Used
      BY NextIdIsFree DEF IInv, Core
    <2>2. rows'[i] = rows[i]
      BY <1>1, <1>7, <2>1 DEF StoreSession, IInv, TypeOK
    <2> QED BY <1>1, <2>2
  <1>8. CASE rows' = rows
    BY <1>1, <1>8
  <1>9. \/ ExpireSession(r) \/ SignOut(r) \/ StoreSession(r) \/ rows' = rows
        \/ \E b \in Booking : DeleteBooking(r, b)
    <2>1. CASE \E w \in Browser, op \in Op, p \in Page : Send(r, w, op, p)
      BY <2>1 DEF Send
    <2>2. CASE \E j \in Id : LookupSession(r, j)
      BY <2>2 DEF LookupSession
    <2>3. CASE NoSession(r) \/ TouchSession(r) \/ RefuseForm(r) \/ Admit(r)
      BY <2>3 DEF NoSession, TouchSession, RefuseForm, Admit
    <2>4. CASE Redirect(r) \/ View(r) \/ Save(r) \/ RefuseSignIn(r) \/ StoreFails(r)
      BY <2>4, Zenon DEF Redirect, View, Save, RefuseSignIn, StoreFails
    <2>5. CASE \E a \in Actor : VerifySignIn(r, a)
      BY <2>5 DEF VerifySignIn
    <2>6. CASE Deliver(r) \/ LoseAnswer(r)
      BY <2>6 DEF Deliver, LoseAnswer
    <2> QED BY <2>1, <2>2, <2>3, <2>4, <2>5, <2>6 DEF Handle
  <1> QED BY <1>4, <1>5, <1>6, <1>7, <1>8, <1>9

\* Sessions that have not expired stay (docs/plans/03:39), but for those three.
THEOREM SessionsStay == Spec => SessionsPersist
  <1> DEFINE A == \A i \in Used :
       rows[i].expires > clock /\ rows'[i] = NoRow =>
         \/ rows[i].digest \in ended'
         \/ rows[i].actor \in Booking /\ bookings'[rows[i].actor] = "deleted"
         \/ \E r \in Request :
              /\ At(r, "found") \/ At(r, "admitted")
              /\ request[r].id = i /\ request[r].session # rows[i].digest
              /\ request'[r] # request[r]
  <1>1. ASSUME IInv, [Next]_vars PROVE [A]_vars
    <2>1. CASE \E r \in Request : Handle(r)
      BY <1>1, <2>1, RowsGo
    <2>2. CASE (\E b \in Booking : CreateBooking(b)) \/ NextDay
      <3>1. rows' = rows
        BY <2>2 DEF CreateBooking, NextDay
      <3> QED BY <3>1 DEF Used
    <2>3. CASE UNCHANGED vars
      BY <2>3
    <2> QED BY <1>1, <2>1, <2>2, <2>3 DEF Next
  <1> QED BY <1>1, Invariance, PTL DEF Spec, SessionsPersist
=============================================================================
