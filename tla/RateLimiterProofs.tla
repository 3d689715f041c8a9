-------------------------- MODULE RateLimiterProofs --------------------------
(* Theorems about RateLimiter for any number of threads, any limit, window and *)
(* wait for the store's lock.                                                  *)
EXTENDS RateLimiter, FiniteSetTheorems, TLAPS

-----------------------------------------------------------------------------
(* The inductive invariant *)

\* Threads that may still record a failure without asking again.
Trying == {t \in Thread : At(t, "checking") \/ At(t, "failed")}

\* What is counted, with what may still be added to it.
RoomForEveryThread ==
  Count(recent, InWindow) + Cardinality(Trying) <= MaxAttempts - 1 + Cardinality(Thread)

IInv == TypeOK /\ FailuresCountForAWindow /\ RoomForEveryThread

-----------------------------------------------------------------------------
(* Counting failures *)

\* A finite number of failures of finitely many ages is a finite set.
LEMMA FailuresAreFinite ==
  ASSUME NEW ages, IsFiniteSet(ages), NEW counts, \A a \in ages : counts[a] \in Nat
  PROVE  /\ IsFiniteSet(Failures(counts, ages))
         /\ Count(counts, ages) \in Nat
<1> DEFINE OfAge == [a \in ages |-> {a} \X (1..counts[a])]
           All == {{a} \X (1..counts[a]) : a \in ages}
<1>1. OfAge \in Surjection(ages, All)
  BY DEF Surjection
<1>2. IsFiniteSet(All)
  BY <1>1, FS_Surjection
<1>3. ASSUME NEW a \in ages PROVE IsFiniteSet({a} \X (1..counts[a]))
  <2>1. IsFiniteSet({a})
    BY FS_Singleton
  <2>2. IsFiniteSet(1..counts[a])
    BY FS_Interval
  <2> QED BY <2>1, <2>2, FS_Product
<1>4. \A T \in All : IsFiniteSet(T)
  BY <1>3
<1>5. IsFiniteSet(UNION All)
  BY <1>2, <1>4, FS_UNION
<1>6. IsFiniteSet(Failures(counts, ages))
  BY <1>5 DEF Failures
<1> QED BY <1>6, FS_CardinalityType DEF Count

\* One failure more of an age that is counted.
LEMMA OneMore ==
  ASSUME NEW ages, IsFiniteSet(ages), NEW counts \in [ages -> Nat], NEW age \in ages
  PROVE  Count([counts EXCEPT ![age] = @ + 1], ages) = Count(counts, ages) + 1
<1> DEFINE new == <<age, counts[age] + 1>>
           after == [counts EXCEPT ![age] = @ + 1]
<1>1. Failures(after, ages) = Failures(counts, ages) \cup {new}
  <2>1. ASSUME NEW f \in Failures(after, ages) PROVE f \in Failures(counts, ages) \cup {new}
    <3>1. PICK a \in ages : f \in {a} \X (1..after[a])
      BY DEF Failures
    <3>2. PICK n \in 1..after[a] : f = <<a, n>>
      BY <3>1
    <3>3. CASE a = age /\ n = counts[age] + 1
      BY <3>2, <3>3
    <3>4. CASE ~(a = age /\ n = counts[age] + 1)
      <4>1. n \in 1..counts[a]
        BY <3>2, <3>4
      <4>2. f \in {a} \X (1..counts[a])
        BY <3>2, <4>1
      <4> QED BY <4>2 DEF Failures
    <3> QED BY <3>3, <3>4
  <2>2. ASSUME NEW f \in Failures(counts, ages) PROVE f \in Failures(after, ages)
    <3>1. PICK a \in ages : f \in {a} \X (1..counts[a])
      BY DEF Failures
    <3>2. 1..counts[a] \subseteq 1..after[a]
      BY SMT
    <3>3. f \in {a} \X (1..after[a])
      BY <3>1, <3>2
    <3> QED BY <3>3 DEF Failures
  <2>3. new \in Failures(after, ages)
    <3>1. counts[age] + 1 \in 1..after[age]
      BY SMT
    <3>2. new \in {age} \X (1..after[age])
      BY <3>1
    <3> QED BY <3>2 DEF Failures
  <2> QED BY <2>1, <2>2, <2>3
<1>2. new \notin Failures(counts, ages)
  <2>1. SUFFICES ASSUME NEW a \in ages, new \in {a} \X (1..counts[a]) PROVE FALSE
    BY DEF Failures
  <2>2. a = age /\ counts[age] + 1 \in 1..counts[a]
    BY <2>1
  <2> QED BY <2>2
<1>3. IsFiniteSet(Failures(counts, ages))
  BY FailuresAreFinite
<1> QED BY <1>1, <1>2, <1>3, FS_AddElement DEF Count

\* No failure is counted that is not in a larger count.
LEMMA CountGrows ==
  ASSUME NEW ages, NEW more, ages \subseteq more, IsFiniteSet(more),
         NEW counts, NEW larger, \A a \in more : larger[a] \in Nat,
         \A a \in ages : counts[a] \in Nat /\ counts[a] <= larger[a]
  PROVE  Count(counts, ages) <= Count(larger, more)
<1>1. Failures(counts, ages) \subseteq Failures(larger, more)
  <2>1. SUFFICES ASSUME NEW f \in Failures(counts, ages) PROVE f \in Failures(larger, more)
    OBVIOUS
  <2>2. PICK a \in ages : f \in {a} \X (1..counts[a])
    BY DEF Failures
  <2>3. counts[a] \in Nat /\ larger[a] \in Nat /\ counts[a] <= larger[a]
    OBVIOUS
  <2>4. 1..counts[a] \subseteq 1..larger[a]
    BY <2>3
  <2>5. f \in {a} \X (1..larger[a])
    BY <2>2, <2>4
  <2> QED BY <2>5 DEF Failures
<1>2. IsFiniteSet(Failures(larger, more))
  BY FailuresAreFinite
<1> QED BY <1>1, <1>2, FS_Subset DEF Count

\* No failure, no count.
LEMMA NothingCounted ==
  ASSUME NEW ages PROVE Count([a \in ages |-> 0], ages) = 0
<1>1. Failures([a \in ages |-> 0], ages) = {}
  BY DEF Failures
<1> QED BY <1>1, FS_EmptySet DEF Count

InWindowIsFinite == IsFiniteSet(InWindow) /\ IsFiniteSet(Age)

LEMMA AgesAreFinite == InWindowIsFinite
BY LimiterAssumption, FS_Interval DEF InWindowIsFinite, InWindow, Age, Oldest

\* A tick leaves the count of the window as it is, or lower: every failure in it
\* was a tick younger before.
LEMMA TickLowersCount ==
  ASSUME NEW counts \in [InWindow -> Nat]
  PROVE  Count([a \in InWindow |-> IF a = 0 THEN 0 ELSE counts[a - 1]], InWindow)
           <= Count(counts, InWindow)
<1> DEFINE after == [a \in InWindow |-> IF a = 0 THEN 0 ELSE counts[a - 1]]
           Before(f) == <<f[1] - 1, f[2]>>
           younger == [f \in Failures(after, InWindow) |-> Before(f)]
<1>1. ASSUME NEW f \in Failures(after, InWindow)
      PROVE  /\ f = <<f[1], f[2]>>
             /\ f[1] \in Int
             /\ Before(f) \in Failures(counts, InWindow)
  <2>1. PICK a \in InWindow : f \in {a} \X (1..after[a])
    BY DEF Failures
  <2>2. PICK n \in 1..after[a] : f = <<a, n>>
    BY <2>1
  <2>3. after[a] = IF a = 0 THEN 0 ELSE counts[a - 1]
    OBVIOUS
  <2>4. a # 0
    BY <2>2, <2>3
  <2>5. a - 1 \in InWindow /\ a \in Int
    BY <2>4, LimiterAssumption DEF InWindow
  <2>6. n \in 1..counts[a - 1]
    BY <2>2, <2>3, <2>4
  <2>7. Before(f) \in {a - 1} \X (1..counts[a - 1])
    BY <2>2, <2>6
  <2>8. Before(f) \in Failures(counts, InWindow)
    BY <2>5, <2>7 DEF Failures
  <2> QED BY <2>2, <2>5, <2>8
<1>2. younger \in [Failures(after, InWindow) -> Failures(counts, InWindow)]
  BY <1>1
<1>3. ASSUME NEW f \in Failures(after, InWindow), NEW g \in Failures(after, InWindow),
             younger[f] = younger[g]
      PROVE  f = g
  <2>1. f[1] - 1 = g[1] - 1 /\ f[2] = g[2]
    BY <1>3
  <2>2. f[1] \in Int /\ g[1] \in Int /\ f = <<f[1], f[2]>> /\ g = <<g[1], g[2]>>
    BY <1>1
  <2>3. f[1] = g[1]
    BY <2>1, <2>2
  <2> QED BY <2>1, <2>2, <2>3
<1>4. younger \in Injection(Failures(after, InWindow), Failures(counts, InWindow))
  BY <1>2, <1>3 DEF Injection, IsInjective
<1>5. IsFiniteSet(Failures(counts, InWindow))
  BY FailuresAreFinite, AgesAreFinite DEF InWindowIsFinite
<1> QED BY <1>4, <1>5, FS_Injection DEF Count

-----------------------------------------------------------------------------
(* Typing *)

\* What a thread's step says of the age it holds.
AgeFits(t) ==
  thread[t].age \in CASE At(t, "asking") -> Window..Oldest
                      [] At(t, "failed") -> 0..MaxDelay
                      [] OTHER -> {0}

LEMMA Ages ==
  /\ Window..Oldest \subseteq Age /\ 0..MaxDelay \subseteq Age /\ 0 \in Age
  /\ InWindow \subseteq Age /\ Oldest \in Age /\ Oldest \notin InWindow /\ 0 \in InWindow
  /\ Since \in Window..Oldest /\ 0 \in 0..MaxDelay
BY LimiterAssumption DEF Age, Oldest, InWindow, Since

\* A thread that goes on with a fitting age leaves the threads well-typed.
LEMMA GoesFits ==
  ASSUME TypeOK, NEW t \in Thread, NEW step \in Step, NEW age, Goes(t, step, age),
         age \in CASE step = "asking" -> Window..Oldest
                   [] step = "failed" -> 0..MaxDelay
                   [] OTHER -> {0}
  PROVE  thread' \in [Thread -> ThreadState] /\ \A u \in Thread : AgeFits(u)'
<1>1. age \in Age
  <2>1. CASE step = "asking" BY <2>1, Ages
  <2>2. CASE step = "failed" BY <2>2, Ages
  <2>3. CASE step # "asking" /\ step # "failed" BY <2>3, Ages
  <2> QED BY <2>1, <2>2, <2>3
<1>2. [step |-> step, age |-> age] \in ThreadState
  BY <1>1 DEF ThreadState
<1>3. thread \in [Thread -> ThreadState] /\ \A u \in Thread : AgeFits(u)
  BY DEF TypeOK, AgeFits
<1>4. thread' \in [Thread -> ThreadState]
  BY <1>2, <1>3 DEF Goes
<1>5. ASSUME NEW u \in Thread PROVE AgeFits(u)'
  <2>1. CASE u = t
    <3>1. thread'[u].step = step /\ thread'[u].age = age
      BY <1>3, <2>1 DEF Goes
    <3> QED BY <3>1 DEF AgeFits, At
  <2>2. CASE u # t
    <3>1. thread'[u] = thread[u]
      BY <1>3, <2>2 DEF Goes
    <3> QED BY <1>3, <3>1 DEF AgeFits, At
  <2> QED BY <2>1, <2>2
<1> QED BY <1>4, <1>5

LEMMA TypeParts ==
  TypeOK <=> /\ events \in [Age -> Nat]
             /\ thread \in [Thread -> ThreadState] /\ \A t \in Thread : AgeFits(t)
             /\ recent \in [InWindow -> Nat]
BY DEF TypeOK, AgeFits

LEMMA TypePartsPrimed ==
  TypeOK' <=> /\ events' \in [Age -> Nat]
              /\ thread' \in [Thread -> ThreadState] /\ \A t \in Thread : AgeFits(t)'
              /\ recent' \in [InWindow -> Nat]
BY DEF TypeOK, AgeFits

LEMMA KeptType ==
  ASSUME TypeOK, NEW since PROVE Kept(since) \in [Age -> Nat]
BY DEF Kept, TypeOK

LEMMA InitTypeOK == Init => TypeOK
<1> SUFFICES ASSUME Init PROVE TypeOK
  OBVIOUS
<1>1. [step |-> "idle", age |-> 0] \in ThreadState
  BY Ages DEF ThreadState, Step
<1>2. thread \in [Thread -> ThreadState]
  BY <1>1 DEF Init
<1>3. \A t \in Thread : AgeFits(t)
  BY DEF Init, AgeFits, At
<1> QED BY <1>2, <1>3, TypeParts DEF Init

\* Only a thread that holds a moment grows older with it, and no older than it may.
LEMMA TickTypeOK ==
  ASSUME TypeOK, Tick PROVE TypeOK'
<1>1. events \in [Age -> Nat] /\ recent \in [InWindow -> Nat] /\ thread \in [Thread -> ThreadState]
  BY DEF TypeOK
<1>2. ASSUME NEW a \in Age PROVE Older(events)[a] \in Nat
  <2>1. CASE a = 0
    <3>1. 0 # Oldest
      BY LimiterAssumption DEF Oldest
    <3> QED BY <2>1, <3>1 DEF Older
  <2>2. CASE a # 0
    <3>1. a - 1 \in Age
      BY <2>2, LimiterAssumption DEF Age, Oldest
    <3>2. events[a] \in Nat /\ events[a - 1] \in Nat
      BY <1>1, <3>1
    <3> QED BY <2>2, <3>2 DEF Older
  <2> QED BY <2>1, <2>2
<1>3. events' \in [Age -> Nat]
  BY <1>2 DEF Tick, Older
<1>4. ASSUME NEW a \in InWindow PROVE (IF a = 0 THEN 0 ELSE recent[a - 1]) \in Nat
  <2>1. a # 0 => a - 1 \in InWindow
    BY LimiterAssumption DEF InWindow
  <2> QED BY <1>1, <2>1
<1>5. recent' \in [InWindow -> Nat]
  BY <1>4 DEF Tick
<1>6. ASSUME NEW t \in Thread PROVE thread'[t] \in ThreadState /\ AgeFits(t)'
  <2>1. thread[t] \in ThreadState /\ AgeFits(t)
    BY <1>1, TypeParts
  <2>2. CASE thread[t].step \in {"asking", "failed"}
    <3>1. thread'[t] = [thread[t] EXCEPT !.age = @ + 1]
      BY <2>2 DEF Tick
    <3>2. thread'[t].step = thread[t].step /\ thread'[t].age = thread[t].age + 1
      BY <2>1, <3>1 DEF ThreadState
    <3>3. CASE At(t, "asking")
      <4>1. thread[t].age \in Window..Oldest /\ thread[t].age < Oldest
        BY <2>1, <3>3 DEF Tick, AgeFits, At
      <4>2. thread[t].age + 1 \in Window..Oldest
        BY <4>1, LimiterAssumption DEF Oldest
      <4>3. thread'[t] \in ThreadState
        BY <2>1, <3>1, <4>2, Ages DEF ThreadState
      <4> QED BY <3>2, <3>3, <4>2, <4>3 DEF AgeFits, At
    <3>4. CASE At(t, "failed")
      <4>1. thread[t].age \in 0..MaxDelay /\ thread[t].age < MaxDelay
        BY <2>1, <3>4 DEF Tick, AgeFits, At
      <4>2. thread[t].age + 1 \in 0..MaxDelay
        BY <4>1, LimiterAssumption
      <4>3. thread'[t] \in ThreadState
        BY <2>1, <3>1, <4>2, Ages DEF ThreadState
      <4> QED BY <3>2, <3>4, <4>2, <4>3 DEF AgeFits, At
    <3> QED BY <2>2, <3>3, <3>4 DEF At
  <2>3. CASE thread[t].step \notin {"asking", "failed"}
    <3>1. thread'[t] = thread[t]
      BY <2>3 DEF Tick
    <3> QED BY <2>1, <3>1 DEF AgeFits, At
  <2> QED BY <2>2, <2>3
<1>7. thread' \in [Thread -> ThreadState]
  BY <1>6 DEF Tick
<1> QED BY <1>3, <1>5, <1>6, <1>7, TypePartsPrimed

LEMMA NextTypeOK == TypeOK /\ [Next]_vars => TypeOK'
<1> SUFFICES ASSUME TypeOK, [Next]_vars PROVE TypeOK'
  OBVIOUS
<1> USE TypeOK
<1>1. events \in [Age -> Nat] /\ recent \in [InWindow -> Nat]
  BY DEF TypeOK
<1>2. ASSUME NEW t \in Thread, Ask(t) PROVE TypeOK'
  <2>1. thread' \in [Thread -> ThreadState] /\ \A u \in Thread : AgeFits(u)'
    BY <1>2, GoesFits, Ages DEF Ask, Step
  <2> QED BY <1>1, <1>2, <2>1, TypePartsPrimed DEF Ask
<1>3. ASSUME NEW t \in Thread, Check(t) PROVE TypeOK'
  <2>1. events' \in [Age -> Nat]
    BY <1>3, KeptType DEF Check
  <2>2. Goes(t, "idle", 0) \/ Goes(t, "checking", 0)
    BY <1>3 DEF Check, Throttle
  <2>3. thread' \in [Thread -> ThreadState] /\ \A u \in Thread : AgeFits(u)'
    BY <2>2, GoesFits DEF Step
  <2> QED BY <1>1, <1>3, <2>1, <2>3, TypePartsPrimed DEF Check
<1>4. ASSUME NEW t \in Thread, Verify(t) PROVE TypeOK'
  <2>1. Goes(t, "failed", 0) \/ Goes(t, "passed", 0)
    BY <1>4 DEF Verify
  <2>2. thread' \in [Thread -> ThreadState] /\ \A u \in Thread : AgeFits(u)'
    BY <2>1, GoesFits, Ages DEF Step
  <2> QED BY <1>1, <1>4, <2>2, TypePartsPrimed DEF Verify
<1>5. ASSUME NEW t \in Thread, Record(t) PROVE TypeOK'
  <2> DEFINE age == thread[t].age
  <2>1. age \in Age
    BY <1>5, Ages, TypeParts DEF Record, AgeFits, At
  <2>2. events' = [events EXCEPT ![age] = @ + 1]
    BY <1>5 DEF Record
  <2>3. recent' = IF age \in InWindow THEN [recent EXCEPT ![age] = @ + 1] ELSE recent
    BY <1>5 DEF Record
  <2>4. events' \in [Age -> Nat]
    BY <1>1, <2>1, <2>2
  <2>5. recent' \in [InWindow -> Nat]
    BY <1>1, <2>3
  <2>6. thread' \in [Thread -> ThreadState] /\ \A u \in Thread : AgeFits(u)'
    BY <1>5, GoesFits DEF Record, Step
  <2> QED BY <2>4, <2>5, <2>6, TypePartsPrimed
<1>6. ASSUME NEW t \in Thread, Reset(t) PROVE TypeOK'
  <2>1. events' \in [Age -> Nat] /\ recent' \in [InWindow -> Nat]
    BY <1>6 DEF Reset
  <2>2. thread' \in [Thread -> ThreadState] /\ \A u \in Thread : AgeFits(u)'
    BY <1>6, GoesFits DEF Reset, Step
  <2> QED BY <2>1, <2>2, TypePartsPrimed
<1>7. CASE UNCHANGED vars
  BY <1>7 DEF vars, TypeOK, At
<1> QED BY <1>2, <1>3, <1>4, <1>5, <1>6, <1>7, TickTypeOK DEF Next, Continue

\* For every limit, window, wait and number of threads, every variable has its
\* type (MemoryRateLimitStore._events and the threads that use it).
THEOREM TypeCorrect == Spec => []TypeOK
<1>1. Spec => Init /\ [][Next]_vars
  BY DEF Spec
<1> QED BY <1>1, InitTypeOK, NextTypeOK, PTL

-----------------------------------------------------------------------------
(* Failures count for a whole window *)

\* What is_blocked drops is older than the window, however old the moment is that
\* it has computed from the clock.
LEMMA KeptCoversWindow ==
  ASSUME TypeOK, NEW since \in Window..Oldest, NEW a \in InWindow
  PROVE  Kept(since)[a] = events[a]
<1>1. a \in Age /\ a < since
  BY Ages, LimiterAssumption DEF InWindow, Oldest
<1> QED BY <1>1 DEF Kept, IsKept

LEMMA NextFailuresCount ==
  TypeOK /\ FailuresCountForAWindow /\ [Next]_vars => FailuresCountForAWindow'
<1> SUFFICES ASSUME TypeOK, FailuresCountForAWindow, [Next]_vars, NEW a \in InWindow
             PROVE  events'[a] = recent'[a]
  BY DEF FailuresCountForAWindow
<1>1. /\ events \in [Age -> Nat] /\ recent \in [InWindow -> Nat] /\ a \in Age
      /\ events[a] = recent[a]
  BY Ages DEF TypeOK, FailuresCountForAWindow
<1>2. ASSUME NEW t \in Thread, Check(t) PROVE events'[a] = recent'[a]
  <2>1. thread[t].age \in Window..Oldest
    BY <1>2, TypeParts DEF Check, AgeFits, At
  <2>2. events'[a] = events[a]
    BY <1>2, <2>1, KeptCoversWindow DEF Check
  <2> QED BY <1>1, <1>2, <2>2 DEF Check
<1>3. ASSUME NEW t \in Thread, Record(t) PROVE events'[a] = recent'[a]
  <2> DEFINE age == thread[t].age
  <2>1. age \in Age
    BY <1>3, Ages DEF Record, TypeOK
  <2>2. CASE age \in InWindow
    BY <1>1, <1>3, <2>1, <2>2 DEF Record
  <2>3. CASE age \notin InWindow
    <3>1. age # a
      BY <2>3
    <3> QED BY <1>1, <1>3, <2>1, <2>3, <3>1 DEF Record
  <2> QED BY <2>2, <2>3
<1>4. ASSUME NEW t \in Thread, Reset(t) PROVE events'[a] = recent'[a]
  BY <1>1, <1>4 DEF Reset
<1>5. ASSUME Tick PROVE events'[a] = recent'[a]
  <2>1. a # Oldest
    BY Ages
  <2>2. CASE a = 0
    <3>1. events'[a] = 0
      BY <1>1, <1>5, <2>1, <2>2 DEF Tick, Older
    <3>2. recent'[a] = 0
      BY <1>5, <2>2 DEF Tick
    <3> QED BY <3>1, <3>2
  <2>3. CASE a # 0
    <3>1. a - 1 \in InWindow
      BY <2>3, LimiterAssumption DEF InWindow
    <3>2. events[a - 1] = recent[a - 1]
      BY <3>1 DEF FailuresCountForAWindow
    <3>3. events'[a] = events[a - 1]
      BY <1>1, <1>5, <2>1, <2>3 DEF Tick, Older
    <3>4. recent'[a] = recent[a - 1]
      BY <1>5, <2>3 DEF Tick
    <3> QED BY <3>2, <3>3, <3>4
  <2> QED BY <2>2, <2>3
<1>6. ASSUME NEW t \in Thread, Ask(t) \/ Verify(t) PROVE events'[a] = recent'[a]
  BY <1>1, <1>6 DEF Ask, Verify
<1>7. CASE UNCHANGED vars
  BY <1>1, <1>7 DEF vars
<1> QED BY <1>2, <1>3, <1>4, <1>5, <1>6, <1>7 DEF Next, Continue

\* README.md:94 for every number of threads, window and wait for the lock: no
\* thread makes the store forget a failure before its window is over.
THEOREM FailuresKeepCounting == Spec => []FailuresCountForAWindow
<1>1. Init => FailuresCountForAWindow
  BY Ages DEF Init, FailuresCountForAWindow
<1>2. Spec => Init /\ [][Next]_vars
  BY DEF Spec
<1> QED BY <1>1, <1>2, NextFailuresCount, TypeCorrect, PTL

-----------------------------------------------------------------------------
(* The limit *)

LEMMA TryingIsFinite ==
  /\ IsFiniteSet(Thread) /\ Cardinality(Thread) \in Nat \ {0}
  /\ IsFiniteSet(Trying) /\ Cardinality(Trying) \in Nat
  /\ Cardinality(Trying) <= Cardinality(Thread)
<1>1. IsFiniteSet(Thread) /\ Thread # {}
  BY LimiterAssumption
<1>2. Trying \in SUBSET Thread
  BY DEF Trying
<1>3. Cardinality(Thread) \in Nat /\ Cardinality(Thread) # 0
  BY <1>1, FS_CardinalityType, FS_EmptySet
<1>4. IsFiniteSet(Trying) /\ Cardinality(Trying) <= Cardinality(Thread)
  BY <1>1, <1>2, FS_Subset
<1> QED BY <1>1, <1>3, <1>4, FS_CardinalityType

LEMMA RecentIsCounted == TypeOK => Count(recent, InWindow) \in Nat
BY FailuresAreFinite, AgesAreFinite DEF TypeOK, InWindowIsFinite

\* A thread that gets no nearer to recording a failure.
LEMMA TryingShrinks ==
  ASSUME Trying' \subseteq Trying
  PROVE  IsFiniteSet(Trying') /\ Cardinality(Trying') <= Cardinality(Trying)
BY TryingIsFinite, FS_Subset
\* A thread that has done its step does not try to record a failure any more.
LEMMA OthersTry ==
  ASSUME TypeOK, NEW t \in Thread, NEW step, NEW age, Goes(t, step, age)
  PROVE  /\ \A u \in Thread \ {t} : u \in Trying' <=> u \in Trying
         /\ t \in Trying' <=> step \in {"checking", "failed"}
<1>1. thread \in [Thread -> ThreadState]
  BY DEF TypeOK
<1>2. thread' = [thread EXCEPT ![t] = [step |-> step, age |-> age]]
  BY DEF Goes
<1>3. ASSUME NEW u \in Thread \ {t} PROVE thread'[u] = thread[u]
  BY <1>1, <1>2, <1>3
<1>4. thread'[t].step = step
  BY <1>1, <1>2
<1> QED BY <1>3, <1>4 DEF Trying, At

LEMMA NextRoomForEveryThread ==
  IInv /\ [Next]_vars => RoomForEveryThread'
<1> SUFFICES ASSUME IInv, [Next]_vars
             PROVE  Count(recent', InWindow) + Cardinality(Trying')
                      <= MaxAttempts - 1 + Cardinality(Thread)
  BY DEF RoomForEveryThread, Count, Failures, InWindow
<1> DEFINE Room(count, trying) == count + trying <= MaxAttempts - 1 + Cardinality(Thread)
<1> USE TypeOK DEF IInv
<1>1. /\ Count(recent, InWindow) \in Nat /\ Cardinality(Trying) \in Nat
      /\ Cardinality(Thread) \in Nat /\ MaxAttempts \in Nat \ {0}
      /\ Room(Count(recent, InWindow), Cardinality(Trying))
  BY RecentIsCounted, TryingIsFinite, LimiterAssumption DEF RoomForEveryThread
<1>2. TypeOK'
  BY NextTypeOK
<1>3. Count(recent', InWindow) \in Nat
  BY <1>2, FailuresAreFinite, AgesAreFinite DEF TypeOK, InWindowIsFinite
<1>4. /\ Trying' \in SUBSET Thread
      /\ Cardinality(Trying') \in Nat /\ Cardinality(Trying') <= Cardinality(Thread)
  <2>1. Trying' \in SUBSET Thread
    BY DEF Trying
  <2> QED BY <2>1, LimiterAssumption, FS_Subset, FS_CardinalityType
<1>5. ASSUME recent' = recent, Trying' \subseteq Trying
      PROVE  Room(Count(recent', InWindow), Cardinality(Trying'))
  BY <1>1, <1>4, <1>5, TryingShrinks
<1>6. ASSUME NEW t \in Thread, Ask(t)
      PROVE  Room(Count(recent', InWindow), Cardinality(Trying'))
  <2>1. Trying' \subseteq Trying
    BY <1>4, <1>6, OthersTry DEF Ask
  <2> QED BY <1>5, <1>6, <2>1 DEF Ask
<1>7. ASSUME NEW t \in Thread, Check(t)
      PROVE  Room(Count(recent', InWindow), Cardinality(Trying'))
  <2> DEFINE since == thread[t].age
  <2>1. since \in Window..Oldest
    BY <1>7, TypeParts DEF Check, AgeFits, At
  <2>2. recent' = recent
    BY <1>7 DEF Check
  <2>3. CASE Blocked(since)
    <3>1. Goes(t, "idle", 0)
      BY <1>7, <2>3 DEF Check, Throttle
    <3>2. Trying' \subseteq Trying
      BY <1>4, <3>1, OthersTry
    <3> QED BY <1>5, <2>2, <3>2
  <2>4. CASE ~Blocked(since)
    \* The store has been asked for a whole window or more: what counts now was counted.
    <3>1. ASSUME NEW a \in InWindow
          PROVE  recent[a] \in Nat /\ recent[a] <= Kept(since)[a]
      <4>1. Kept(since)[a] = events[a]
        BY <2>1, KeptCoversWindow
      <4>2. recent[a] \in Nat /\ events[a] = recent[a]
        BY DEF TypeOK, FailuresCountForAWindow
      <4> QED BY <4>1, <4>2
    <3>2. \A a \in Age : Kept(since)[a] \in Nat
      BY KeptType
    <3>3. InWindow \subseteq Age /\ IsFiniteSet(Age)
      BY Ages, AgesAreFinite DEF InWindowIsFinite
    <3>4. Count(recent, InWindow) <= Count(Kept(since), Age)
      BY <3>1, <3>2, <3>3, CountGrows
    <3>5. Count(Kept(since), Age) \in Nat
      BY <3>2, <3>3, FailuresAreFinite
    <3>6. Count(Kept(since), Age) < MaxAttempts
      BY <2>4, <3>5, <1>1 DEF Blocked
    <3> QED BY <1>1, <1>4, <2>2, <3>4, <3>5, <3>6
  <2> QED BY <2>3, <2>4
<1>8. ASSUME NEW t \in Thread, Verify(t)
      PROVE  Room(Count(recent', InWindow), Cardinality(Trying'))
  <2>1. t \in Trying
    BY <1>8 DEF Verify, Trying
  <2>2. Goes(t, "failed", 0) \/ Goes(t, "passed", 0)
    BY <1>8 DEF Verify
  <2>3. Trying' \subseteq Trying
    BY <1>4, <2>1, <2>2, OthersTry
  <2> QED BY <1>5, <1>8, <2>3 DEF Verify
<1>9. ASSUME NEW t \in Thread, Record(t)
      PROVE  Room(Count(recent', InWindow), Cardinality(Trying'))
  <2>1. t \in Trying
    BY <1>9 DEF Record, Trying
  <2>2. Trying' = Trying \ {t}
    BY <1>4, <1>9, OthersTry DEF Record, Trying
  <2>3. Cardinality(Trying') = Cardinality(Trying) - 1
    BY <2>1, <2>2, TryingIsFinite, FS_RemoveElement
  <2>4. CASE thread[t].age \in InWindow
    <3>1. recent' = [recent EXCEPT ![thread[t].age] = @ + 1]
      BY <1>9, <2>4 DEF Record
    <3>2. recent \in [InWindow -> Nat] /\ IsFiniteSet(InWindow)
      BY AgesAreFinite DEF TypeOK, InWindowIsFinite
    <3>3. Count(recent', InWindow) = Count(recent, InWindow) + 1
      BY <2>4, <3>1, <3>2, OneMore
    <3> QED BY <1>1, <2>3, <3>3
  <2>5. CASE thread[t].age \notin InWindow
    <3>1. recent' = recent
      BY <1>9, <2>5 DEF Record
    <3> QED BY <1>1, <2>3, <3>1
  <2> QED BY <2>4, <2>5
<1>10. ASSUME NEW t \in Thread, Reset(t)
       PROVE  Room(Count(recent', InWindow), Cardinality(Trying'))
  <2>1. Count(recent', InWindow) = 0
    BY <1>10, NothingCounted DEF Reset
  <2> QED BY <1>1, <1>4, <2>1
<1>11. ASSUME Tick PROVE Room(Count(recent', InWindow), Cardinality(Trying'))
  <2>1. Count(recent', InWindow) <= Count(recent, InWindow)
    BY <1>11, TickLowersCount DEF Tick, TypeOK
  <2>2. ASSUME NEW t \in Thread PROVE thread'[t].step = thread[t].step
    <3>1. thread[t] \in ThreadState
      BY DEF TypeOK
    <3>2. thread'[t] = IF thread[t].step \in {"asking", "failed"}
                         THEN [thread[t] EXCEPT !.age = @ + 1] ELSE thread[t]
      BY <1>11 DEF Tick
    <3> QED BY <3>1, <3>2 DEF ThreadState
  <2>3. Trying' = Trying
    BY <2>2 DEF Trying, At
  <2> QED BY <1>1, <1>3, <2>1, <2>3
<1>12. CASE UNCHANGED vars
  <2>1. recent' = recent /\ Trying' = Trying
    BY <1>12 DEF vars, Trying, At
  <2> QED BY <1>5, <2>1
<1> QED BY <1>6, <1>7, <1>8, <1>9, <1>10, <1>11, <1>12 DEF Next, Continue

LEMMA RoomMeansFew == TypeOK /\ RoomForEveryThread => FewFailures
<1> SUFFICES ASSUME TypeOK, RoomForEveryThread PROVE FewFailures
  OBVIOUS
<1>1. Count(recent, InWindow) \in Nat /\ Cardinality(Trying) \in Nat
  BY RecentIsCounted, TryingIsFinite
<1>2. Cardinality(Thread) \in Nat /\ MaxAttempts \in Nat
  BY TryingIsFinite, LimiterAssumption
<1> QED BY <1>1, <1>2 DEF RoomForEveryThread, FewFailures

LEMMA InitRoomForEveryThread == Init => RoomForEveryThread
<1> SUFFICES ASSUME Init PROVE RoomForEveryThread
  OBVIOUS
<1>1. Count(recent, InWindow) = 0
  BY NothingCounted DEF Init
<1>2. Trying = {}
  BY DEF Init, Trying, At
<1>3. Cardinality(Trying) = 0
  BY <1>2, FS_EmptySet
<1> QED BY <1>1, <1>3, TryingIsFinite, LimiterAssumption DEF RoomForEveryThread

\* README.md:94 for every limit, window and number of threads: the limit on failed
\* sign-ins in a window is passed by at most one failure for every thread but one.
THEOREM LimitHolds == Spec => []FewFailures
<1>1. Init => IInv
  <2>1. Init => FailuresCountForAWindow
    BY Ages DEF Init, FailuresCountForAWindow
  <2> QED BY <2>1, InitTypeOK, InitRoomForEveryThread DEF IInv
<1>2. IInv /\ [Next]_vars => IInv'
  BY NextTypeOK, NextFailuresCount, NextRoomForEveryThread DEF IInv
<1>3. IInv => FewFailures
  BY RoomMeansFew DEF IInv
<1>4. Spec => Init /\ [][Next]_vars
  BY DEF Spec
<1> QED BY <1>1, <1>2, <1>3, <1>4, PTL
==============================================================================
