----------------------------- MODULE RateLimiter -----------------------------
(***************************************************************************)
(* The failed-login limiter (app/rate_limit.py) as the two login_submit    *)
(* handlers use it, for one key: one client IP and one kind of sign-in.  A *)
(* thread asks whether the key is blocked, checks the password or code,    *)
(* and then records a failure or resets the key; the store's lock covers   *)
(* each call and nothing between them.  The clock is read before the lock  *)
(* is taken.  Moments are given by their age, in ticks.                    *)
(***************************************************************************)
EXTENDS Integers, FiniteSets

CONSTANTS
  Thread,      \* request threads
  MaxAttempts, \* MAX_FAILED_ATTEMPTS
  Window,      \* FAILURE_WINDOW
  MaxDelay     \* bound: ticks a thread waits for the store's lock

ASSUME LimiterAssumption ==
  /\ IsFiniteSet(Thread) /\ Thread # {}
  /\ MaxAttempts \in Nat \ {0} /\ Window \in Nat \ {0} /\ MaxDelay \in Nat

\* Older moments are all alike.
Oldest == Window + MaxDelay
Age == 0..Oldest

VARIABLES
  events, \* MemoryRateLimitStore._events: how many failures have each age
  thread, \* what each thread is doing
  recent  \* history: failures within the window that no success has followed

vars == <<events, thread, recent>>

\* asking: is_blocked has read the clock; checking: it was not blocked; failed:
\* record_failure has read the clock; passed: the password or code is right.
Step == {"idle", "asking", "checking", "failed", "passed"}

\* The age of the moment the thread has computed from the clock.
ThreadState == [step : Step, age : Age]

At(t, step) == thread[t].step = step
Goes(t, step, age) == thread' = [thread EXCEPT ![t] = [step |-> step, age |-> age]]

\* The failures of these ages, the n-th of age a as <<a, n>>, and their number.
Failures(counts, ages) == UNION {{a} \X (1..counts[a]) : a \in ages}
Count(counts, ages) == Cardinality(Failures(counts, ages))

InWindow == 0..(Window - 1)

Older(counts) ==
  [a \in Age |-> CASE a = 0 -> 0
                   [] a = Oldest -> counts[a] + counts[a - 1]
                   [] OTHER -> counts[a - 1]]

Init ==
  /\ events = [a \in Age |-> 0]
  /\ thread = [t \in Thread |-> [step |-> "idle", age |-> 0]]
  /\ recent = [a \in InWindow |-> 0]

-----------------------------------------------------------------------------
(* One attempt *)

\* Mutant of Since: the window is not subtracted.
Now == 0

\* since = now - window
Since == Window

\* is_blocked
Ask(t) ==
  /\ At(t, "idle")
  /\ Goes(t, "asking", Since)
  /\ UNCHANGED <<events, recent>>

\* Mutant of IsKept: moments of the window's last tick are dropped.
IsKeptShort(age, since) == age < since - 1

\* Mutant of IsKept: nothing is dropped.
IsKeptAlways(age, since) == TRUE

\* moment > since
IsKept(age, since) == age < since

Kept(since) == [a \in Age |-> IF IsKept(a, since) THEN events[a] ELSE 0]

\* Mutant of Blocked: one failure more than the limit.
BlockedLate(since) == Count(Kept(since), Age) > MaxAttempts + 1

Blocked(since) == Count(Kept(since), Age) >= MaxAttempts

\* Mutant of Throttle: a throttled attempt counts as a failure too.
ThrottleAndRecord(t) == Goes(t, "failed", 0)

\* A blocked attempt is refused and not recorded.  (A customer's is looked up
\* all the same, so that the answer is the same.)
Throttle(t) == Goes(t, "idle", 0)

\* failed_attempts: drop what is older than since, count the rest.
Check(t) ==
  LET since == thread[t].age
  IN /\ At(t, "asking")
     /\ events' = Kept(since)
     /\ IF Blocked(since) THEN Throttle(t) ELSE Goes(t, "checking", 0)
     /\ UNCHANGED recent

\* verify_admin_password, or the booking's SELECT.
Verify(t) ==
  /\ At(t, "checking")
  /\ \/ Goes(t, "failed", 0)
     \/ Goes(t, "passed", 0)
  /\ UNCHANGED <<events, recent>>

\* record_failure: the moment was read before the store's lock.
Record(t) ==
  LET age == thread[t].age
  IN /\ At(t, "failed")
     /\ events' = [events EXCEPT ![age] = @ + 1]
     /\ recent' = IF age \in InWindow THEN [recent EXCEPT ![age] = @ + 1] ELSE recent
     /\ Goes(t, "idle", 0)

\* reset
Reset(t) ==
  /\ At(t, "passed")
  /\ events' = [a \in Age |-> 0]
  /\ recent' = [a \in InWindow |-> 0]
  /\ Goes(t, "idle", 0)

\* Time passes; threads do not wait for the lock for ever.
Tick ==
  /\ \A t \in Thread : At(t, "asking") => thread[t].age < Oldest
  /\ \A t \in Thread : At(t, "failed") => thread[t].age < MaxDelay
  /\ events' = Older(events)
  /\ recent' = [a \in InWindow |-> IF a = 0 THEN 0 ELSE recent[a - 1]]
  /\ thread' = [t \in Thread |->
       IF thread[t].step \in {"asking", "failed"}
         THEN [thread[t] EXCEPT !.age = @ + 1] ELSE thread[t]]

Continue(t) == Check(t) \/ Verify(t) \/ Record(t) \/ Reset(t)

Next == \/ \E t \in Thread : Ask(t) \/ Continue(t)
        \/ Tick

\* Threads are scheduled and time passes; nobody need try to sign in.
Fairness == (\A t \in Thread : WF_vars(Continue(t))) /\ WF_vars(Tick)

Spec == Init /\ [][Next]_vars /\ Fairness

-----------------------------------------------------------------------------
(* Properties *)

\* Every variable has its type, and a thread asks for a whole window or more and
\* records a moment that is no older than its wait for the lock.
TypeOK ==
  /\ events \in [Age -> Nat]
  /\ thread \in [Thread -> ThreadState]
  /\ \A t \in Thread :
       thread[t].age \in CASE At(t, "asking") -> Window..Oldest
                           [] At(t, "failed") -> 0..MaxDelay
                           [] OTHER -> {0}
  /\ recent \in [InWindow -> Nat]

\* README.md:94 "five failed attempts per client IP in a 15-minute window":
\* every failure counts for a whole window, whatever the other threads drop
\* meanwhile and with however old a view of the clock.
FailuresCountForAWindow == \A a \in InWindow : events[a] = recent[a]

\* The same limit with attempts in parallel: the check and the record are not
\* one step, so all threads may pass the check before the first one records.
\* That is the only way past the limit, and it is at most one failure a thread.
FewFailures ==
  Count(recent, InWindow) <= MaxAttempts - 1 + Cardinality(Thread)

\* README.md:98 "failures pause sign-in [...] until the window expires": as
\* refused attempts are not recorded, a lockout ends however often sign-in is
\* tried meanwhile.
LockoutEnds == []<>(~Blocked(Window))
=============================================================================
