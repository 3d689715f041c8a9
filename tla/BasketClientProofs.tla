------------------------- MODULE BasketClientProofs -------------------------
(* Theorems about BasketClient for every value of its constants. *)
EXTENDS BasketClient, SequenceTheorems, WellFoundedInduction, TLAPS

(* A page stays well formed when one field is replaced by a value of its type. *)
LEMMA FieldUpdates ==
  ASSUME NEW p \in PageState
  PROVE  /\ \A v \in SUBSET Item : [p EXCEPT !.cards = v] \in PageState
         /\ \A v \in Nat : [p EXCEPT !.revision = v] \in PageState
         /\ \A v \in Seq(Item) : [p EXCEPT !.queue = v] \in PageState
         /\ \A v \in Call \cup {NoCall} : [p EXCEPT !.call = v] \in PageState
         /\ \A v \in [Item -> Number] : [p EXCEPT !.input = v] \in PageState
         /\ \A v \in [Item -> Quantity] : [p EXCEPT !.max = v] \in PageState
         /\ \A v \in [Item -> BOOLEAN] : [p EXCEPT !.timer = v] \in PageState
         /\ \A v \in [Item -> Number] : [p EXCEPT !.pending = v] \in PageState
         /\ \A v \in [Item -> BOOLEAN] : [p EXCEPT !.queued = v] \in PageState
         /\ \A v \in [Item -> Number] : [p EXCEPT !.lastAttempt = v] \in PageState
         /\ \A v \in [Item -> Quantity] : [p EXCEPT !.serverValue = v] \in PageState
         /\ \A v \in [Item -> BOOLEAN] : [p EXCEPT !.available = v] \in PageState
         /\ \A v \in [Item -> Status] : [p EXCEPT !.status = v] \in PageState
         /\ \A v \in [Item -> Nat] : [p EXCEPT !.shownEdits = v] \in PageState
         /\ \A v \in [Item -> Nat] : [p EXCEPT !.draft = v] \in PageState
         /\ \A v \in [Item -> Nat] : [p EXCEPT !.draftEdits = v] \in PageState
  <1>1. \A v \in SUBSET Item : [p EXCEPT !.cards = v] \in PageState
    BY Zenon DEF PageState
  <1>2. \A v \in Nat : [p EXCEPT !.revision = v] \in PageState
    BY Zenon DEF PageState
  <1>3. \A v \in Seq(Item) : [p EXCEPT !.queue = v] \in PageState
    BY Zenon DEF PageState
  <1>4. \A v \in Call \cup {NoCall} : [p EXCEPT !.call = v] \in PageState
    BY Zenon DEF PageState
  <1>5. \A v \in [Item -> Number] : [p EXCEPT !.input = v] \in PageState
    BY Zenon DEF PageState
  <1>6. \A v \in [Item -> Quantity] : [p EXCEPT !.max = v] \in PageState
    BY Zenon DEF PageState
  <1>7. \A v \in [Item -> BOOLEAN] : [p EXCEPT !.timer = v] \in PageState
    BY Zenon DEF PageState
  <1>8. \A v \in [Item -> Number] : [p EXCEPT !.pending = v] \in PageState
    BY Zenon DEF PageState
  <1>9. \A v \in [Item -> BOOLEAN] : [p EXCEPT !.queued = v] \in PageState
    BY Zenon DEF PageState
  <1>10. \A v \in [Item -> Number] : [p EXCEPT !.lastAttempt = v] \in PageState
    BY Zenon DEF PageState
  <1>11. \A v \in [Item -> Quantity] : [p EXCEPT !.serverValue = v] \in PageState
    BY Zenon DEF PageState
  <1>12. \A v \in [Item -> BOOLEAN] : [p EXCEPT !.available = v] \in PageState
    BY Zenon DEF PageState
  <1>13. \A v \in [Item -> Status] : [p EXCEPT !.status = v] \in PageState
    BY Zenon DEF PageState
  <1>14. \A v \in [Item -> Nat] : [p EXCEPT !.shownEdits = v] \in PageState
    BY Zenon DEF PageState
  <1>15. \A v \in [Item -> Nat] : [p EXCEPT !.draft = v] \in PageState
    BY Zenon DEF PageState
  <1>16. \A v \in [Item -> Nat] : [p EXCEPT !.draftEdits = v] \in PageState
    BY Zenon DEF PageState
  <1> QED BY <1>1, <1>2, <1>3, <1>4, <1>5, <1>6, <1>7, <1>8, <1>9, <1>10, <1>11, <1>12, <1>13, <1>14, <1>15, <1>16

(* The types of the fields. *)
LEMMA Fields ==
  ASSUME NEW p \in PageState
  PROVE  /\ p.cards \in SUBSET Item /\ p.revision \in Nat /\ p.queue \in Seq(Item)
         /\ p.call \in Call \cup {NoCall} /\ p.input \in [Item -> Number]
         /\ p.max \in [Item -> Quantity] /\ p.timer \in [Item -> BOOLEAN]
         /\ p.pending \in [Item -> Number] /\ p.queued \in [Item -> BOOLEAN]
         /\ p.lastAttempt \in [Item -> Number]
         /\ p.serverValue \in [Item -> Quantity]
         /\ p.available \in [Item -> BOOLEAN] /\ p.status \in [Item -> Status]
         /\ p.shownEdits \in [Item -> Nat] /\ p.draft \in [Item -> Nat]
         /\ p.draftEdits \in [Item -> Nat]
  BY SMT DEF PageState

(* The answer read by a request. *)
AnswerType == [revision : Nat, stock : [Item -> Quantity], visible : [Item -> BOOLEAN]]

(* The page q is p with drafts dropped, never added, and the same queue. *)
Calmer(q, p) ==
  /\ q \in PageState
  /\ q.draft = p.draft /\ q.call = p.call
  /\ q.queue = p.queue /\ q.queued = p.queued
  /\ \A i \in Item : q.pending[i] # None => q.pending[i] = p.pending[i]
                                            /\ q.timer[i] = p.timer[i]

LEMMA SnapshotIsCalmer ==
  ASSUME NEW p \in PageState, NEW ans \in AnswerType, NEW S \in SUBSET Item,
         items \subseteq Item, selected \in [Item -> Quantity],
         visible \in [Item -> BOOLEAN], edits \in [Item -> Nat]
  PROVE  Calmer(ApplySnapshot(p, ans, S), p) /\ ApplySnapshot(p, ans, S).revision = ans.revision
  <1> DEFINE listed == {i \in p.cards \cap items : visible[i] \/ selected[i] > 0}
             locked == {i \in listed : ~ans.visible[i]}
             Set(f, T, v) == [i \in Item |-> IF i \in T THEN v ELSE f[i]]
             Take(f, T, g) == [i \in Item |-> IF i \in T THEN g[i] ELSE f[i]]
             status == [i \in Item |->
                         IF i \in locked THEN "locked"
                         ELSE IF i \in listed /\ ~p.available[i] THEN "saved"
                         ELSE p.status[i]]
             p01 == [p EXCEPT !.revision = ans.revision]
             p02 == [p01 EXCEPT !.serverValue = Take(p.serverValue, listed, selected)]
             p03 == [p02 EXCEPT !.shownEdits = Take(p.shownEdits, listed, edits)]
             p04 == [p03 EXCEPT !.max = Take(p.max, listed, ans.stock)]
             p05 == [p04 EXCEPT !.input = Take(p.input, listed \ S, selected)]
             p06 == [p05 EXCEPT !.available = Take(p.available, listed, ans.visible)]
             p07 == [p06 EXCEPT !.timer = Set(p.timer, locked, FALSE)]
             p08 == [p07 EXCEPT !.pending = Set(p.pending, locked, None)]
             p09 == [p08 EXCEPT !.lastAttempt = Set(p.lastAttempt, locked, None)]
             p10 == [p09 EXCEPT !.status = status]
  <1>1. /\ ans.revision \in Nat /\ ans.stock \in [Item -> Quantity]
        /\ ans.visible \in [Item -> BOOLEAN] /\ None \in Number /\ Quantity \subseteq Number
    BY SMT DEF AnswerType, Number
  <1>2. /\ ans.revision \in Nat
        /\ Take(p.serverValue, listed, selected) \in [Item -> Quantity]
        /\ Take(p.shownEdits, listed, edits) \in [Item -> Nat]
        /\ Take(p.max, listed, ans.stock) \in [Item -> Quantity]
        /\ Take(p.input, listed \ S, selected) \in [Item -> Number]
        /\ Take(p.available, listed, ans.visible) \in [Item -> BOOLEAN]
        /\ Set(p.timer, locked, FALSE) \in [Item -> BOOLEAN]
        /\ Set(p.pending, locked, None) \in [Item -> Number]
        /\ Set(p.lastAttempt, locked, None) \in [Item -> Number]
        /\ status \in [Item -> Status]
    <2> HIDE DEF listed, locked
    <2>1. status \in [Item -> Status]
      BY Fields, SMT DEF Status
    <2>2. /\ Take(p.serverValue, listed, selected) \in [Item -> Quantity]
          /\ Take(p.shownEdits, listed, edits) \in [Item -> Nat]
          /\ Take(p.max, listed, ans.stock) \in [Item -> Quantity]
          /\ Take(p.available, listed, ans.visible) \in [Item -> BOOLEAN]
      BY <1>1, Fields, Zenon
    <2>3. Take(p.input, listed \ S, selected) \in [Item -> Number]
      BY <1>1, Fields, Zenon
    <2>4. /\ Set(p.timer, locked, FALSE) \in [Item -> BOOLEAN]
          /\ Set(p.pending, locked, None) \in [Item -> Number]
          /\ Set(p.lastAttempt, locked, None) \in [Item -> Number]
      BY <1>1, Fields, Zenon
    <2> QED BY <1>1, <2>1, <2>2, <2>3, <2>4
  <1>3. p01 \in PageState
    BY <1>1, FieldUpdates, Zenon
  <1>4. p02 \in PageState
    <2> HIDE DEF p01
    <2> QED BY <1>3, <1>2, FieldUpdates, Zenon
  <1>5. p03 \in PageState
    <2> HIDE DEF p02
    <2> QED BY <1>4, <1>2, FieldUpdates, Zenon
  <1>6. p04 \in PageState
    <2> HIDE DEF p03
    <2> QED BY <1>5, <1>2, FieldUpdates, Zenon
  <1>7. p05 \in PageState
    <2> HIDE DEF p04
    <2> QED BY <1>6, <1>2, FieldUpdates, Zenon
  <1>8. p06 \in PageState
    <2> HIDE DEF p05
    <2> QED BY <1>7, <1>2, FieldUpdates, Zenon
  <1>9. p07 \in PageState
    <2> HIDE DEF p06
    <2> QED BY <1>8, <1>2, FieldUpdates, Zenon
  <1>10. p08 \in PageState
    <2> HIDE DEF p07
    <2> QED BY <1>9, <1>2, FieldUpdates, Zenon
  <1>11. p09 \in PageState
    <2> HIDE DEF p08
    <2> QED BY <1>10, <1>2, FieldUpdates, Zenon
  <1>12. p10 \in PageState
    <2> HIDE DEF p09
    <2> QED BY <1>11, <1>2, FieldUpdates, Zenon
  <1>13. ApplySnapshot(p, ans, S) = p10
    BY Zenon DEF ApplySnapshot
  <1>14. /\ p10.draft = p.draft /\ p10.call = p.call /\ p10.queue = p.queue
         /\ p10.queued = p.queued /\ p10.revision = ans.revision
         /\ p10.pending = Set(p.pending, locked, None)
         /\ p10.timer = Set(p.timer, locked, FALSE)
    BY Zenon DEF PageState
  <1>15. \A i \in Item : p10.pending[i] # None =>
           p10.pending[i] = p.pending[i] /\ p10.timer[i] = p.timer[i]
    <2> HIDE DEF p10, locked
    <2> QED BY <1>14, Zenon
  <1> HIDE DEF p10
  <1> QED BY <1>12, <1>13, <1>14, <1>15 DEF Calmer

(* The first ready entry of the queue exists. *)
LEMMA FirstIsLeast ==
  ASSUME NEW S \in SUBSET Nat, S # {}
  PROVE  First(S) \in S /\ \A j \in S : First(S) <= j
  <1> DEFINE R == {ss \in Nat \X Nat : ss[1] < ss[2]}
  <1>1. \E k \in S : \A j \in S : <<j, k>> \notin R
    <2>1. IsWellFoundedOn(R, Nat)
      BY NatLessThanWellFounded, Zenon DEF OpToRel
    <2> HIDE DEF R
    <2> QED BY <2>1, WFMin, Zenon
  <1>2. PICK k \in S : \A j \in S : <<j, k>> \notin R
    BY <1>1
  <1>3. ASSUME NEW j \in S, j < k
        PROVE  FALSE
    <2>1. <<j, k>> \in Nat \X Nat /\ <<j, k>>[1] = j /\ <<j, k>>[2] = k
      BY SMT
    <2>2. <<j, k>> \in R
      BY <1>3, <2>1, Zenon
    <2> QED BY <1>2, <2>2
  <1>4. \A j \in S : k <= j
    BY <1>3, SMT
  <1> QED BY <1>4 DEF First

(* The queued flag of a card tells whether it is in the queue. *)
Flagged(p) ==
  \A i \in Item : p.queued[i] <=> \E k \in 1..Len(p.queue) : p.queue[k] = i

(* The drafts of the cards outside X will be sent: a timer runs or they queue. *)
Scheduled(p, X) ==
  \A i \in Item \ X : p.pending[i] # None => p.timer[i] \/ p.queued[i]

Drained(p) == p.queue # <<>> => p.call # NoCall

(* What sending entry k of the queue does to the page. *)
LEMMA SendIsSound ==
  ASSUME NEW p \in PageState, NEW k \in 1..Len(p.queue), p.pending[p.queue[k]] # None,
         NEW q, q = Send(p, k), NEW i, i = p.queue[k]
  PROVE  /\ q \in PageState /\ i \in Item
         /\ q.queue = SubSeq(p.queue, k + 1, Len(p.queue))
         /\ q.call = [item |-> i, quantity |-> p.pending[i], revision |-> p.revision,
                      draft |-> p.draft[i], edits |-> p.draftEdits[i]]
         /\ q.pending = [p.pending EXCEPT ![i] = None]
         /\ q.draft = p.draft /\ q.revision = p.revision /\ q.timer = p.timer
         /\ Flagged(q)
  <1> DEFINE rest == SubSeq(p.queue, k + 1, Len(p.queue))
             queued == [j \in Item |-> \E n \in 1..Len(rest) : rest[n] = j]
             call == [item |-> i, quantity |-> p.pending[i], revision |-> p.revision,
                      draft |-> p.draft[i], edits |-> p.draftEdits[i]]
             pending == [p.pending EXCEPT ![i] = None]
             lastAttempt == [p.lastAttempt EXCEPT ![i] = p.pending[i]]
             status == [p.status EXCEPT ![i] = "saving"]
             p1 == [p EXCEPT !.queue = rest]
             p2 == [p1 EXCEPT !.queued = queued]
             p3 == [p2 EXCEPT !.call = call]
             p4 == [p3 EXCEPT !.lastAttempt = lastAttempt]
             p5 == [p4 EXCEPT !.pending = pending]
             p6 == [p5 EXCEPT !.status = status]
  <1>1. i \in Item /\ p.pending[i] \in Quantity
    BY Fields, ElementOfSeq, SMT DEF Number
  <1>2. rest \in Seq(Item)
    BY Fields, SubSeqProperties, LenProperties, SMT
  <1>3. /\ queued \in [Item -> BOOLEAN] /\ call \in Call
        /\ lastAttempt \in [Item -> Number] /\ pending \in [Item -> Number]
        /\ status \in [Item -> Status]
    <2>1. queued \in [Item -> BOOLEAN]
      OBVIOUS
    <2>2. call \in Call
      BY <1>1, Fields, SMT DEF Call
    <2>3. lastAttempt \in [Item -> Number] /\ pending \in [Item -> Number]
      BY <1>1, Fields, SMT DEF Number, None
    <2>4. status \in [Item -> Status]
      BY <1>1, Fields, SMT DEF Status
    <2> QED BY <2>1, <2>2, <2>3, <2>4
  <1>4. p1 \in PageState
    BY <1>2, FieldUpdates, Zenon
  <1>5. p2 \in PageState
    <2> HIDE DEF p1
    <2> QED BY <1>4, <1>3, FieldUpdates, Zenon
  <1>6. p3 \in PageState
    <2> HIDE DEF p2
    <2> QED BY <1>5, <1>3, FieldUpdates, Zenon
  <1>7. p4 \in PageState
    <2> HIDE DEF p3
    <2> QED BY <1>6, <1>3, FieldUpdates, Zenon
  <1>8. p5 \in PageState
    <2> HIDE DEF p4
    <2> QED BY <1>7, <1>3, FieldUpdates, Zenon
  <1>9. p6 \in PageState
    <2> HIDE DEF p5
    <2> QED BY <1>8, <1>3, FieldUpdates, Zenon
  <1>10. q = p6
    BY Zenon DEF Send
  <1>11. /\ p6.queue = rest /\ p6.queued = queued /\ p6.call = call
         /\ p6.pending = pending /\ p6.draft = p.draft /\ p6.revision = p.revision
         /\ p6.timer = p.timer
    BY Zenon DEF PageState
  <1>12. Flagged(q)
    <2>1. q.queued = queued /\ q.queue = rest
      BY <1>10, <1>11, Zenon
    <2> HIDE DEF rest
    <2> QED BY <2>1, SMT DEF Flagged
  <1> HIDE DEF p6
  <1> QED BY <1>1, <1>9, <1>10, <1>11, <1>12

(* The page q is p after its queue has moved on: nothing or one draft was sent. *)
Advanced(q, p) ==
  /\ q \in PageState
  /\ q.draft = p.draft /\ q.revision = p.revision
  /\ \/ q.call = p.call /\ q.pending = p.pending
     \/ \E i \in Item :
          /\ Active(p) = NoItem
          /\ p.pending[i] # None
          /\ q.pending = [p.pending EXCEPT ![i] = None]
          /\ q.call = [item |-> i, quantity |-> p.pending[i], revision |-> p.revision,
                       draft |-> p.draft[i], edits |-> p.draftEdits[i]]

Ordered(p) == Flagged(p) /\ Scheduled(p, {}) /\ Drained(p)

LEMMA DrainIsSound ==
  ASSUME NEW p \in PageState, Flagged(p), Scheduled(p, {})
  PROVE  Advanced(Drain(p), p) /\ Ordered(Drain(p))
  <1>1. CASE Active(p) # NoItem
    <2>1. Drain(p) = p
      BY <1>1 DEF Drain
    <2>2. p.call # NoCall
      BY <1>1 DEF Active, NoCall
    <2> QED BY <2>1, <2>2 DEF Advanced, Ordered, Drained
  <1>2. CASE Active(p) = NoItem /\ Ready(p) = {}
    <2> DEFINE none == [j \in Item |-> FALSE]
               p1 == [p EXCEPT !.queue = <<>>]
               p2 == [p1 EXCEPT !.queued = none]
    <2>1. p1 \in PageState
      <3>1. <<>> \in Seq(Item)
        BY SMT
      <3> QED BY <3>1, FieldUpdates, Zenon
    <2>2. p2 \in PageState
      <3>1. none \in [Item -> BOOLEAN]
        OBVIOUS
      <3> HIDE DEF p1, none
      <3> QED BY <2>1, <3>1, FieldUpdates, Zenon
    <2>3. Drain(p) = p2
      BY <1>2, Zenon DEF Drain
    <2>4. /\ p2.queue = <<>> /\ p2.queued = none /\ p2.call = p.call
          /\ p2.pending = p.pending /\ p2.draft = p.draft
          /\ p2.revision = p.revision /\ p2.timer = p.timer
      BY Zenon DEF PageState
    <2>5. Flagged(p2)
      <3> HIDE DEF p2
      <3>1. 1..Len(p2.queue) = {}
        <4>1. Len(<<>>) = 0
          BY SMT
        <4> QED BY <2>4, <4>1, SMT
      <3>2. \A j \in Item : p2.queued[j] = FALSE
        BY <2>4, Zenon
      <3> QED BY <3>1, <3>2, Zenon DEF Flagged
    <2>6. \A i \in Item : p.pending[i] # None => p.timer[i]
      BY <1>2, SMT DEF Ready, Scheduled, Flagged
    <2>7. Scheduled(p2, {})
      <3> HIDE DEF p2
      <3> QED BY <2>4, <2>6, SMT DEF Scheduled
    <2> HIDE DEF p2
    <2> QED BY <2>2, <2>3, <2>4, <2>5, <2>7 DEF Advanced, Ordered, Drained
  <1>3. CASE Active(p) = NoItem /\ Ready(p) # {}
    <2> DEFINE k == First(Ready(p))
               q == Send(p, k)
               i == p.queue[k]
    <2>1. p.queue \in Seq(Item) /\ Len(p.queue) \in Nat
      BY Fields, LenProperties
    <2>2. Ready(p) \subseteq Nat
      BY <2>1, SMT DEF Ready
    <2>3. k \in Ready(p) /\ \A j \in Ready(p) : k <= j
      BY <1>3, <2>2, FirstIsLeast
    <2>4. k \in 1..Len(p.queue) /\ p.pending[i] # None
      BY <2>3 DEF Ready
    <2> HIDE DEF k
    <2>5. /\ q \in PageState /\ i \in Item
          /\ q.queue = SubSeq(p.queue, k + 1, Len(p.queue))
          /\ q.call = [item |-> i, quantity |-> p.pending[i], revision |-> p.revision,
                       draft |-> p.draft[i], edits |-> p.draftEdits[i]]
          /\ q.pending = [p.pending EXCEPT ![i] = None]
          /\ q.draft = p.draft /\ q.revision = p.revision /\ q.timer = p.timer
          /\ Flagged(q)
      BY <2>4, SendIsSound
    <2>6. Drain(p) = q
      BY <1>3 DEF Drain, k
    <2> HIDE DEF q, i
    <2>7. q.call # NoCall
      <3>1. q.call.item = i
        BY <2>5, SMT
      <3> QED BY <2>5, <3>1, NoItemAssumption DEF NoCall
    <2>8. Scheduled(q, {})
      <3> SUFFICES ASSUME NEW j \in Item, q.pending[j] # None, ~q.timer[j]
                   PROVE  q.queued[j]
        BY DEF Scheduled
      <3>1. j # i /\ p.pending[j] # None /\ p.queued[j]
        BY <2>5, Fields, SMT DEF Scheduled
      <3>2. PICK n \in 1..Len(p.queue) : p.queue[n] = j
        BY <3>1 DEF Flagged
      <3>3. n > k
        <4>1. n \in Ready(p)
          BY <3>1, <3>2 DEF Ready
        <4>2. n # k
          BY <3>1, <3>2 DEF i
        <4> QED BY <4>1, <4>2, <2>1, <2>3, <2>4, SMT
      <3>4. n - k \in 1..Len(q.queue) /\ q.queue[n - k] = j
        BY <2>1, <2>4, <2>5, <3>2, <3>3, SubSeqProperties, SMT
      <3> QED BY <2>5, <3>4 DEF Flagged
    <2> QED BY <1>3, <2>4, <2>5, <2>6, <2>7, <2>8 DEF Advanced, Ordered, Drained
  <1> QED BY <1>1, <1>2, <1>3

LEMMA EnqueueIsSound ==
  ASSUME NEW p \in PageState, NEW i \in Item, Flagged(p), Scheduled(p, {i})
  PROVE  Advanced(Enqueue(p, i), p) /\ Ordered(Enqueue(p, i))
  <1>1. CASE p.queued[i]
    <2>1. Enqueue(p, i) = Drain(p)
      BY <1>1 DEF Enqueue
    <2>2. Scheduled(p, {})
      BY <1>1 DEF Scheduled
    <2> QED BY <2>1, <2>2, DrainIsSound
  <1>2. CASE ~p.queued[i]
    <2> DEFINE queued == [p.queued EXCEPT ![i] = TRUE]
               queue == Append(p.queue, i)
               p1 == [p EXCEPT !.queued = queued]
               p2 == [p1 EXCEPT !.queue = queue]
    <2>1. queued \in [Item -> BOOLEAN] /\ queue \in Seq(Item)
      BY Fields, SMT
    <2>2. p1 \in PageState
      BY <2>1, FieldUpdates, Zenon
    <2>3. p2 \in PageState
      <3> HIDE DEF p1
      <3> QED BY <2>1, <2>2, FieldUpdates, Zenon
    <2>4. Enqueue(p, i) = Drain(p2)
      BY <1>2, Zenon DEF Enqueue
    <2>5. /\ p2.queue = queue /\ p2.queued = queued /\ p2.call = p.call
          /\ p2.pending = p.pending /\ p2.draft = p.draft
          /\ p2.draftEdits = p.draftEdits
          /\ p2.revision = p.revision /\ p2.timer = p.timer
      BY Zenon DEF PageState
    <2> HIDE DEF p2
    <2>6. Flagged(p2)
      <3> SUFFICES ASSUME NEW j \in Item
                   PROVE  p2.queued[j] <=> \E k \in 1..Len(p2.queue) : p2.queue[k] = j
        BY Zenon DEF Flagged
      <3>1. /\ p.queue \in Seq(Item) /\ Len(queue) = Len(p.queue) + 1
            /\ Len(p.queue) \in Nat
            /\ \A k \in 1..Len(p.queue) : queue[k] = p.queue[k]
            /\ queue[Len(p.queue) + 1] = i
        BY Fields, AppendProperties, LenProperties, SMT
      <3>2. CASE j = i
        BY <2>5, <3>1, <3>2, Fields, SMT
      <3>3. CASE j # i
        <4>1. p2.queued[j] <=> p.queued[j]
          BY <2>5, <3>3, Fields, SMT
        <4> HIDE DEF queue
        <4> QED BY <2>5, <3>1, <3>3, <4>1, SMT DEF Flagged
      <3> QED BY <3>2, <3>3
    <2>7. Scheduled(p2, {})
      BY <2>5, Fields, SMT DEF Scheduled
    <2>8. Advanced(Drain(p2), p2) /\ Ordered(Drain(p2))
      BY <2>3, <2>6, <2>7, DrainIsSound
    <2> QED BY <2>4, <2>5, <2>8 DEF Advanced, Active
  <1> QED BY <1>1, <1>2

(* Dropping drafts keeps the rest in order. *)
LEMMA CalmerKeeps ==
  ASSUME NEW p, NEW q, Calmer(q, p), Flagged(p), NEW X, Scheduled(p, X)
  PROVE  Flagged(q) /\ Scheduled(q, X)
  <1>1. Flagged(q)
    BY Zenon DEF Calmer, Flagged
  <1>2. Scheduled(q, X)
    BY Zenon DEF Calmer, Scheduled
  <1> QED BY <1>1, <1>2

LEMMA CalmerTransitive ==
  ASSUME NEW p, NEW q, NEW r, Calmer(q, p), Calmer(r, q)
  PROVE  Calmer(r, p)
  BY Zenon DEF Calmer

(* The same without an answer: the revision stays. *)
Quiet(q, p) == Calmer(q, p) /\ q.revision = p.revision

LEMMA QuietTransitive ==
  ASSUME NEW p, NEW q, NEW r, Quiet(q, p), Quiet(r, q)
  PROVE  Quiet(r, p)
  BY CalmerTransitive, Zenon DEF Quiet

(* The fields Quiet speaks of. *)
Same(q, p) ==
  /\ q.draft = p.draft /\ q.call = p.call /\ q.queue = p.queue
  /\ q.queued = p.queued /\ q.timer = p.timer /\ q.pending = p.pending
  /\ q.revision = p.revision

(* Updates that drop drafts and change nothing else of the queue. *)
LEMMA CalmUpdates ==
  ASSUME NEW p \in PageState
  PROVE  /\ \A v \in SUBSET Item : Quiet([p EXCEPT !.cards = v], p)
         /\ \A v \in [Item -> Number] : Quiet([p EXCEPT !.input = v], p)
         /\ \A v \in [Item -> Number] : Quiet([p EXCEPT !.lastAttempt = v], p)
         /\ \A v \in [Item -> BOOLEAN] : Quiet([p EXCEPT !.available = v], p)
         /\ \A v \in [Item -> Status] : Quiet([p EXCEPT !.status = v], p)
         /\ \A i \in Item : Quiet([p EXCEPT !.pending = [p.pending EXCEPT ![i] = None]], p)
         /\ \A i \in Item : p.pending[i] = None =>
              Quiet([p EXCEPT !.timer = [p.timer EXCEPT ![i] = FALSE]], p)
  <1>1. ASSUME NEW v \in SUBSET Item
        PROVE  Quiet([p EXCEPT !.cards = v], p)
    <2> DEFINE q == [p EXCEPT !.cards = v]
    <2>1. q \in PageState
      BY FieldUpdates, Zenon
    <2>2. Same(q, p)
      BY Zenon DEF PageState, Same
    <2> HIDE DEF q
    <2> QED BY <2>1, <2>2, Zenon DEF Quiet, Calmer, Same, q
  <1>2. ASSUME NEW v \in [Item -> Number]
        PROVE  Quiet([p EXCEPT !.input = v], p)
    <2> DEFINE q == [p EXCEPT !.input = v]
    <2>1. q \in PageState
      BY FieldUpdates, Zenon
    <2>2. Same(q, p)
      BY Zenon DEF PageState, Same
    <2> HIDE DEF q
    <2> QED BY <2>1, <2>2, Zenon DEF Quiet, Calmer, Same, q
  <1>3. ASSUME NEW v \in [Item -> Number]
        PROVE  Quiet([p EXCEPT !.lastAttempt = v], p)
    <2> DEFINE q == [p EXCEPT !.lastAttempt = v]
    <2>1. q \in PageState
      BY FieldUpdates, Zenon
    <2>2. Same(q, p)
      BY Zenon DEF PageState, Same
    <2> HIDE DEF q
    <2> QED BY <2>1, <2>2, Zenon DEF Quiet, Calmer, Same, q
  <1>4. ASSUME NEW v \in [Item -> BOOLEAN]
        PROVE  Quiet([p EXCEPT !.available = v], p)
    <2> DEFINE q == [p EXCEPT !.available = v]
    <2>1. q \in PageState
      BY FieldUpdates, Zenon
    <2>2. Same(q, p)
      BY Zenon DEF PageState, Same
    <2> HIDE DEF q
    <2> QED BY <2>1, <2>2, Zenon DEF Quiet, Calmer, Same, q
  <1>5. ASSUME NEW v \in [Item -> Status]
        PROVE  Quiet([p EXCEPT !.status = v], p)
    <2> DEFINE q == [p EXCEPT !.status = v]
    <2>1. q \in PageState
      BY FieldUpdates, Zenon
    <2>2. Same(q, p)
      BY Zenon DEF PageState, Same
    <2> HIDE DEF q
    <2> QED BY <2>1, <2>2, Zenon DEF Quiet, Calmer, Same, q
  <1>6. ASSUME NEW i \in Item
        PROVE  Quiet([p EXCEPT !.pending = [p.pending EXCEPT ![i] = None]], p)
    <2> DEFINE pending == [p.pending EXCEPT ![i] = None]
               q == [p EXCEPT !.pending = pending]
    <2>1. pending \in [Item -> Number]
      BY Fields, SMT DEF Number
    <2>2. q \in PageState
      BY <2>1, FieldUpdates, Zenon
    <2>3. /\ q.draft = p.draft /\ q.call = p.call /\ q.queue = p.queue
          /\ q.queued = p.queued /\ q.timer = p.timer /\ q.pending = pending
          /\ q.revision = p.revision
      BY Zenon DEF PageState
    <2>4. \A j \in Item : pending[j] # None => pending[j] = p.pending[j]
      BY Fields, SMT
    <2> HIDE DEF q, pending
    <2> QED BY <2>2, <2>3, <2>4, Zenon DEF Quiet, Calmer, q, pending
  <1>7. ASSUME NEW i \in Item, p.pending[i] = None
        PROVE  Quiet([p EXCEPT !.timer = [p.timer EXCEPT ![i] = FALSE]], p)
    <2> DEFINE timer == [p.timer EXCEPT ![i] = FALSE]
               q == [p EXCEPT !.timer = timer]
    <2>1. timer \in [Item -> BOOLEAN]
      BY Fields, SMT
    <2>2. q \in PageState
      BY <2>1, FieldUpdates, Zenon
    <2>3. /\ q.draft = p.draft /\ q.call = p.call /\ q.queue = p.queue
          /\ q.queued = p.queued /\ q.timer = timer /\ q.pending = p.pending
          /\ q.revision = p.revision
      BY Zenon DEF PageState
    <2>4. \A j \in Item : p.pending[j] # None => timer[j] = p.timer[j]
      <3> SUFFICES ASSUME NEW j \in Item, j # i
                   PROVE  timer[j] = p.timer[j]
        BY <1>7
      <3> QED BY Fields, SMT
    <2> HIDE DEF q, timer
    <2> QED BY <2>2, <2>3, <2>4, Zenon DEF Quiet, Calmer, q, timer
  <1> QED BY <1>1, <1>2, <1>3, <1>4, <1>5, <1>6, <1>7

(* The types of the tables that an answer is read from. *)
TablesOK == /\ items \subseteq Item
            /\ selected \in [Item -> Quantity] /\ visible \in [Item -> BOOLEAN]
            /\ edits \in [Item -> Nat]

LEMMA QuantityBounds == /\ 0 \in Quantity /\ Quantity \subseteq Number /\ None \in Number
                        /\ None \notin Quantity /\ Number = Quantity \cup {None}
  BY ClientAssumption, SMT DEF Quantity, Number, None

LEMMA OfferRetryIsQuiet ==
  ASSUME NEW p \in PageState, NEW i \in Item, NEW v \in Number
  PROVE  Quiet(OfferRetry(p, i, v), p)
  <1> DEFINE lastAttempt == [p.lastAttempt EXCEPT ![i] = v]
             status == [p.status EXCEPT ![i] = "retry"]
             p1 == [p EXCEPT !.lastAttempt = lastAttempt]
             p2 == [p1 EXCEPT !.status = status]
  <1>1. lastAttempt \in [Item -> Number] /\ status \in [Item -> Status]
    BY Fields, SMT DEF Status
  <1>2. Quiet(p1, p) /\ p1 \in PageState
    <2>1. Quiet(p1, p)
      <3> HIDE DEF lastAttempt
      <3> QED BY <1>1, CalmUpdates
    <2> HIDE DEF p1
    <2> QED BY <2>1 DEF Quiet, Calmer
  <1>3. Quiet(p2, p1)
    <2> HIDE DEF p1, status
    <2> QED BY <1>1, <1>2, CalmUpdates
  <1>4. CASE p.available[i]
    <2>1. OfferRetry(p, i, v) = p2
      BY <1>4, Zenon DEF OfferRetry
    <2> HIDE DEF p1, p2
    <2> QED BY <1>2, <1>3, <2>1, QuietTransitive
  <1>5. CASE ~p.available[i]
    BY <1>5 DEF OfferRetry, Quiet, Calmer
  <1> QED BY <1>4, <1>5

(* The outcome q of handling an answer on page p, with a revision in R. *)
Handled(q, p, R) ==
  /\ q \in PageState /\ q.revision \in R
  /\ q.draft = p.draft /\ q.call = p.call
  /\ \A j \in Item : q.pending[j] # None => q.pending[j] = p.pending[j]
  /\ Flagged(q) /\ Scheduled(q, {})

LEMMA CalmerIsHandled ==
  ASSUME NEW p, NEW q, NEW R, Calmer(q, p), q.revision \in R, Flagged(p), Scheduled(p, {})
  PROVE  Handled(q, p, R)
  BY CalmerKeeps DEF Calmer, Handled

(* Queueing a card again while the request is still on its way. *)
LEMMA RequeueIsHandled ==
  ASSUME NEW p \in PageState, NEW q, NEW i \in Item, NEW R, Calmer(q, p), q.revision \in R,
         Flagged(p), Scheduled(p, {}), Active(p) # NoItem
  PROVE  Handled(Enqueue(q, i), p, R)
  <1>1. q \in PageState /\ Active(q) # NoItem
    BY DEF Calmer, Active
  <1>2. Flagged(q) /\ Scheduled(q, {i})
    <2>1. Scheduled(p, {i})
      BY Zenon DEF Scheduled
    <2> QED BY <2>1, CalmerKeeps
  <1>3. Advanced(Enqueue(q, i), q) /\ Ordered(Enqueue(q, i))
    BY <1>1, <1>2, EnqueueIsSound
  <1> QED BY <1>1, <1>3, Zenon DEF Advanced, Ordered, Handled, Calmer

LEMMA QuietCalmer ==
  ASSUME NEW p, NEW q, NEW r, Calmer(q, p), Quiet(r, q)
  PROVE  Calmer(r, p) /\ r.revision = q.revision
  BY CalmerTransitive, Zenon DEF Quiet

LEMMA StatusIsQuiet ==
  ASSUME NEW p \in PageState, NEW i \in Item, NEW s \in Status
  PROVE  Quiet([p EXCEPT !.status[i] = s], p)
  <1> DEFINE status == [p.status EXCEPT ![i] = s]
  <1>1. status \in [Item -> Status]
    BY Fields, SMT
  <1>2. [p EXCEPT !.status[i] = s] = [p EXCEPT !.status = status]
    BY Zenon
  <1> HIDE DEF status
  <1> QED BY <1>1, <1>2, CalmUpdates

LEMMA DropIsQuiet ==
  ASSUME NEW p \in PageState, NEW i \in Item
  PROVE  /\ Quiet([p EXCEPT !.pending[i] = None], p)
         /\ [p EXCEPT !.pending[i] = None].pending[i] = None
  <1> DEFINE q == [p EXCEPT !.pending[i] = None]
  <1>1. q = [p EXCEPT !.pending = [p.pending EXCEPT ![i] = None]]
    BY Zenon
  <1>2. Quiet(q, p)
    <2> HIDE DEF q
    <2> QED BY <1>1, CalmUpdates
  <1>3. q.pending[i] = None
    <2>1. q.pending = [p.pending EXCEPT ![i] = None]
      BY Zenon DEF PageState
    <2> HIDE DEF q
    <2> QED BY <2>1, Fields, SMT
  <1> QED BY <1>2, <1>3

LEMMA AttemptIsQuiet ==
  ASSUME NEW p \in PageState, NEW i \in Item, NEW v \in Number
  PROVE  Quiet([p EXCEPT !.lastAttempt[i] = v], p)
  <1> DEFINE lastAttempt == [p.lastAttempt EXCEPT ![i] = v]
  <1>1. lastAttempt \in [Item -> Number]
    BY Fields, SMT
  <1>2. [p EXCEPT !.lastAttempt[i] = v] = [p EXCEPT !.lastAttempt = lastAttempt]
    BY Zenon
  <1> HIDE DEF lastAttempt
  <1> QED BY <1>1, <1>2, CalmUpdates

LEMMA InputIsQuiet ==
  ASSUME NEW p \in PageState, NEW i \in Item, NEW v \in Number
  PROVE  Quiet([p EXCEPT !.input[i] = v], p)
  <1> DEFINE input == [p.input EXCEPT ![i] = v]
  <1>1. input \in [Item -> Number]
    BY Fields, SMT
  <1>2. [p EXCEPT !.input[i] = v] = [p EXCEPT !.input = input]
    BY Zenon
  <1> HIDE DEF input
  <1> QED BY <1>1, <1>2, CalmUpdates

LEMMA LockIsQuiet ==
  ASSUME NEW p \in PageState, NEW i \in Item
  PROVE  Quiet([p EXCEPT !.available[i] = FALSE], p)
  <1> DEFINE available == [p.available EXCEPT ![i] = FALSE]
  <1>1. available \in [Item -> BOOLEAN]
    BY Fields, SMT
  <1>2. [p EXCEPT !.available[i] = FALSE] = [p EXCEPT !.available = available]
    BY Zenon
  <1> HIDE DEF available
  <1> QED BY <1>1, <1>2, CalmUpdates

LEMMA StopIsQuiet ==
  ASSUME NEW p \in PageState, NEW i \in Item, p.pending[i] = None
  PROVE  Quiet([p EXCEPT !.timer[i] = FALSE], p)
  <1>1. [p EXCEPT !.timer[i] = FALSE] = [p EXCEPT !.timer = [p.timer EXCEPT ![i] = FALSE]]
    BY Zenon
  <1> QED BY <1>1, CalmUpdates

(* A quiet page is well formed. *)
LEMMA QuietType ==
  ASSUME NEW p, NEW q, Quiet(q, p)
  PROVE  q \in PageState /\ Calmer(q, p) /\ q.revision = p.revision
  BY Zenon DEF Quiet, Calmer

(* Settling a card: its draft is dropped, its number and its message set. *)
LEMMA SettleIsQuiet ==
  ASSUME NEW p \in PageState, NEW i \in Item, NEW v \in Number, NEW s \in Status
  PROVE  Quiet([p EXCEPT !.pending[i] = None, !.input[i] = v,
                         !.lastAttempt[i] = None, !.status[i] = s], p)
  <1> DEFINE p1 == [p EXCEPT !.pending[i] = None]
             p2 == [p1 EXCEPT !.input[i] = v]
             p3 == [p2 EXCEPT !.lastAttempt[i] = None]
             p4 == [p3 EXCEPT !.status[i] = s]
  <1>1. Quiet(p1, p)
    BY DropIsQuiet
  <1>2. Quiet(p2, p1)
    <2> HIDE DEF p1
    <2> QED BY <1>1, QuietType, InputIsQuiet
  <1>3. Quiet(p3, p2)
    <2> HIDE DEF p2
    <2> QED BY <1>2, QuietType, AttemptIsQuiet, QuantityBounds
  <1>4. Quiet(p4, p3)
    <2> HIDE DEF p3
    <2> QED BY <1>3, QuietType, StatusIsQuiet
  <1>5. p4 = [p EXCEPT !.pending[i] = None, !.input[i] = v,
                       !.lastAttempt[i] = None, !.status[i] = s]
    BY Zenon
  <1>6. Quiet(p4, p)
    <2> HIDE DEF p1, p2, p3, p4
    <2> QED BY <1>1, <1>2, <1>3, <1>4, QuietTransitive
  <1> HIDE DEF p4
  <1> QED BY <1>5, <1>6

(* What the page is when an answer for card i arrives. *)
Waiting(p, i) ==
  /\ p \in PageState /\ i \in Item
  /\ p.call \in Call /\ Active(p) = i
  /\ Flagged(p) /\ Scheduled(p, {})
  /\ TablesOK

LEMMA SnapshotAfter ==
  ASSUME NEW p \in PageState, NEW q, Quiet(q, p), NEW ans \in AnswerType,
         NEW S \in SUBSET Item, TablesOK
  PROVE  /\ ApplySnapshot(q, ans, S) \in PageState
         /\ Calmer(ApplySnapshot(q, ans, S), p)
         /\ ApplySnapshot(q, ans, S).revision = ans.revision
  <1>1. q \in PageState /\ Calmer(q, p)
    BY QuietType
  <1>2. /\ Calmer(ApplySnapshot(q, ans, S), q)
        /\ ApplySnapshot(q, ans, S).revision = ans.revision
    BY <1>1, SnapshotIsCalmer DEF TablesOK
  <1>3. ApplySnapshot(q, ans, S) \in PageState
    BY <1>2, Zenon DEF Calmer
  <1> QED BY <1>1, <1>2, <1>3, CalmerTransitive

LEMMA PendingIdsType ==
  ASSUME NEW p \in PageState
  PROVE  PendingIds(p) \in SUBSET Item /\ Quiet(p, p)
  <1>1. PendingIds(p) \in SUBSET Item
    BY Fields, SMT DEF PendingIds
  <1>2. Quiet(p, p)
    BY Zenon DEF Quiet, Calmer
  <1> QED BY <1>1, <1>2

LEMMA DesiredType ==
  ASSUME NEW p, NEW i, Waiting(p, i)
  PROVE  Desired(p, i) \in Number
  <1>1. p.pending[i] \in Number
    BY Fields DEF Waiting
  <1>2. p.call.quantity \in Number
    BY QuantityBounds DEF Waiting, Call
  <1> QED BY <1>1, <1>2 DEF Desired

LEMMA SavedIsHandled ==
  ASSUME NEW p, NEW i, Waiting(p, i), NEW ans \in AnswerType
  PROVE  Handled(HandleSaved(p, i, ans), p, {p.revision, ans.revision})
  <1> DEFINE invalid == ParsedQuantity(p, i) = None
             S == PendingIds(p) \cup (IF invalid THEN {i} ELSE {})
             q == ApplySnapshot(p, ans, S)
             persisted == IF i \in items THEN selected[i] ELSE 0
             q1 == [q EXCEPT !.status[i] = "saving"]
             q2 == [q EXCEPT !.pending[i] = None, !.input[i] = persisted,
                             !.lastAttempt[i] = None, !.status[i] = "saved"]
             gone == BasketOnly /\ persisted = 0
             cards == IF gone THEN q2.cards \ {i} ELSE q2.cards
             q3 == [q2 EXCEPT !.cards = cards]
  <1> USE DEF Waiting
  <1>1. /\ p \in PageState /\ i \in Item /\ Flagged(p) /\ Scheduled(p, {})
        /\ Active(p) # NoItem
    BY NoItemAssumption
  <1>2. S \in SUBSET Item
    BY <1>1, PendingIdsType
  <1>3. q \in PageState /\ Calmer(q, p) /\ q.revision = ans.revision
    <2> HIDE DEF S
    <2> QED BY <1>1, <1>2, SnapshotAfter, PendingIdsType
  <1>4. persisted \in Number
    BY <1>1, QuantityBounds DEF TablesOK
  <1>5. Calmer(q1, p) /\ q1.revision = ans.revision
    <2> HIDE DEF q
    <2>1. Quiet(q1, q)
      BY <1>1, <1>3, StatusIsQuiet DEF Status
    <2> QED BY <1>3, <2>1, QuietCalmer
  <1>6. Quiet(q2, q)
    <2>1. "saved" \in Status
      BY DEF Status
    <2> HIDE DEF q, persisted
    <2> QED BY <1>1, <1>3, <1>4, <2>1, SettleIsQuiet, Zenon
  <1>7. Quiet(q3, q2)
    <2>1. q2 \in PageState
      BY <1>6, QuietType
    <2> HIDE DEF q2, gone
    <2>2. cards \in SUBSET Item
      BY <2>1, Fields
    <2> HIDE DEF cards
    <2> QED BY <2>1, <2>2, CalmUpdates
  <1>8. Calmer(q3, p) /\ q3.revision = ans.revision
    <2> HIDE DEF q, q2, q3
    <2> QED BY <1>3, <1>6, <1>7, QuietCalmer
  <1>9. CASE invalid
    <2>1. HandleSaved(p, i, ans) = q
      BY <1>9, Zenon DEF HandleSaved
    <2> HIDE DEF q
    <2> QED BY <1>1, <1>3, <2>1, CalmerIsHandled
  <1>10. CASE ~invalid /\ q.pending[i] \notin {None, persisted}
    <2>1. HandleSaved(p, i, ans) = Enqueue(q1, i)
      BY <1>10, Zenon DEF HandleSaved
    <2> HIDE DEF q1
    <2> QED BY <1>1, <1>5, <2>1, RequeueIsHandled
  <1>11. CASE ~invalid /\ q.pending[i] \in {None, persisted}
    <2>1. HandleSaved(p, i, ans) =
            [q EXCEPT !.pending[i] = None, !.input[i] = persisted,
                      !.lastAttempt[i] = None, !.status[i] = "saved",
                      !.cards = IF gone THEN @ \ {i} ELSE @]
      BY <1>11, Zenon DEF HandleSaved
    <2>2. HandleSaved(p, i, ans) = q3
      <3>1. q2.cards = q.cards
        <4> HIDE DEF q
        <4> QED BY <1>3, Zenon DEF PageState
      <3> HIDE DEF q, gone
      <3> QED BY <2>1, <3>1, Zenon
    <2> HIDE DEF q3
    <2> QED BY <1>1, <1>8, <2>2, CalmerIsHandled
  <1> QED BY <1>9, <1>10, <1>11

LEMMA LostIsHandled ==
  ASSUME NEW p, NEW i, Waiting(p, i)
  PROVE  Handled(HandleLost(p, i), p, {p.revision})
  <1> DEFINE q == [p EXCEPT !.pending[i] = None]
             r == OfferRetry(q, i, Desired(p, i))
  <1>1. p \in PageState /\ i \in Item /\ Flagged(p) /\ Scheduled(p, {})
    BY DEF Waiting
  <1>2. Quiet(q, p)
    BY <1>1, DropIsQuiet
  <1>3. Quiet(r, q)
    <2> HIDE DEF q
    <2> QED BY <1>1, <1>2, QuietType, DesiredType, OfferRetryIsQuiet
  <1>4. Calmer(r, p) /\ r.revision = p.revision
    <2> HIDE DEF q, r
    <2> QED BY <1>2, <1>3, QuietType, QuietTransitive
  <1>5. HandleLost(p, i) = r
    BY DEF HandleLost
  <1> HIDE DEF r
  <1> QED BY <1>1, <1>4, <1>5, CalmerIsHandled

LEMMA StaleIsHandled ==
  ASSUME NEW p, NEW i, Waiting(p, i), NEW ans \in AnswerType
  PROVE  Handled(HandleStale(p, i, ans), p, {p.revision, ans.revision})
  <1> DEFINE q == [p EXCEPT !.pending[i] = None]
             S == PendingIds(q) \cup {i}
             a == ApplySnapshot(q, ans, S)
             r == OfferRetry(a, i, Desired(p, i))
  <1>1. p \in PageState /\ i \in Item /\ Flagged(p) /\ Scheduled(p, {}) /\ TablesOK
    BY DEF Waiting
  <1>2. Quiet(q, p)
    BY <1>1, DropIsQuiet
  <1>3. S \in SUBSET Item
    <2> HIDE DEF q
    <2> QED BY <1>1, <1>2, QuietType, PendingIdsType
  <1>4. a \in PageState /\ Calmer(a, p) /\ a.revision = ans.revision
    <2> HIDE DEF q, S
    <2> QED BY <1>1, <1>2, <1>3, SnapshotAfter
  <1>5. Quiet(r, a)
    <2> HIDE DEF a
    <2> QED BY <1>1, <1>4, DesiredType, OfferRetryIsQuiet
  <1>6. Calmer(r, p) /\ r.revision = ans.revision
    <2> HIDE DEF a, r
    <2> QED BY <1>4, <1>5, QuietCalmer
  <1>7. HandleStale(p, i, ans) = r
    BY DEF HandleStale
  <1> HIDE DEF r
  <1> QED BY <1>1, <1>6, <1>7, CalmerIsHandled

LEMMA StockChangeIsHandled ==
  ASSUME NEW p, NEW i, Waiting(p, i), NEW ans \in AnswerType
  PROVE  Handled(HandleStockChange(p, i, ans), p, {p.revision, ans.revision})
  <1> DEFINE q == ApplySnapshot(p, ans, PendingIds(p))
             again == p.pending[i] # None /\ ParsedQuantity(q, i) # None
             q1 == [q EXCEPT !.status[i] = "saving"]
             q2 == [q EXCEPT !.pending[i] = None, !.input[i] = q.serverValue[i],
                             !.lastAttempt[i] = None, !.status[i] = "error"]
  <1> USE DEF Waiting
  <1>1. /\ p \in PageState /\ i \in Item /\ Flagged(p) /\ Scheduled(p, {})
        /\ Active(p) # NoItem
    BY NoItemAssumption
  <1>2. q \in PageState /\ Calmer(q, p) /\ q.revision = ans.revision
    BY <1>1, SnapshotAfter, PendingIdsType
  <1>3. Calmer(q1, p) /\ q1.revision = ans.revision
    <2> HIDE DEF q
    <2>1. Quiet(q1, q)
      BY <1>1, <1>2, StatusIsQuiet DEF Status
    <2> QED BY <1>2, <2>1, QuietCalmer
  <1>4. Calmer(q2, p) /\ q2.revision = ans.revision
    <2> HIDE DEF q
    <2>1. q.serverValue[i] \in Number
      BY <1>1, <1>2, Fields, QuantityBounds
    <2>2. "error" \in Status
      BY DEF Status
    <2>3. Quiet(q2, q)
      BY <1>1, <1>2, <2>1, <2>2, SettleIsQuiet, Zenon
    <2> HIDE DEF q2
    <2> QED BY <1>2, <2>3, QuietCalmer
  <1>5. CASE again
    <2>1. HandleStockChange(p, i, ans) = Enqueue(q1, i)
      BY <1>5, Zenon DEF HandleStockChange
    <2> HIDE DEF q1
    <2> QED BY <1>1, <1>3, <2>1, RequeueIsHandled
  <1>6. CASE ~again
    <2>1. HandleStockChange(p, i, ans) =
            [q EXCEPT !.pending[i] = None, !.lastAttempt[i] = None,
                      !.input[i] = q.serverValue[i], !.status[i] = "error"]
      BY <1>6, Zenon DEF HandleStockChange
    <2>2. HandleStockChange(p, i, ans) = q2
      <3> HIDE DEF q
      <3> QED BY <1>2, <2>1, Zenon DEF PageState
    <2> HIDE DEF q2
    <2> QED BY <1>1, <1>4, <2>2, CalmerIsHandled
  <1> QED BY <1>5, <1>6

LEMMA NotFoundIsHandled ==
  ASSUME NEW p, NEW i, Waiting(p, i), NEW ans \in AnswerType
  PROVE  Handled(HandleNotFound(p, i, ans), p, {p.revision, ans.revision})
  <1> DEFINE q == [p EXCEPT !.pending[i] = None]
             a == ApplySnapshot(q, ans, {})
             r == [a EXCEPT !.status[i] = "gone"]
  <1>1. p \in PageState /\ i \in Item /\ Flagged(p) /\ Scheduled(p, {}) /\ TablesOK
    BY DEF Waiting
  <1>2. Quiet(q, p)
    BY <1>1, DropIsQuiet
  <1>3. a \in PageState /\ Calmer(a, p) /\ a.revision = ans.revision
    <2> HIDE DEF q
    <2> QED BY <1>1, <1>2, SnapshotAfter
  <1>4. Calmer(r, p) /\ r.revision = ans.revision
    <2> HIDE DEF a
    <2>1. Quiet(r, a)
      BY <1>1, <1>3, StatusIsQuiet DEF Status
    <2> QED BY <1>3, <2>1, QuietCalmer
  <1>5. HandleNotFound(p, i, ans) = r
    BY DEF HandleNotFound
  <1> HIDE DEF r
  <1> QED BY <1>1, <1>4, <1>5, CalmerIsHandled

LEMMA UnavailableIsHandled ==
  ASSUME NEW p, NEW i, Waiting(p, i), NEW ans \in AnswerType
  PROVE  Handled(HandleUnavailable(p, i, ans), p, {p.revision, ans.revision})
  <1> DEFINE q1 == [p EXCEPT !.pending[i] = None]
             q2 == [q1 EXCEPT !.lastAttempt[i] = None]
             a == ApplySnapshot(q2, ans, {})
             a1 == [a EXCEPT !.available[i] = FALSE]
             a2 == [a1 EXCEPT !.timer[i] = FALSE]
             a3 == [a2 EXCEPT !.pending[i] = None]
             a4 == [a3 EXCEPT !.lastAttempt[i] = None]
             a5 == [a4 EXCEPT !.status[i] = "error"]
  <1>1. p \in PageState /\ i \in Item /\ Flagged(p) /\ Scheduled(p, {}) /\ TablesOK
    BY DEF Waiting
  <1>2. Quiet(q1, p) /\ q1.pending[i] = None
    BY <1>1, DropIsQuiet
  <1>3. Quiet(q2, q1)
    <2> HIDE DEF q1
    <2> QED BY <1>1, <1>2, QuietType, AttemptIsQuiet, QuantityBounds
  <1>4. Quiet(q2, p) /\ q2 \in PageState
    <2> HIDE DEF q1, q2
    <2> QED BY <1>2, <1>3, QuietTransitive, QuietType
  <1>5. a \in PageState /\ Calmer(a, p) /\ a.revision = ans.revision
    <2> HIDE DEF q2
    <2> QED BY <1>1, <1>4, SnapshotAfter
  <1>6. a.pending[i] = None
    <2> HIDE DEF q1, q2, a
    <2>1. Calmer(a, q2) /\ Calmer(q2, q1)
      <3> USE DEF a
      <3> QED BY <1>1, <1>3, <1>4, SnapshotAfter, PendingIdsType, QuietType
    <2> QED BY <1>1, <1>2, <2>1, Zenon DEF Calmer
  <1>7. Quiet(a1, a) /\ a1.pending[i] = None
    <2> HIDE DEF a
    <2>1. Quiet(a1, a)
      BY <1>1, <1>5, LockIsQuiet
    <2> HIDE DEF a1
    <2> QED BY <1>1, <1>6, <2>1, Zenon DEF Quiet, Calmer
  <1>8. Quiet(a2, a1)
    <2> HIDE DEF a1
    <2> QED BY <1>1, <1>7, QuietType, StopIsQuiet
  <1>9. Quiet(a3, a2)
    <2> HIDE DEF a2
    <2> QED BY <1>1, <1>8, QuietType, DropIsQuiet
  <1>10. Quiet(a4, a3)
    <2> HIDE DEF a3
    <2> QED BY <1>1, <1>9, QuietType, AttemptIsQuiet, QuantityBounds
  <1>11. Quiet(a5, a4)
    <2> HIDE DEF a4
    <2> QED BY <1>1, <1>10, QuietType, StatusIsQuiet DEF Status
  <1>12. Calmer(a5, p) /\ a5.revision = ans.revision
    <2> HIDE DEF a, a1, a2, a3, a4, a5
    <2>1. Quiet(a5, a)
      BY <1>7, <1>8, <1>9, <1>10, <1>11, QuietTransitive
    <2> QED BY <1>5, <2>1, QuietCalmer
  <1>13. HandleUnavailable(p, i, ans) = a5
    <2>1. q2 = [p EXCEPT !.pending[i] = None, !.lastAttempt[i] = None]
      BY Zenon
    <2>2. a5 = [a EXCEPT !.available[i] = FALSE, !.timer[i] = FALSE, !.pending[i] = None,
                         !.lastAttempt[i] = None, !.status[i] = "error"]
      <3> HIDE DEF a
      <3> QED BY Zenon
    <2> HIDE DEF q2, a5
    <2> QED BY <2>1, <2>2, Zenon DEF HandleUnavailable, a
  <1> HIDE DEF a5
  <1> QED BY <1>1, <1>12, <1>13, CalmerIsHandled

LEMMA AnswerIsHandled ==
  ASSUME NEW p, NEW i, Waiting(p, i), NEW ans \in AnswerType, NEW code \in Code
  PROVE  Handled(Handle(p, i, code, ans), p, {p.revision, ans.revision})
  <1>1. CASE code = "ok"
    BY <1>1, SavedIsHandled DEF Handle
  <1>2. CASE code \in {"stale_revision", "save_failed"}
    BY <1>2, StaleIsHandled DEF Handle
  <1>3. CASE code = "quantity_out_of_range"
    BY <1>3, StockChangeIsHandled DEF Handle
  <1>4. CASE code = "item_unavailable"
    BY <1>4, UnavailableIsHandled DEF Handle
  <1>5. CASE code = "item_not_found"
    BY <1>5, NotFoundIsHandled DEF Handle
  <1> QED BY <1>1, <1>2, <1>3, <1>4, <1>5 DEF Code

-----------------------------------------------------------------------------
(* The inductive invariant *)

(* What is known of a save that the server may still handle. *)
Outstanding(c) ==
  c # NoCall =>
    /\ c.revision <= revision
    /\ c.draft <= page.draft[c.item]
    /\ page.pending[c.item] # None => c.draft < page.draft[c.item]

(* A save that would be accepted now is newer than the last accepted one. *)
Fresh(c) == c # NoCall /\ c.revision = revision => accepted[c.item] < c.draft

DraftOrder ==
  /\ \A i \in Item :
       /\ accepted[i] <= page.draft[i] /\ page.draft[i] <= typed
       /\ page.pending[i] # None => accepted[i] < page.draft[i]
  /\ page.revision <= revision
  /\ Outstanding(page.call) /\ Outstanding(orphan)
  /\ reply = NoReply => Fresh(page.call)
  /\ Fresh(orphan)
  /\ reply # NoReply => page.call # NoCall /\ (reply.read => reply.revision <= revision)

IInv == TypeOK /\ Ordered(page) /\ DraftOrder

(* The request of page q is the draft of card j, which has just left it. *)
Sent(q, j) ==
  /\ q.call \in Call /\ q.call.item = j
  /\ q.call.revision = q.revision /\ q.call.draft = q.draft[j]
  /\ q.pending[j] = None

LEMMA AdvancedSends ==
  ASSUME NEW p \in PageState, NEW q, Advanced(q, p)
  PROVE  \/ q.call = p.call /\ q.pending = p.pending
         \/ \E j \in Item :
              /\ Active(p) = NoItem /\ p.pending[j] # None /\ Sent(q, j)
              /\ \A k \in Item : q.pending[k] # None => p.pending[k] # None
  <1> SUFFICES ASSUME NEW j \in Item,
                      Active(p) = NoItem, p.pending[j] # None,
                      q.pending = [p.pending EXCEPT ![j] = None],
                      q.call = [item |-> j, quantity |-> p.pending[j],
                                revision |-> p.revision, draft |-> p.draft[j],
                                edits |-> p.draftEdits[j]]
               PROVE  /\ Sent(q, j)
                      /\ \A k \in Item : q.pending[k] # None => p.pending[k] # None
    BY DEF Advanced
  <1>1. /\ p.pending \in [Item -> Number] /\ p.revision \in Nat /\ p.draft \in [Item -> Nat]
        /\ p.draftEdits \in [Item -> Nat]
    BY Fields
  <1>2. q.call \in Call
    <2>1. p.pending[j] \in Quantity
      BY <1>1, QuantityBounds
    <2> QED BY <1>1, <2>1, SMT DEF Call
  <1>3. q.pending[j] = None /\ \A k \in Item : q.pending[k] # None => p.pending[k] # None
    BY <1>1, SMT
  <1>4. q.call.item = j /\ q.call.revision = p.revision /\ q.call.draft = p.draft[j]
    BY SMT
  <1>5. q.revision = p.revision /\ q.draft = p.draft
    BY DEF Advanced
  <1> QED BY <1>2, <1>3, <1>4, <1>5 DEF Sent

(* A step of the page keeps the order of the drafts. *)
PageStep ==
  /\ page' \in PageState /\ Ordered(page') /\ page'.revision <= revision
  /\ \A j \in Item :
       \/ page'.draft[j] = page.draft[j] /\ (page'.pending[j] # None => page.pending[j] # None)
       \/ page'.draft[j] = typed + 1 /\ typed' = typed + 1
  /\ \/ page'.call = page.call /\ reply' = reply
     \/ page'.call = NoCall /\ reply' = NoReply
     \/ /\ reply' = NoReply
        /\ \E j \in Item :
             Sent(page', j) /\ (page'.draft[j] = page.draft[j] => page.pending[j] # None)
  /\ typed' \in {typed, typed + 1}
  /\ orphan' = orphan \/ (orphan' = page.call /\ reply = NoReply)
  /\ UNCHANGED <<revision, accepted>>

LEMMA CallFields ==
  ASSUME NEW c \in Call
  PROVE  c.item \in Item /\ c.revision \in Nat /\ c.draft \in Nat /\ c # NoCall
  <1>1. c.item \in Item /\ c.revision \in Nat /\ c.draft \in Nat
    BY SMT DEF Call
  <1>2. NoCall.item = NoItem
    BY SMT DEF NoCall
  <1> QED BY <1>1, <1>2, NoItemAssumption

LEMMA PageStepKeepsOrder ==
  ASSUME TypeOK, DraftOrder, PageStep
  PROVE  DraftOrder'
  <1>1. /\ accepted \in [Item -> Nat] /\ typed \in Nat /\ revision \in Nat
        /\ page.draft \in [Item -> Nat] /\ page'.draft \in [Item -> Nat]
        /\ page.call \in Call \cup {NoCall} /\ orphan \in Call \cup {NoCall}
    BY Fields DEF TypeOK, PageStep
  <1>2. accepted' = accepted /\ revision' = revision /\ typed' \in Nat /\ typed <= typed'
    BY <1>1, SMT DEF PageStep
  <1>3. ASSUME NEW i \in Item
        PROVE  /\ accepted[i] <= page'.draft[i] /\ page'.draft[i] <= typed'
               /\ page'.pending[i] # None => accepted[i] < page'.draft[i]
               /\ page.draft[i] <= page'.draft[i]
               /\ page'.draft[i] # page.draft[i] => page.draft[i] < page'.draft[i]
    <2>1. /\ accepted[i] <= page.draft[i] /\ page.draft[i] <= typed
          /\ page.pending[i] # None => accepted[i] < page.draft[i]
      BY DEF DraftOrder
    <2>2. \/ page'.draft[i] = page.draft[i] /\ (page'.pending[i] # None => page.pending[i] # None)
          \/ page'.draft[i] = typed + 1 /\ typed' = typed + 1
      BY DEF PageStep
    <2>3. accepted[i] \in Nat /\ page.draft[i] \in Nat /\ page'.draft[i] \in Nat
      BY <1>1
    <2> QED BY <1>1, <1>2, <2>1, <2>2, <2>3
  <1>4. page'.revision <= revision'
    BY <1>2 DEF PageStep
  <1>5. ASSUME NEW c \in Call, Outstanding(c)
        PROVE  /\ c.revision <= revision' /\ c.draft <= page'.draft[c.item]
               /\ page'.pending[c.item] # None => c.draft < page'.draft[c.item]
    <2>1. c.item \in Item /\ c.draft \in Nat /\ c # NoCall
      BY CallFields
    <2>2. /\ c.revision <= revision /\ c.draft <= page.draft[c.item]
          /\ page.pending[c.item] # None => c.draft < page.draft[c.item]
      BY <1>5, <2>1 DEF Outstanding
    <2>3. /\ page.draft[c.item] <= page'.draft[c.item]
          /\ page'.draft[c.item] # page.draft[c.item] => page.draft[c.item] < page'.draft[c.item]
          /\ page'.draft[c.item] = page.draft[c.item] =>
               (page'.pending[c.item] # None => page.pending[c.item] # None)
      <3>1. \/ page'.draft[c.item] = page.draft[c.item]
               /\ (page'.pending[c.item] # None => page.pending[c.item] # None)
            \/ page'.draft[c.item] = typed + 1 /\ typed' = typed + 1
        BY <2>1 DEF PageStep
      <3>2. page.draft[c.item] <= typed
        BY <2>1 DEF DraftOrder
      <3> QED BY <1>1, <1>3, <2>1, <3>1, <3>2
    <2>4. page.draft[c.item] \in Nat /\ page'.draft[c.item] \in Nat
      BY <1>1, <2>1
    <2> QED BY <1>2, <2>1, <2>2, <2>3, <2>4
  <1>6. ASSUME NEW j \in Item, Sent(page', j),
               page'.draft[j] = page.draft[j] => page.pending[j] # None
        PROVE  Outstanding(page.call)' /\ Fresh(page.call)'
    <2>1. /\ page'.call \in Call /\ page'.call.item = j
          /\ page'.call.revision = page'.revision /\ page'.call.draft = page'.draft[j]
          /\ page'.pending[j] = None
      BY <1>6 DEF Sent
    <2>2. Outstanding(page.call)'
      BY <1>1, <1>4, <2>1 DEF Outstanding
    <2>3. accepted[j] < page'.draft[j]
      <3>1. /\ accepted[j] <= page.draft[j]
            /\ page.pending[j] # None => accepted[j] < page.draft[j]
        BY DEF DraftOrder
      <3>2. /\ page.draft[j] <= page'.draft[j]
            /\ page'.draft[j] # page.draft[j] => page.draft[j] < page'.draft[j]
        BY <1>3
      <3>3. accepted[j] \in Nat /\ page.draft[j] \in Nat /\ page'.draft[j] \in Nat
        BY <1>1
      <3> QED BY <1>6, <3>1, <3>2, <3>3
    <2> QED BY <1>2, <2>1, <2>2, <2>3 DEF Fresh
  <1>7. Outstanding(page.call)'
    <2>1. CASE page'.call = page.call
      <3>1. CASE page.call \in Call
        <4>1. Outstanding(page.call)
          BY DEF DraftOrder
        <4> QED BY <1>5, <2>1, <3>1, <4>1 DEF Outstanding
      <3>2. CASE page.call = NoCall
        BY <2>1, <3>2 DEF Outstanding
      <3> QED BY <1>1, <3>1, <3>2
    <2>2. CASE page'.call = NoCall
      BY <2>2 DEF Outstanding
    <2> QED BY <1>6, <2>1, <2>2 DEF PageStep
  <1>8. Outstanding(orphan)'
    <2>1. ASSUME orphan' \in Call
          PROVE  /\ orphan'.revision <= revision'
                 /\ orphan'.draft <= page'.draft[orphan'.item]
                 /\ page'.pending[orphan'.item] # None =>
                      orphan'.draft < page'.draft[orphan'.item]
      <3>1. Outstanding(orphan) /\ Outstanding(page.call)
        BY DEF DraftOrder
      <3>2. orphan' = orphan \/ orphan' = page.call
        BY DEF PageStep
      <3> QED BY <1>5, <2>1, <3>1, <3>2
    <2>2. orphan' \in Call \cup {NoCall}
      BY <1>1 DEF PageStep
    <2> QED BY <2>1, <2>2 DEF Outstanding
  <1>9. (reply = NoReply => Fresh(page.call))'
    <2>1. CASE page'.call = page.call /\ reply' = reply
      BY <1>2, <2>1 DEF DraftOrder, Fresh
    <2>2. CASE page'.call = NoCall
      BY <2>2 DEF Fresh
    <2> QED BY <1>6, <2>1, <2>2 DEF PageStep
  <1>10. Fresh(orphan)'
    BY <1>2 DEF DraftOrder, PageStep, Fresh
  <1>11. (reply # NoReply => page.call # NoCall /\ (reply.read => reply.revision <= revision))'
    BY <1>2 DEF DraftOrder, PageStep
  <1> QED BY <1>2, <1>3, <1>4, <1>7, <1>8, <1>9, <1>10, <1>11 DEF DraftOrder

(* The page q is p with a new draft of card i; nothing has been sent yet. *)
Drafted(q, p, i) ==
  /\ q \in PageState
  /\ q.queue = p.queue /\ q.queued = p.queued /\ q.call = p.call
  /\ q.revision = p.revision
  /\ q.draft = [p.draft EXCEPT ![i] = typed + 1]
  /\ \A j \in Item \ {i} : q.pending[j] = p.pending[j] /\ q.timer[j] = p.timer[j]

LEMMA DraftedKeeps ==
  ASSUME NEW p, NEW q, NEW i \in Item, Drafted(q, p, i), Flagged(p), Scheduled(p, {})
  PROVE  Flagged(q) /\ Scheduled(q, {i})
  <1>1. /\ q.queue = p.queue /\ q.queued = p.queued
        /\ \A j \in Item \ {i} : q.pending[j] = p.pending[j] /\ q.timer[j] = p.timer[j]
    BY DEF Drafted
  <1>2. Flagged(q)
    <2> SUFFICES ASSUME NEW j \in Item
                 PROVE  q.queued[j] <=> \E k \in 1..Len(q.queue) : q.queue[k] = j
      BY Zenon DEF Flagged
    <2> QED BY <1>1 DEF Flagged
  <1>3. Scheduled(q, {i})
    <2> SUFFICES ASSUME NEW j \in Item \ {i}, q.pending[j] # None
                 PROVE  q.timer[j] \/ q.queued[j]
      BY DEF Scheduled
    <2> QED BY <1>1, SMT DEF Scheduled
  <1> QED BY <1>2, <1>3

(* An event stops the timer of its card and numbers the new draft. *)
LEMMA NewDraftIsDrafted ==
  ASSUME NEW p \in PageState, NEW i \in Item, typed \in Nat
  PROVE  Drafted([p EXCEPT !.draft[i] = typed + 1, !.draftEdits[i] = p.shownEdits[i]], p, i)
  <1> DEFINE draft == [p.draft EXCEPT ![i] = typed + 1]
             draftEdits == [p.draftEdits EXCEPT ![i] = p.shownEdits[i]]
             p1 == [p EXCEPT !.draft = draft]
             p2 == [p1 EXCEPT !.draftEdits = draftEdits]
  <1>1. draft \in [Item -> Nat] /\ draftEdits \in [Item -> Nat]
    BY Fields, SMT
  <1>2. p1 \in PageState
    <2> HIDE DEF draft
    <2> QED BY <1>1, FieldUpdates, Zenon
  <1>3. p2 \in PageState
    <2> HIDE DEF p1, draftEdits
    <2> QED BY <1>1, <1>2, FieldUpdates, Zenon
  <1>4. /\ p2.queue = p.queue /\ p2.queued = p.queued /\ p2.call = p.call
        /\ p2.revision = p.revision /\ p2.draft = draft /\ p2.pending = p.pending
        /\ p2.timer = p.timer
    BY Zenon DEF PageState
  <1>5. Drafted(p2, p, i)
    <2> HIDE DEF p2
    <2> QED BY <1>3, <1>4, Zenon DEF Drafted
  <1>6. p2 = [p EXCEPT !.draft[i] = typed + 1, !.draftEdits[i] = p.shownEdits[i]]
    BY Zenon
  <1> HIDE DEF p2
  <1> QED BY <1>5, <1>6

(* The other fields of the card may take any value. *)
LEMMA DraftedUpdates ==
  ASSUME NEW p \in PageState, NEW i \in Item, NEW d, Drafted(d, p, i)
  PROVE  /\ \A n \in Number : Drafted([d EXCEPT !.input[i] = n], p, i)
         /\ \A n \in Number : Drafted([d EXCEPT !.lastAttempt[i] = n], p, i)
         /\ \A s \in Status : Drafted([d EXCEPT !.status[i] = s], p, i)
         /\ \A n \in Number : /\ Drafted([d EXCEPT !.pending[i] = n], p, i)
                             /\ [d EXCEPT !.pending[i] = n].pending[i] = n
         /\ \A t \in BOOLEAN : /\ Drafted([d EXCEPT !.timer[i] = t], p, i)
                              /\ [d EXCEPT !.timer[i] = t].timer[i] = t
  <1>1. d \in PageState
    BY DEF Drafted
  <1>2. ASSUME NEW q, Quiet(q, d), q.timer = d.timer, q.pending = d.pending
        PROVE  Drafted(q, p, i)
    BY <1>2, Zenon DEF Quiet, Calmer, Drafted
  <1>3. ASSUME NEW n \in Number
        PROVE  Drafted([d EXCEPT !.input[i] = n], p, i)
    <2> DEFINE q == [d EXCEPT !.input[i] = n]
    <2>1. Quiet(q, d)
      BY <1>1, InputIsQuiet
    <2>2. q.timer = d.timer /\ q.pending = d.pending
      BY <1>1, Zenon DEF PageState
    <2> HIDE DEF q
    <2>3. Drafted(q, p, i)
      BY <1>2, <2>1, <2>2
    <2> QED BY <2>3 DEF q
  <1>4. ASSUME NEW n \in Number
        PROVE  Drafted([d EXCEPT !.lastAttempt[i] = n], p, i)
    <2> DEFINE q == [d EXCEPT !.lastAttempt[i] = n]
    <2>1. Quiet(q, d)
      BY <1>1, AttemptIsQuiet
    <2>2. q.timer = d.timer /\ q.pending = d.pending
      BY <1>1, Zenon DEF PageState
    <2> HIDE DEF q
    <2>3. Drafted(q, p, i)
      BY <1>2, <2>1, <2>2
    <2> QED BY <2>3 DEF q
  <1>5. ASSUME NEW s \in Status
        PROVE  Drafted([d EXCEPT !.status[i] = s], p, i)
    <2> DEFINE q == [d EXCEPT !.status[i] = s]
    <2>1. Quiet(q, d)
      BY <1>1, StatusIsQuiet
    <2>2. q.timer = d.timer /\ q.pending = d.pending
      BY <1>1, Zenon DEF PageState
    <2> HIDE DEF q
    <2>3. Drafted(q, p, i)
      BY <1>2, <2>1, <2>2
    <2> QED BY <2>3 DEF q
  <1>6. ASSUME NEW n \in Number
        PROVE  /\ Drafted([d EXCEPT !.pending[i] = n], p, i)
               /\ [d EXCEPT !.pending[i] = n].pending[i] = n
    <2> DEFINE pending == [d.pending EXCEPT ![i] = n]
               q == [d EXCEPT !.pending = pending]
    <2>1. /\ pending \in [Item -> Number] /\ pending[i] = n
          /\ \A j \in Item \ {i} : pending[j] = d.pending[j]
      BY <1>1, Fields, SMT
    <2>2. q \in PageState
      <3> HIDE DEF pending
      <3> QED BY <1>1, <2>1, FieldUpdates, Zenon
    <2>3. /\ q.queue = d.queue /\ q.queued = d.queued /\ q.call = d.call
          /\ q.revision = d.revision /\ q.draft = d.draft /\ q.pending = pending
          /\ q.timer = d.timer
      BY <1>1, Zenon DEF PageState
    <2>4. [d EXCEPT !.pending[i] = n] = q
      BY Zenon
    <2> HIDE DEF q, pending
    <2>5. Drafted(q, p, i) /\ q.pending[i] = n
      BY <2>1, <2>2, <2>3, Zenon DEF Drafted
    <2> QED BY <2>4, <2>5
  <1>7. ASSUME NEW t \in BOOLEAN
        PROVE  /\ Drafted([d EXCEPT !.timer[i] = t], p, i)
               /\ [d EXCEPT !.timer[i] = t].timer[i] = t
    <2> DEFINE timer == [d.timer EXCEPT ![i] = t]
               q == [d EXCEPT !.timer = timer]
    <2>1. /\ timer \in [Item -> BOOLEAN] /\ timer[i] = t
          /\ \A j \in Item \ {i} : timer[j] = d.timer[j]
      BY <1>1, Fields, SMT
    <2>2. q \in PageState
      <3> HIDE DEF timer
      <3> QED BY <1>1, <2>1, FieldUpdates, Zenon
    <2>3. /\ q.queue = d.queue /\ q.queued = d.queued /\ q.call = d.call
          /\ q.revision = d.revision /\ q.draft = d.draft /\ q.pending = d.pending
          /\ q.timer = timer
      BY <1>1, Zenon DEF PageState
    <2>4. [d EXCEPT !.timer[i] = t] = q
      BY Zenon
    <2> HIDE DEF q, timer
    <2>5. Drafted(q, p, i) /\ q.timer[i] = t
      BY <2>1, <2>2, <2>3, Zenon DEF Drafted
    <2> QED BY <2>4, <2>5
  <1> QED BY <1>3, <1>4, <1>5, <1>6, <1>7

(* The outcome q of an event on page p that drafts card i. *)
Typed(q, p, i) ==
  \E d : Drafted(d, p, i) /\ Advanced(q, d) /\ Ordered(q)

(* A drafted page whose draft is queued. *)
LEMMA EnqueueTyped ==
  ASSUME NEW p \in PageState, NEW d, NEW i \in Item, Drafted(d, p, i), Ordered(p)
  PROVE  Typed(Enqueue(d, i), p, i)
  <1>1. d \in PageState /\ Flagged(d) /\ Scheduled(d, {i})
    BY DraftedKeeps DEF Ordered, Drafted
  <1>2. Advanced(Enqueue(d, i), d) /\ Ordered(Enqueue(d, i))
    BY <1>1, EnqueueIsSound
  <1> QED BY <1>2 DEF Typed

(* A drafted page whose draft waits for its timer, or was not a number. *)
LEMMA WaitTyped ==
  ASSUME NEW p \in PageState, NEW d, NEW i \in Item, Drafted(d, p, i), Ordered(p),
         d.pending[i] # None => d.timer[i]
  PROVE  Typed(d, p, i)
  <1>1. d \in PageState /\ Flagged(d) /\ Scheduled(d, {i})
    BY DraftedKeeps DEF Ordered, Drafted
  <1>2. Scheduled(d, {})
    BY <1>1 DEF Scheduled
  <1>3. Drained(d)
    BY DEF Drained, Ordered, Drafted
  <1>4. Advanced(d, d)
    BY <1>1 DEF Advanced
  <1> QED BY <1>1, <1>2, <1>3, <1>4 DEF Typed, Ordered

(* What schedule does with the value that was typed: first the input, *)
LEMMA ScheduleTypes ==
  ASSUME NEW p \in PageState, NEW i \in Item, NEW v \in Number, typed \in Nat
  PROVE  LET q == [p EXCEPT !.input[i] = v, !.timer[i] = FALSE,
                            !.draft[i] = typed + 1, !.draftEdits[i] = p.shownEdits[i]]
         IN  Drafted(q, p, i) /\ q \in PageState
  <1> DEFINE q == [p EXCEPT !.input[i] = v, !.timer[i] = FALSE,
                            !.draft[i] = typed + 1, !.draftEdits[i] = p.shownEdits[i]]
             d0 == [p EXCEPT !.draft[i] = typed + 1, !.draftEdits[i] = p.shownEdits[i]]
             d1 == [d0 EXCEPT !.input[i] = v]
             d2 == [d1 EXCEPT !.timer[i] = FALSE]
  <1>1. Drafted(d0, p, i)
    BY NewDraftIsDrafted, Zenon
  <1>2. Drafted(d1, p, i)
    <2> HIDE DEF d0
    <2> QED BY <1>1, DraftedUpdates
  <1>3. Drafted(d2, p, i)
    <2> HIDE DEF d1
    <2> QED BY <1>2, DraftedUpdates
  <1>4. d2 = q
    BY Zenon DEF PageState
  <1> HIDE DEF q, d2
  <1>5. Drafted(q, p, i) /\ q \in PageState
    BY <1>3, <1>4 DEF Drafted
  <1> QED BY <1>5 DEF q

(* then, for a number, the draft of a card that says "Saving...". *)
LEMMA ScheduleDrafts ==
  ASSUME NEW p \in PageState, NEW i \in Item, NEW n \in Number,
         NEW q \in PageState, Drafted(q, p, i)
  PROVE  Drafted([q EXCEPT !.pending[i] = n, !.lastAttempt[i] = n,
                           !.status[i] = "saving"], p, i)
  <1> DEFINE f1 == [q EXCEPT !.lastAttempt[i] = n]
             f2 == [f1 EXCEPT !.status[i] = "saving"]
             f3 == [f2 EXCEPT !.pending[i] = n]
             drafted == [q EXCEPT !.pending[i] = n, !.lastAttempt[i] = n,
                                  !.status[i] = "saving"]
  <1>1. "saving" \in Status
    BY DEF Status
  <1>2. Drafted(f1, p, i)
    BY DraftedUpdates, Zenon
  <1>3. Drafted(f2, p, i)
    <2> HIDE DEF f1
    <2> QED BY <1>1, <1>2, DraftedUpdates, Zenon
  <1>4. Drafted(f3, p, i)
    <2> HIDE DEF f2
    <2> QED BY <1>3, DraftedUpdates, Zenon
  <1>5. f3 = drafted
    BY Zenon DEF PageState
  <1> HIDE DEF f3, drafted
  <1>6. Drafted(drafted, p, i)
    BY <1>4, <1>5
  <1> QED BY <1>6 DEF drafted

LEMMA ScheduleIsTyped ==
  ASSUME NEW p \in PageState, NEW i \in Item, NEW v \in Number,
         NEW immediate \in BOOLEAN, typed \in Nat, Ordered(p)
  PROVE  Typed(Schedule(p, i, v, immediate), p, i)
  <1> DEFINE q == [p EXCEPT !.input[i] = v, !.timer[i] = FALSE,
                            !.draft[i] = typed + 1, !.draftEdits[i] = p.shownEdits[i]]
             n == ParsedQuantity(q, i)
             e1 == [q EXCEPT !.pending[i] = None]
             e2 == [e1 EXCEPT !.status[i] = "error"]
             drafted == [q EXCEPT !.pending[i] = n, !.lastAttempt[i] = n,
                                  !.status[i] = "saving"]
             timed == [drafted EXCEPT !.timer[i] = TRUE]
  <1>1. "error" \in Status /\ "saving" \in Status /\ None \in Number
    BY QuantityBounds DEF Status
  <1>2. Drafted(q, p, i) /\ q \in PageState
    BY <1>1, ScheduleTypes, Zenon
  <1>3. n \in Number
    <2> HIDE DEF q
    <2>1. q.input[i] \in Number
      BY <1>2, Fields
    <2> QED BY <1>1, <2>1 DEF ParsedQuantity
  <1>4. CASE n = None
    <2>1. Schedule(p, i, v, immediate) = e2
      BY <1>4, Zenon DEF Schedule
    <2> HIDE DEF q
    <2>2. Drafted(e1, p, i) /\ e1.pending[i] = None
      <3>1. Drafted(e1, p, i)
        BY <1>1, <1>2, DraftedUpdates, Zenon
      <3>2. e1.pending[i] = None
        BY <1>2, DropIsQuiet, Zenon
      <3> QED BY <3>1, <3>2
    <2>3. Drafted(e2, p, i)
      <3> HIDE DEF e1
      <3> QED BY <1>1, <2>2, DraftedUpdates, Zenon
    <2>4. e2.pending[i] = None
      <3>1. e2.pending = e1.pending
        <4>1. e1 \in PageState
          BY <2>2 DEF Drafted
        <4> HIDE DEF e1
        <4> QED BY <4>1, Zenon DEF PageState
      <3> HIDE DEF e1, e2
      <3> QED BY <2>2, <3>1
    <2> HIDE DEF e2
    <2>5. Typed(e2, p, i)
      BY <2>3, <2>4, WaitTyped
    <2> QED BY <2>1, <2>5
  <1>5. Drafted(drafted, p, i)
    <2> HIDE DEF q, n
    <2> QED BY <1>2, <1>3, ScheduleDrafts, Zenon
  <1>6. CASE n # None /\ immediate
    <2>1. Schedule(p, i, v, immediate) = Enqueue(drafted, i)
      BY <1>6, Zenon DEF Schedule
    <2> HIDE DEF drafted
    <2>2. Typed(Enqueue(drafted, i), p, i)
      BY <1>5, EnqueueTyped
    <2> QED BY <2>1, <2>2
  <1>7. CASE n # None /\ ~immediate
    <2>1. Schedule(p, i, v, immediate) = timed
      BY <1>7, Zenon DEF Schedule
    <2> HIDE DEF drafted
    <2>2. Drafted(timed, p, i) /\ timed.timer[i] = TRUE
      BY <1>5, DraftedUpdates, Zenon
    <2> HIDE DEF timed
    <2>3. Typed(timed, p, i)
      BY <2>2, WaitTyped
    <2> QED BY <2>1, <2>3
  <1> QED BY <1>4, <1>6, <1>7

(* The draft that Retry makes of the last attempt. *)
LEMMA RetryDrafts ==
  ASSUME NEW p \in PageState, NEW i \in Item, NEW v \in Number, typed \in Nat
  PROVE  Drafted([p EXCEPT !.input[i] = v, !.pending[i] = v, !.status[i] = "saving",
                           !.draft[i] = typed + 1, !.draftEdits[i] = p.shownEdits[i]], p, i)
  <1> DEFINE d0 == [p EXCEPT !.draft[i] = typed + 1, !.draftEdits[i] = p.shownEdits[i]]
             d1 == [d0 EXCEPT !.input[i] = v]
             d2 == [d1 EXCEPT !.pending[i] = v]
             d3 == [d2 EXCEPT !.status[i] = "saving"]
             d == [p EXCEPT !.input[i] = v, !.pending[i] = v,
                            !.status[i] = "saving", !.draft[i] = typed + 1,
                            !.draftEdits[i] = p.shownEdits[i]]
  <1>1. "saving" \in Status
    BY DEF Status
  <1>2. Drafted(d0, p, i)
    BY NewDraftIsDrafted, Zenon
  <1>3. Drafted(d1, p, i)
    <2> HIDE DEF d0
    <2> QED BY <1>2, DraftedUpdates, Zenon
  <1>4. Drafted(d2, p, i)
    <2> HIDE DEF d1
    <2> QED BY <1>3, DraftedUpdates, Zenon
  <1>5. Drafted(d3, p, i)
    <2> HIDE DEF d2
    <2> QED BY <1>1, <1>4, DraftedUpdates, Zenon
  <1>6. d3 = d
    BY Zenon DEF PageState
  <1> HIDE DEF d, d3
  <1>7. Drafted(d, p, i)
    BY <1>5, <1>6
  <1> QED BY <1>7 DEF d

LEMMA RetryIsTyped ==
  ASSUME NEW p \in PageState, NEW i \in Item, typed \in Nat, Ordered(p)
  PROVE  Typed(RetrySave(p, i), p, i)
  <1> DEFINE v == p.lastAttempt[i]
             d == [p EXCEPT !.input[i] = v, !.pending[i] = v,
                            !.status[i] = "saving", !.draft[i] = typed + 1,
                            !.draftEdits[i] = p.shownEdits[i]]
  <1>1. v \in Number
    BY Fields
  <1>2. RetrySave(p, i) = Enqueue(d, i)
    BY Zenon DEF RetrySave
  <1>3. Drafted(d, p, i)
    <2> HIDE DEF v
    <2> QED BY <1>1, RetryDrafts, Zenon
  <1> HIDE DEF d
  <1> QED BY <1>2, <1>3, EnqueueTyped

-----------------------------------------------------------------------------
(* The steps of the page *)

(* The variables besides the page have their types. *)
TablesType ==
  /\ items \subseteq Item /\ revision \in Nat
  /\ selected \in [Item -> Quantity] /\ stock \in [Item -> Quantity]
  /\ visible \in [Item -> BOOLEAN]
  /\ changes \in Nat /\ edits \in [Item -> Nat] /\ accepted \in [Item -> Nat]

LEMMA EventStep ==
  ASSUME IInv, NEW i \in Item, Typed(page', page, i),
         typed' = typed + 1,
         UNCHANGED <<tables, reply, orphan, changes, edits, accepted>>
  PROVE  IInv'
  <1>1. /\ page \in PageState /\ typed \in Nat /\ Ordered(page) /\ TypeOK /\ DraftOrder
    BY DEF IInv, TypeOK
  <1>2. PICK d : Drafted(d, page, i) /\ Advanced(page', d) /\ Ordered(page')
    BY DEF Typed
  <1>3. /\ d \in PageState /\ d.call = page.call /\ d.revision = page.revision
        /\ d.draft = [page.draft EXCEPT ![i] = typed + 1]
        /\ \A j \in Item \ {i} : d.pending[j] = page.pending[j]
    BY <1>2 DEF Drafted
  <1>4. page' \in PageState /\ page'.draft = d.draft /\ page'.revision = d.revision
    BY <1>2 DEF Advanced
  <1>5. \/ page'.call = d.call /\ page'.pending = d.pending
        \/ \E j \in Item :
             /\ Active(d) = NoItem /\ d.pending[j] # None /\ Sent(page', j)
             /\ \A k \in Item : page'.pending[k] # None => d.pending[k] # None
    BY <1>2, <1>3, AdvancedSends
  <1>6. /\ d.draft[i] = typed + 1
        /\ \A j \in Item \ {i} : d.draft[j] = page.draft[j]
        /\ page.draft[i] # typed + 1
    <2>1. page.draft \in [Item -> Nat] /\ page.draft[i] <= typed
      BY <1>1, Fields DEF DraftOrder
    <2> QED BY <1>1, <1>3, <2>1, SMT
  <1>7. \A k \in Item : page'.pending[k] # None => d.pending[k] # None
    BY <1>5
  <1>8. ASSUME NEW j \in Item
        PROVE  \/ page'.draft[j] = page.draft[j]
                  /\ (page'.pending[j] # None => page.pending[j] # None)
               \/ page'.draft[j] = typed + 1 /\ typed' = typed + 1
    BY <1>3, <1>4, <1>6, <1>7
  <1>9. \/ page'.call = page.call /\ reply' = reply
        \/ /\ reply' = NoReply
           /\ \E j \in Item :
                Sent(page', j) /\ (page'.draft[j] = page.draft[j] => page.pending[j] # None)
    <2>1. CASE page'.call = d.call
      BY <1>3, <2>1
    <2>2. ASSUME NEW j \in Item, Active(d) = NoItem, d.pending[j] # None, Sent(page', j)
          PROVE  /\ reply' = NoReply
                 /\ page'.draft[j] = page.draft[j] => page.pending[j] # None
      <3>1. page.call = NoCall
        <4>1. page.call \in Call \cup {NoCall}
          BY <1>1, Fields
        <4> QED BY <1>3, <2>2, <4>1, CallFields, NoItemAssumption DEF Active
      <3>2. reply = NoReply
        BY <1>1, <3>1 DEF DraftOrder
      <3>3. page'.draft[j] = page.draft[j] => page.pending[j] # None
        BY <1>3, <1>4, <1>6, <2>2
      <3> QED BY <3>2, <3>3
    <2> QED BY <1>5, <2>1, <2>2
  <1>10. page'.revision <= revision
    BY <1>1, <1>3, <1>4 DEF DraftOrder
  <1>11. PageStep
    BY <1>2, <1>4, <1>8, <1>9, <1>10 DEF PageStep, tables
  <1>12. DraftOrder'
    BY <1>1, <1>11, PageStepKeepsOrder
  <1>13. TypeOK'
    BY <1>1, <1>4 DEF TypeOK, tables
  <1> QED BY <1>2, <1>12, <1>13 DEF IInv

LEMMA TypeStep ==
  ASSUME IInv, NEW i \in Item, NEW v \in Number, NEW immediate \in BOOLEAN,
         Type(i, v, immediate)
  PROVE  IInv'
  <1>1. page \in PageState /\ typed \in Nat /\ Ordered(page)
    BY DEF IInv, TypeOK
  <1>2. Typed(page', page, i)
    BY <1>1, ScheduleIsTyped DEF Type
  <1> QED BY <1>2, EventStep DEF Type

LEMMA RetryStep ==
  ASSUME IInv, NEW i \in Item, ClickRetry(i)
  PROVE  IInv'
  <1>1. page \in PageState /\ typed \in Nat /\ Ordered(page)
    BY DEF IInv, TypeOK
  <1>2. Typed(page', page, i)
    BY <1>1, RetryIsTyped DEF ClickRetry
  <1> QED BY <1>2, EventStep DEF ClickRetry

(* The timer of a card fires: its draft takes its place in the queue. *)
LEMMA TimerStep ==
  ASSUME IInv, NEW i \in Item, TimerFires(i)
  PROVE  IInv'
  <1> DEFINE timer == [page.timer EXCEPT ![i] = FALSE]
             d == [page EXCEPT !.timer = timer]
  <1>1. /\ page \in PageState /\ typed \in Nat /\ Ordered(page) /\ TypeOK /\ DraftOrder
    BY DEF IInv, TypeOK
  <1>2. page' = Enqueue(d, i)
    BY Zenon DEF TimerFires
  <1>3. timer \in [Item -> BOOLEAN] /\ \A j \in Item \ {i} : timer[j] = page.timer[j]
    BY <1>1, Fields, SMT
  <1>4. d \in PageState
    <2> HIDE DEF timer
    <2> QED BY <1>1, <1>3, FieldUpdates, Zenon
  <1>5. /\ d.queue = page.queue /\ d.queued = page.queued /\ d.call = page.call
        /\ d.revision = page.revision /\ d.draft = page.draft
        /\ d.pending = page.pending /\ d.timer = timer
    BY <1>1, Zenon DEF PageState
  <1> HIDE DEF d, timer
  <1>6. Flagged(d)
    BY <1>1, <1>5, Zenon DEF Ordered, Flagged
  <1>7. Scheduled(d, {i})
    <2> SUFFICES ASSUME NEW j \in Item \ {i}, d.pending[j] # None
                 PROVE  d.timer[j] \/ d.queued[j]
      BY DEF Scheduled
    <2> QED BY <1>1, <1>3, <1>5, SMT DEF Ordered, Scheduled
  <1>8. Advanced(page', d) /\ Ordered(page')
    BY <1>2, <1>4, <1>6, <1>7, EnqueueIsSound
  <1>9. page' \in PageState /\ page'.draft = page.draft /\ page'.revision = page.revision
    BY <1>5, <1>8 DEF Advanced
  <1>10. \/ page'.call = d.call /\ page'.pending = d.pending
         \/ \E j \in Item :
              /\ Active(d) = NoItem /\ d.pending[j] # None /\ Sent(page', j)
              /\ \A k \in Item : page'.pending[k] # None => d.pending[k] # None
    BY <1>4, <1>8, AdvancedSends
  <1>11. \/ page'.call = page.call /\ reply' = reply
         \/ /\ reply' = NoReply
            /\ \E j \in Item : Sent(page', j) /\ page.pending[j] # None
    <2>1. CASE page'.call = d.call
      BY <1>5, <2>1 DEF TimerFires
    <2>2. CASE Active(d) = NoItem
      <3>1. page.call = NoCall
        <4>1. page.call \in Call \cup {NoCall}
          BY <1>1, Fields
        <4> QED BY <1>5, <2>2, <4>1, CallFields, NoItemAssumption DEF Active
      <3>2. reply' = NoReply
        BY <1>1, <3>1 DEF DraftOrder, TimerFires
      <3> QED BY <1>5, <1>10, <2>1, <3>2
    <2> QED BY <1>10, <2>1, <2>2
  <1>12. PageStep
    <2>1. page'.revision <= revision
      BY <1>1, <1>9 DEF DraftOrder
    <2>2. \A j \in Item : page'.draft[j] = page.draft[j]
                          /\ (page'.pending[j] # None => page.pending[j] # None)
      BY <1>5, <1>9, <1>10
    <2> QED BY <1>8, <1>9, <1>11, <2>1, <2>2 DEF PageStep, TimerFires, tables
  <1>13. DraftOrder'
    BY <1>1, <1>12, PageStepKeepsOrder
  <1>14. TypeOK'
    BY <1>1, <1>9 DEF TypeOK, tables, TimerFires
  <1> QED BY <1>8, <1>13, <1>14 DEF IInv

(* The request ends: its answer is handled or it is given up. *)
LEMMA FinishStep ==
  ASSUME IInv, NEW p, Handled(p, page, {page.revision, revision} \cup 0..revision),
         page' = Finish(p), reply' = NoReply,
         orphan' = orphan \/ (orphan' = page.call /\ reply = NoReply),
         UNCHANGED <<tables, typed, changes, edits, accepted>>
  PROVE  IInv'
  <1> DEFINE d == [p EXCEPT !.call = NoCall]
  <1>1. /\ page \in PageState /\ typed \in Nat /\ TypeOK /\ DraftOrder
        /\ revision \in Nat /\ page.revision <= revision
    BY DEF IInv, TypeOK, DraftOrder
  <1>2. /\ p \in PageState /\ p.draft = page.draft /\ Flagged(p) /\ Scheduled(p, {})
        /\ \A j \in Item : p.pending[j] # None => p.pending[j] = page.pending[j]
    BY DEF Handled
  <1>3. p.revision <= revision
    BY <1>1, SMT DEF Handled
  <1>4. d \in PageState
    BY <1>2, FieldUpdates, Zenon
  <1>5. /\ d.queue = p.queue /\ d.queued = p.queued /\ d.call = NoCall
        /\ d.revision = p.revision /\ d.draft = p.draft
        /\ d.pending = p.pending /\ d.timer = p.timer
    BY <1>2, Zenon DEF PageState
  <1>6. page' = Drain(d)
    BY DEF Finish
  <1> HIDE DEF d
  <1>7. Flagged(d)
    BY <1>2, <1>5 DEF Flagged
  <1>8. Scheduled(d, {})
    BY <1>2, <1>5 DEF Scheduled
  <1>9. Advanced(page', d) /\ Ordered(page')
    BY <1>4, <1>6, <1>7, <1>8, DrainIsSound
  <1>10. page' \in PageState /\ page'.draft = page.draft /\ page'.revision = p.revision
    BY <1>2, <1>5, <1>9 DEF Advanced
  <1>11. \/ page'.call = d.call /\ page'.pending = d.pending
         \/ \E j \in Item :
              /\ Active(d) = NoItem /\ d.pending[j] # None /\ Sent(page', j)
              /\ \A k \in Item : page'.pending[k] # None => d.pending[k] # None
    BY <1>4, <1>9, AdvancedSends
  <1>12. PageStep
    <2>1. \A j \in Item : page'.draft[j] = page.draft[j]
                          /\ (page'.pending[j] # None => page.pending[j] # None)
      BY <1>2, <1>5, <1>10, <1>11
    <2>2. \/ page'.call = NoCall
          \/ \E j \in Item : Sent(page', j) /\ page.pending[j] # None
      BY <1>2, <1>5, <1>11
    <2> QED BY <1>3, <1>9, <1>10, <2>1, <2>2 DEF PageStep, tables
  <1>13. DraftOrder'
    BY <1>1, <1>12, PageStepKeepsOrder
  <1>14. TypeOK'
    <2>1. orphan' \in Call \cup {NoCall}
      BY <1>1, Fields DEF TypeOK
    <2>2. reply' \in Reply
      BY DEF Reply
    <2> QED BY <1>1, <1>10, <2>1, <2>2 DEF TypeOK, tables
  <1> QED BY <1>9, <1>13, <1>14 DEF IInv

LEMMA IsWaiting ==
  ASSUME IInv, Active(page) # NoItem
  PROVE  Waiting(page, Active(page)) /\ page.call \in Call
  <1>1. page.call \in Call \cup {NoCall}
    BY Fields DEF IInv, TypeOK
  <1>2. page.call # NoCall
    BY DEF Active, NoCall
  <1>3. Active(page) \in Item
    BY <1>1, <1>2, CallFields DEF Active
  <1> QED BY <1>1, <1>2, <1>3 DEF Waiting, IInv, TypeOK, Ordered, TablesOK

(* What the server reads for an answer has its type. *)
LEMMA AnswerHasType ==
  ASSUME IInv, Active(page) \in Item, reply # NoReply, reply.read
  PROVE  Answer \in AnswerType /\ Answer.revision = reply.revision
  <1> DEFINE i == Active(page)
             s == IF reply.code = "ok" THEN [stock EXCEPT ![i] = reply.stock] ELSE stock
             w == IF reply.code = "ok" THEN [visible EXCEPT ![i] = TRUE] ELSE visible
  <1>1. reply.stock \in Quantity /\ reply.revision \in Nat /\ TypeOK
    BY DEF IInv, TypeOK, Reply
  <1>2. s \in [Item -> Quantity] /\ w \in [Item -> BOOLEAN]
    BY <1>1, SMT DEF TypeOK
  <1>3. Answer = [revision |-> reply.revision, stock |-> s, visible |-> w]
    BY Zenon DEF Answer
  <1> HIDE DEF s, w
  <1> QED BY <1>1, <1>2, <1>3, SMT DEF AnswerType

LEMMA DeliverStep ==
  ASSUME IInv, Deliver
  PROVE  IInv'
  <1>1. /\ TypeOK /\ revision \in Nat /\ reply # NoReply /\ reply.read
        /\ page.call # NoCall /\ reply.revision <= revision
    BY DEF IInv, TypeOK, DraftOrder, Deliver
  <1>2. Active(page) # NoItem
    <2>1. page.call \in Call \cup {NoCall}
      BY <1>1, Fields DEF TypeOK
    <2> QED BY <1>1, <2>1, CallFields, NoItemAssumption DEF Active
  <1>3. Waiting(page, Active(page)) /\ Active(page) \in Item
    BY <1>2, IsWaiting DEF Waiting
  <1>4. /\ reply.code \in Code /\ reply.stock \in Quantity /\ reply.revision \in Nat
    BY <1>1 DEF TypeOK, Reply
  <1>5. Answer \in AnswerType /\ Answer.revision = reply.revision
    BY <1>1, <1>3, AnswerHasType
  <1> DEFINE p == Handle(page, Active(page), reply.code, Answer)
  <1>6. Handled(p, page, {page.revision, Answer.revision})
    BY <1>3, <1>4, <1>5, AnswerIsHandled
  <1>7. page' = Finish(p) /\ reply' = NoReply /\ orphan' = orphan
        /\ UNCHANGED <<tables, typed, changes, edits, accepted>>
    BY DEF Deliver
  <1> HIDE DEF p
  <1>8. Handled(p, page, {page.revision, revision} \cup 0..revision)
    BY <1>1, <1>4, <1>5, <1>6 DEF Handled
  <1> QED BY <1>7, <1>8, FinishStep

LEMMA LoseStep ==
  ASSUME IInv, NEW arrives \in BOOLEAN, LoseAnswer(arrives)
  PROVE  IInv'
  <1> DEFINE p == HandleLost(page, Active(page))
  <1>1. Waiting(page, Active(page))
    BY IsWaiting DEF LoseAnswer
  <1>2. Handled(p, page, {page.revision})
    BY <1>1, LostIsHandled
  <1>3. /\ page' = Finish(p) /\ reply' = NoReply
        /\ orphan' = orphan \/ (orphan' = page.call /\ reply = NoReply)
        /\ UNCHANGED <<tables, typed, changes, edits, accepted>>
    BY DEF LoseAnswer
  <1> HIDE DEF p
  <1>4. Handled(p, page, {page.revision, revision} \cup 0..revision)
    BY <1>2 DEF Handled
  <1> QED BY <1>3, <1>4, FinishStep

-----------------------------------------------------------------------------
(* The steps of the server and of the administrators *)

(* The save c has just been accepted. *)
LEMMA AcceptStep ==
  ASSUME IInv, NEW c \in Call, Verdict(c) = "ok", Accept(c),
         Outstanding(c), Fresh(c),
         orphan' \in {orphan, NoCall},
         reply' # NoReply => page.call # NoCall /\ (reply'.read => reply'.revision \in 0..revision),
         UNCHANGED <<page, typed>>
  PROVE  /\ DraftOrder' /\ accepted' \in [Item -> Nat] /\ revision' \in Nat
         /\ \A i \in Item : accepted'[i] # accepted[i] => accepted'[i] > accepted[i]
  <1>1. /\ c.item \in Item /\ c.revision \in Nat /\ c.draft \in Nat /\ c # NoCall
        /\ c.revision = revision /\ accepted[c.item] < c.draft
        /\ c.draft <= page.draft[c.item]
        /\ page.pending[c.item] # None => c.draft < page.draft[c.item]
    BY CallFields DEF Verdict, Outstanding, Fresh
  <1>2. /\ accepted \in [Item -> Nat] /\ revision \in Nat /\ typed \in Nat
        /\ page.draft \in [Item -> Nat] /\ page.revision \in Nat
        /\ page.call \in Call \cup {NoCall} /\ orphan \in Call \cup {NoCall}
    BY Fields DEF IInv, TypeOK
  <1>3. /\ revision' = revision + 1 /\ accepted' = [accepted EXCEPT ![c.item] = c.draft]
        /\ page' = page /\ typed' = typed
    BY DEF Accept
  <1>4. /\ accepted'[c.item] = c.draft
        /\ \A i \in Item \ {c.item} : accepted'[i] = accepted[i]
    BY <1>1, <1>2, <1>3
  <1>5. ASSUME NEW i \in Item
        PROVE  /\ accepted'[i] <= page.draft[i] /\ page.draft[i] <= typed
               /\ page.pending[i] # None => accepted'[i] < page.draft[i]
    BY <1>1, <1>4 DEF IInv, DraftOrder
  <1>6. ASSUME NEW e \in {page.call, orphan}
        PROVE  /\ e # NoCall =>
                    /\ e.revision <= revision' /\ e.draft <= page.draft[e.item]
                    /\ page.pending[e.item] # None => e.draft < page.draft[e.item]
               /\ e # NoCall => e.revision # revision'
    <2> SUFFICES ASSUME e # NoCall
                 PROVE  /\ e.revision <= revision' /\ e.draft <= page.draft[e.item]
                        /\ page.pending[e.item] # None => e.draft < page.draft[e.item]
                        /\ e.revision # revision'
      OBVIOUS
    <2>1. e \in Call /\ Outstanding(e)
      BY <1>2 DEF IInv, DraftOrder
    <2>2. e.revision \in Nat /\ e.revision <= revision
      BY <2>1, CallFields DEF Outstanding
    <2> QED BY <1>2, <1>3, <2>1, <2>2, CallFields DEF Outstanding
  <1>7. Outstanding(page.call)' /\ Outstanding(orphan)'
    BY <1>3, <1>6 DEF Outstanding
  <1>8. (reply = NoReply => Fresh(page.call))' /\ Fresh(orphan)'
    BY <1>3, <1>6 DEF Fresh
  <1>9. (page.revision <= revision)'
    BY <1>2, <1>3 DEF IInv, DraftOrder
  <1>10. (reply # NoReply => page.call # NoCall /\ (reply.read => reply.revision <= revision))'
    <2> SUFFICES ASSUME reply' # NoReply, reply'.read
                 PROVE  reply'.revision <= revision'
      BY <1>3
    <2>1. revision' = revision + 1 /\ reply'.revision \in 0..revision
      BY <1>3
    <2> QED BY <1>2, <2>1
  <1>11. DraftOrder'
    BY <1>3, <1>5, <1>7, <1>8, <1>9, <1>10 DEF DraftOrder
  <1>12. accepted' \in [Item -> Nat] /\ revision' \in Nat
    BY <1>1, <1>2, <1>3
  <1>13. \A i \in Item : accepted'[i] # accepted[i] => accepted'[i] > accepted[i]
    BY <1>1, <1>2, <1>4
  <1> QED BY <1>11, <1>12, <1>13

(* The order of the drafts as the administrators and the server see it: the page
   stays, the revision may grow. *)
LEMMA OtherStep ==
  ASSUME IInv, UNCHANGED <<page, orphan, typed, accepted>>, revision' \in Nat,
         revision <= revision',
         reply' = NoReply => reply = NoReply,
         reply' # NoReply => page.call # NoCall /\ (reply'.read => reply'.revision \in 0..revision)
  PROVE  DraftOrder'
  <1>1. /\ revision \in Nat /\ page.revision \in Nat
        /\ page.call \in Call \cup {NoCall} /\ orphan \in Call \cup {NoCall}
    BY Fields DEF IInv, TypeOK
  <1>2. ASSUME NEW e \in {page.call, orphan}
        PROVE  /\ e # NoCall =>
                    /\ e.revision <= revision' /\ e.draft <= page.draft[e.item]
                    /\ page.pending[e.item] # None => e.draft < page.draft[e.item]
               /\ e # NoCall /\ e.revision = revision' => e.revision = revision
    <2> SUFFICES ASSUME e # NoCall
                 PROVE  /\ e.revision <= revision' /\ e.draft <= page.draft[e.item]
                        /\ page.pending[e.item] # None => e.draft < page.draft[e.item]
                        /\ e.revision = revision' => e.revision = revision
      OBVIOUS
    <2>1. e \in Call /\ Outstanding(e)
      BY <1>1 DEF IInv, DraftOrder
    <2>2. e.revision \in Nat /\ e.revision <= revision
      BY <2>1, CallFields DEF Outstanding
    <2> QED BY <1>1, <2>1, <2>2 DEF Outstanding
  <1>3. Outstanding(page.call)' /\ Outstanding(orphan)'
    BY <1>2 DEF Outstanding
  <1>4. (reply = NoReply => Fresh(page.call))' /\ Fresh(orphan)'
    <2>1. reply = NoReply => Fresh(page.call)
      BY DEF IInv, DraftOrder
    <2>2. Fresh(orphan)
      BY DEF IInv, DraftOrder
    <2> QED BY <1>2, <2>1, <2>2 DEF Fresh
  <1>5. (page.revision <= revision)'
    BY <1>1 DEF IInv, DraftOrder
  <1>6. (reply # NoReply => page.call # NoCall /\ (reply.read => reply.revision <= revision))'
    <2> SUFFICES ASSUME reply' # NoReply, reply'.read
                 PROVE  reply'.revision <= revision'
      OBVIOUS
    <2>1. reply'.revision \in 0..revision
      OBVIOUS
    <2> QED BY <1>1, <2>1
  <1>7. \A i \in Item : /\ accepted'[i] <= page'.draft[i] /\ page'.draft[i] <= typed'
                        /\ page'.pending[i] # None => accepted'[i] < page'.draft[i]
    BY DEF IInv, DraftOrder
  <1> QED BY <1>3, <1>4, <1>5, <1>6, <1>7 DEF DraftOrder

LEMMA ReplyRevision ==
  ASSUME IInv, reply # NoReply
  PROVE  page.call # NoCall /\ (reply.read => reply.revision \in 0..revision)
  <1>1. page.call # NoCall /\ (reply.read => reply.revision <= revision)
    BY DEF IInv, DraftOrder
  <1>2. reply.read => reply.revision \in Nat
    BY DEF IInv, TypeOK, Reply
  <1> QED BY <1>1, <1>2 DEF IInv, TypeOK

LEMMA ServeStep ==
  ASSUME IInv, NEW code \in Code, Serve(code)
  PROVE  /\ IInv'
         /\ \A i \in Item : accepted'[i] # accepted[i] => accepted'[i] > accepted[i]
  <1> DEFINE c == page.call
  <1>1. /\ TypeOK /\ DraftOrder /\ reply = NoReply /\ Active(page) # NoItem
        /\ UNCHANGED <<page, orphan, typed, changes, edits>>
    BY DEF IInv, Serve
  <1>2. c \in Call /\ c.item \in Item /\ c # NoCall /\ c.quantity \in Quantity
    BY <1>1, IsWaiting, CallFields, SMT DEF Call
  <1>3. reply' \in Reply /\ reply' # NoReply /\ reply'.read = FALSE
    <2>1. reply' = [code |-> code, stock |-> stock[c.item], read |-> FALSE]
      BY DEF Serve
    <2>2. stock[c.item] \in Quantity
      BY <1>1, <1>2 DEF TypeOK
    <2>3. reply' \in [code : Code, stock : Quantity, read : {FALSE}]
      <3> DEFINE x == stock[c.item]
      <3> HIDE DEF x, c
      <3>1. [code |-> code, stock |-> x, read |-> FALSE]
              \in [code : Code, stock : Quantity, read : {FALSE}]
        BY <2>2, SMT DEF x
      <3> QED BY <2>1, <3>1 DEF x
    <2>4. reply'.read = FALSE /\ reply'.stock = stock[c.item]
      <3> DEFINE x == stock[c.item]
      <3> HIDE DEF x, c
      <3> QED BY <2>1, SMT DEF x
    <2>5. reply' # NoReply
      BY <2>3, SMT DEF NoReply
    <2> QED BY <2>3, <2>4, <2>5 DEF Reply
  <1>4. CASE code = "ok"
    <2>1. Verdict(c) = "ok" /\ Accept(c)
      BY <1>4 DEF Serve
    <2>2. Outstanding(c) /\ Fresh(c)
      BY <1>1 DEF DraftOrder
    <2>3. /\ DraftOrder' /\ accepted' \in [Item -> Nat] /\ revision' \in Nat
          /\ \A i \in Item : accepted'[i] # accepted[i] => accepted'[i] > accepted[i]
      BY <1>1, <1>2, <1>3, <2>1, <2>2, AcceptStep
    <2>4. TypeOK'
      <3>1. selected' = [selected EXCEPT ![c.item] = c.quantity]
            /\ UNCHANGED <<items, stock, visible>>
        BY <2>1 DEF Accept
      <3>2. selected' \in [Item -> Quantity]
        BY <1>1, <1>2, <3>1, SMT DEF TypeOK
      <3> QED BY <1>1, <1>3, <2>3, <3>1, <3>2 DEF TypeOK
    <2> QED BY <1>1, <2>3, <2>4 DEF IInv
  <1>5. CASE code # "ok"
    <2>1. UNCHANGED <<tables, accepted>>
      BY <1>5 DEF Serve
    <2>2. DraftOrder'
      BY <1>1, <1>2, <1>3, <2>1, OtherStep DEF tables, TypeOK
    <2>3. TypeOK'
      BY <1>1, <1>3, <2>1 DEF TypeOK, tables
    <2> QED BY <1>1, <2>1, <2>2, <2>3 DEF IInv
  <1> QED BY <1>4, <1>5

LEMMA ServeOrphanStep ==
  ASSUME IInv, ServeOrphan
  PROVE  /\ IInv'
         /\ \A i \in Item : accepted'[i] # accepted[i] => accepted'[i] > accepted[i]
  <1>1. /\ TypeOK /\ DraftOrder /\ orphan \in Call /\ orphan' = NoCall
        /\ UNCHANGED <<page, reply, typed, changes>>
    BY DEF IInv, ServeOrphan, TypeOK
  <1>2. /\ orphan.item \in Item /\ orphan # NoCall /\ orphan.quantity \in Quantity
    BY <1>1, CallFields, SMT DEF Call
  <1>3. CASE Verdict(orphan) = "ok"
    <2>1. Accept(orphan) /\ edits' = [edits EXCEPT ![orphan.item] = @ + 1]
      BY <1>3 DEF ServeOrphan
    <2>2. Outstanding(orphan) /\ Fresh(orphan)
      BY <1>1 DEF DraftOrder
    <2>3. /\ DraftOrder' /\ accepted' \in [Item -> Nat] /\ revision' \in Nat
          /\ \A i \in Item : accepted'[i] # accepted[i] => accepted'[i] > accepted[i]
      BY <1>1, <1>3, <2>1, <2>2, AcceptStep, ReplyRevision
    <2>4. TypeOK'
      <3>1. selected' = [selected EXCEPT ![orphan.item] = orphan.quantity]
            /\ UNCHANGED <<items, stock, visible>>
        BY <2>1 DEF Accept
      <3>2. selected' \in [Item -> Quantity]
        BY <1>1, <1>2, <3>1, SMT DEF TypeOK
      <3>3. edits' \in [Item -> Nat]
        BY <1>1, <1>2, <2>1, SMT DEF TypeOK
      <3> QED BY <1>1, <2>3, <3>1, <3>2, <3>3 DEF TypeOK
    <2> QED BY <1>1, <2>3, <2>4 DEF IInv
  <1>4. CASE Verdict(orphan) # "ok"
    <2>1. UNCHANGED <<tables, accepted, edits>>
      BY <1>4 DEF ServeOrphan
    <2>2. DraftOrder'
      BY <1>1, <2>1 DEF DraftOrder, Outstanding, Fresh, tables
    <2>3. TypeOK'
      BY <1>1, <2>1 DEF TypeOK, tables
    <2> QED BY <1>1, <2>1, <2>2, <2>3 DEF IInv
  <1> QED BY <1>3, <1>4

LEMMA ReadRevisionStep ==
  ASSUME IInv, ReadRevision
  PROVE  IInv'
  <1>1. /\ TypeOK /\ reply # NoReply /\ revision \in Nat
        /\ reply' = [code |-> reply.code, stock |-> reply.stock, read |-> TRUE,
                     revision |-> revision]
        /\ UNCHANGED <<tables, page, orphan, typed, changes, edits, accepted>>
    BY DEF IInv, TypeOK, ReadRevision
  <1>2. reply.code \in Code /\ reply.stock \in Quantity
    BY <1>1 DEF TypeOK, Reply
  <1>3. /\ reply' \in [code : Code, stock : Quantity, read : {TRUE}, revision : Nat]
        /\ reply'.revision = revision /\ reply' # NoReply
    BY <1>1, <1>2, SMT DEF NoReply
  <1>4. DraftOrder'
    BY <1>1, <1>3, OtherStep, ReplyRevision DEF tables
  <1>5. TypeOK'
    BY <1>1, <1>3 DEF TypeOK, tables, Reply
  <1> QED BY <1>1, <1>4, <1>5 DEF IInv

LEMMA AdminStep ==
  ASSUME IInv,
         \/ \E i \in Item, q \in Quantity : AdminEdit(i, q)
         \/ \E i \in Item, s \in Quantity, v \in BOOLEAN : AdminUpdate(i, s, v)
         \/ \E i \in Item : AdminDelete(i)
  PROVE  IInv' /\ accepted' = accepted
  <1>1. TypeOK /\ revision \in Nat /\ changes \in Nat
    BY DEF IInv, TypeOK
  <1>2. ASSUME UNCHANGED <<page, reply, orphan, typed, accepted>>,
               revision' \in Nat, revision <= revision'
        PROVE  DraftOrder' /\ Ordered(page)'
    BY <1>2, OtherStep, ReplyRevision DEF IInv
  <1>3. ASSUME NEW i \in Item, NEW q \in Quantity, AdminEdit(i, q)
        PROVE  IInv' /\ accepted' = accepted
    <2>1. DraftOrder' /\ Ordered(page)'
      BY <1>1, <1>2, <1>3 DEF AdminEdit
    <2>2. selected' \in [Item -> Quantity] /\ edits' \in [Item -> Nat]
      BY <1>1, <1>3, SMT DEF AdminEdit, TypeOK
    <2>3. TypeOK'
      BY <1>1, <1>3, <2>2 DEF AdminEdit, TypeOK
    <2> QED BY <1>3, <2>1, <2>3 DEF IInv, AdminEdit
  <1>4. ASSUME NEW i \in Item, NEW s \in Quantity, NEW v \in BOOLEAN, AdminUpdate(i, s, v)
        PROVE  IInv' /\ accepted' = accepted
    <2>1. DraftOrder' /\ Ordered(page)'
      BY <1>1, <1>2, <1>4 DEF AdminUpdate
    <2>2. stock' \in [Item -> Quantity] /\ visible' \in [Item -> BOOLEAN]
      BY <1>1, <1>4, SMT DEF AdminUpdate, TypeOK
    <2>3. TypeOK'
      BY <1>1, <1>4, <2>2 DEF AdminUpdate, TypeOK
    <2> QED BY <1>4, <2>1, <2>3 DEF IInv, AdminUpdate
  <1>5. ASSUME NEW i \in Item, AdminDelete(i)
        PROVE  IInv' /\ accepted' = accepted
    <2>1. DraftOrder' /\ Ordered(page)'
      BY <1>1, <1>2, <1>5 DEF AdminDelete
    <2>2. TypeOK'
      BY <1>1, <1>5 DEF AdminDelete, TypeOK
    <2> QED BY <1>5, <2>1, <2>2 DEF IInv, AdminDelete
  <1> QED BY <1>3, <1>4, <1>5

-----------------------------------------------------------------------------
LEMMA InitInv ==
  ASSUME Init
  PROVE  IInv
  <1> DEFINE none == [i \in Item |-> FALSE]
             zero == [i \in Item |-> 0]
             empty == [i \in Item |-> None]
             status == [i \in Item |-> IF visible[i] THEN "saved" ELSE "locked"]
  <1>1. /\ page =
             [cards |-> Item, revision |-> 0, queue |-> <<>>, call |-> NoCall,
              input |-> selected, max |-> stock, timer |-> none,
              pending |-> empty, queued |-> none,
              lastAttempt |-> empty, serverValue |-> selected,
              available |-> visible, status |-> status,
              shownEdits |-> zero, draft |-> zero, draftEdits |-> zero]
        /\ selected \in [Item -> Quantity] /\ stock \in [Item -> Quantity]
        /\ visible \in [Item -> BOOLEAN]
        /\ reply = NoReply /\ orphan = NoCall /\ accepted = zero /\ edits = zero
        /\ items = Item /\ revision = 0 /\ typed = 0 /\ changes = 0
    BY DEF Init
  <1>2. /\ none \in [Item -> BOOLEAN] /\ zero \in [Item -> Nat]
        /\ empty \in [Item -> Number] /\ status \in [Item -> Status]
        /\ selected \in [Item -> Number] /\ <<>> \in Seq(Item)
    BY <1>1, QuantityBounds, SMT DEF Status
  <1>3. \A i \in Item : none[i] = FALSE /\ zero[i] = 0 /\ empty[i] = None
    OBVIOUS
  <1> HIDE DEF none, zero, empty, status
  <1>4. page \in PageState
    <2> DEFINE call == NoCall
    <2>1. call \in Call \cup {NoCall}
      OBVIOUS
    <2> HIDE DEF call
    <2> QED BY <1>1, <1>2, <2>1, Zenon DEF PageState, call
  <1>5. /\ page.queue = <<>> /\ page.queued = none /\ page.pending = empty
        /\ page.draft = zero /\ page.call = NoCall /\ page.revision = 0
    BY <1>1, SMT
  <1>6. TypeOK
    BY <1>1, <1>2, <1>4 DEF TypeOK, Reply
  <1>7. Ordered(page)
    <2>1. Flagged(page)
      <3>1. 1..Len(page.queue) = {}
        <4>1. Len(<<>>) = 0
          BY SMT
        <4> QED BY <1>5, <4>1, SMT
      <3>2. \A j \in Item : page.queued[j] = FALSE
        BY <1>3, <1>5
      <3> QED BY <3>1, <3>2, Zenon DEF Flagged
    <2>2. Scheduled(page, {})
      BY <1>3, <1>5 DEF Scheduled
    <2> QED BY <1>5, <2>1, <2>2 DEF Ordered, Drained
  <1>8. DraftOrder
    BY <1>1, <1>3, <1>5 DEF DraftOrder, Outstanding, Fresh
  <1> QED BY <1>6, <1>7, <1>8 DEF IInv

LEMMA NextInv ==
  ASSUME IInv, [Next]_vars
  PROVE  /\ IInv'
         /\ \A i \in Item : accepted'[i] # accepted[i] => accepted'[i] > accepted[i]
  <1>1. CASE UNCHANGED vars
    <2>1. IInv'
      BY <1>1 DEF vars, IInv, TypeOK, DraftOrder, Outstanding, Fresh
    <2> QED BY <1>1, <2>1 DEF vars
  <1>2. ASSUME NEW i \in Item, NEW v \in Number, NEW immediate \in BOOLEAN,
               Type(i, v, immediate)
        PROVE  IInv' /\ accepted' = accepted
    BY <1>2, TypeStep DEF Type
  <1>3. ASSUME NEW i \in Item, ClickRetry(i)
        PROVE  IInv' /\ accepted' = accepted
    BY <1>3, RetryStep DEF ClickRetry
  <1>4. ASSUME NEW i \in Item, TimerFires(i)
        PROVE  IInv' /\ accepted' = accepted
    BY <1>4, TimerStep DEF TimerFires
  <1>5. CASE ReadRevision
    BY <1>5, ReadRevisionStep DEF ReadRevision
  <1>6. CASE Deliver
    BY <1>6, DeliverStep DEF Deliver
  <1>7. ASSUME NEW arrives \in BOOLEAN, LoseAnswer(arrives)
        PROVE  IInv' /\ accepted' = accepted
    BY <1>7, LoseStep DEF LoseAnswer
  <1>8. CASE Network
    BY <1>5, <1>6, <1>7, <1>8, ServeStep DEF Network
  <1>9. CASE ServeOrphan
    BY <1>9, ServeOrphanStep
  <1>10. CASE \/ \E i \in Item, q \in Quantity : AdminEdit(i, q)
              \/ \E i \in Item, s \in Quantity, v \in BOOLEAN : AdminUpdate(i, s, v)
              \/ \E i \in Item : AdminDelete(i)
    BY <1>10, AdminStep
  <1> QED BY <1>1, <1>2, <1>3, <1>4, <1>8, <1>9, <1>10 DEF Next

LEMMA Invariance == Spec => []IInv
  <1>1. Init => IInv
    BY InitInv
  <1>2. IInv /\ [Next]_vars => IInv'
    BY NextInv
  <1> QED BY <1>1, <1>2, PTL DEF Spec

(* The variables of basket.js and of the server keep their types. *)
THEOREM TypeCorrect == Spec => []TypeOK
  <1>1. IInv => TypeOK
    BY DEF IInv
  <1> QED BY <1>1, Invariance, PTL

(* No draft is forgotten: a pending draft has a timer or a place in the queue,
   the queued flags are exact, and the queue only waits for a request. *)
THEOREM DraftsAreKept == Spec => []NoForgottenDraft
  <1>1. ASSUME IInv
        PROVE  NoForgottenDraft
    <2>1. /\ Flagged(page) /\ Scheduled(page, {}) /\ Drained(page)
          /\ page.call \in Call \cup {NoCall}
      BY <1>1, Fields DEF IInv, Ordered, TypeOK
    <2>2. page.queue # <<>> => Active(page) # NoItem
      BY <2>1, CallFields, NoItemAssumption DEF Drained, Active
    <2>3. \A i \in Item : page.pending[i] # None => page.timer[i] \/ page.queued[i]
      BY <2>1 DEF Scheduled
    <2>4. \A i \in Item : page.queued[i] <=> \E k \in 1..Len(page.queue) : page.queue[k] = i
      BY <2>1, Zenon DEF Flagged
    <2> QED BY <2>2, <2>3, <2>4, Zenon DEF NoForgottenDraft
  <1> QED BY <1>1, Invariance, PTL

(* The drafts of an item are accepted in the order in which they were typed, with
   retries, lost answers and late requests: an older draft never overwrites a
   newer one. *)
THEOREM AcceptedInOrder == Spec => DraftsAcceptedInOrder
  <1> DEFINE A == \A i \in Item : accepted'[i] # accepted[i] => accepted'[i] > accepted[i]
  <1>1. IInv /\ [Next]_vars => [A]_vars
    BY NextInv
  <1>2. DraftsAcceptedInOrder <=> [][A]_vars
    BY DEF DraftsAcceptedInOrder
  <1> HIDE DEF A
  <1> QED BY <1>1, <1>2, Invariance, PTL DEF Spec

-----------------------------------------------------------------------------
(* What the cards say.  A card that says "Saved" is true because of what it takes
   to change the basket behind it: a save of the page, whose card does not say
   "Saved" while the request is on its way, or an edit that the page has not
   seen. *)

(* The card has a draft that may be sent, and does not call it saved. *)
Open(p, j) == p.available[j] /\ p.status[j] # "saved"

HonestCard(p, j) ==
  /\ p.shownEdits[j] <= edits[j]
  /\ p.pending[j] # None => Open(p, j)
  /\ j \in p.cards \cap items /\ p.status[j] = "saved" /\ p.shownEdits[j] = edits[j]
       => p.input[j] = selected[j]

Honest(p) == \A j \in Item : HonestCard(p, j)

Engaged(p) == p.call # NoCall => Open(p, p.call.item)

(* The card looks the same on both pages. *)
Alike(q, p, j) ==
  /\ q.status[j] = p.status[j] /\ q.input[j] = p.input[j]
  /\ q.pending[j] = p.pending[j] /\ q.available[j] = p.available[j]

(* The page q differs from p in what the card i shows. *)
Touched(q, p, i) ==
  /\ q.shownEdits = p.shownEdits /\ q.cards \subseteq p.cards /\ q.call = p.call
  /\ \A j \in Item \ {i} : Alike(q, p, j)

LEMMA TouchedIsHonest ==
  ASSUME NEW p, NEW q, NEW i \in Item, Honest(p), Touched(q, p, i),
         q.pending[i] # None => Open(q, i),
         i \in q.cards \cap items /\ q.status[i] = "saved" /\ q.shownEdits[i] = edits[i]
           => q.input[i] = selected[i]
  PROVE  Honest(q)
  <1>1. ASSUME NEW j \in Item \ {i}
        PROVE  HonestCard(q, j)
    <2>1. HonestCard(p, j) /\ Alike(q, p, j)
      BY Zenon DEF Honest, Touched
    <2> QED BY <2>1, Zenon DEF HonestCard, Alike, Touched, Open
  <1>2. HonestCard(q, i)
    BY Zenon DEF Honest, HonestCard, Touched
  <1> QED BY <1>1, <1>2, Zenon DEF Honest

(* The queue of page p has moved on: what changes is the card that is sent. *)
Moved(q, p) ==
  /\ q.cards = p.cards /\ q.shownEdits = p.shownEdits
  /\ q.input = p.input /\ q.available = p.available
  /\ \/ q.call = p.call /\ q.pending = p.pending /\ q.status = p.status
     \/ \E i \in Item :
          /\ Active(p) = NoItem /\ p.pending[i] # None
          /\ q.pending = [p.pending EXCEPT ![i] = None]
          /\ q.status = [p.status EXCEPT ![i] = "saving"]
          /\ q.call.item = i

LEMMA MovedIsHonest ==
  ASSUME NEW p \in PageState, NEW q, Moved(q, p), Honest(p)
  PROVE  Honest(q) /\ (Engaged(p) => Engaged(q))
  <1>1. CASE q.call = p.call /\ q.pending = p.pending /\ q.status = p.status
    <2>1. ASSUME NEW j \in Item
          PROVE  HonestCard(q, j) /\ (Open(p, j) => Open(q, j))
      BY <1>1, Zenon DEF Moved, Honest, HonestCard, Open
    <2>2. Honest(q)
      BY <2>1 DEF Honest
    <2>3. Engaged(p) => Engaged(q)
      BY <1>1, Zenon DEF Moved, Engaged, Open
    <2> QED BY <2>2, <2>3
  <1>2. ASSUME NEW i \in Item, p.pending[i] # None,
               q.pending = [p.pending EXCEPT ![i] = None],
               q.status = [p.status EXCEPT ![i] = "saving"],
               q.call.item = i
        PROVE  Honest(q) /\ Engaged(q)
    <2>1. /\ q.pending[i] = None /\ q.status[i] = "saving"
          /\ \A j \in Item \ {i} : q.pending[j] = p.pending[j] /\ q.status[j] = p.status[j]
      BY <1>2, Fields, SMT
    <2>2. Open(q, i)
      <3>1. p.available[i]
        BY <1>2, Zenon DEF Honest, HonestCard, Open
      <3>2. q.status[i] # "saved"
        BY <2>1
      <3> QED BY <3>1, <3>2, Zenon DEF Moved, Open
    <2>3. ASSUME NEW j \in Item
          PROVE  HonestCard(q, j)
      <3>1. HonestCard(p, j)
        BY Zenon DEF Honest
      <3>2. CASE j = i
        BY <2>1, <2>2, <3>1, <3>2, Zenon DEF HonestCard, Moved, Open
      <3>3. CASE j # i
        BY <2>1, <3>1, <3>3, Zenon DEF HonestCard, Moved, Open
      <3> QED BY <3>2, <3>3
    <2> QED BY <1>2, <2>2, <2>3, Zenon DEF Honest, Engaged
  <1> QED BY <1>1, <1>2, Zenon DEF Moved

LEMMA DrainMoves ==
  ASSUME NEW p \in PageState
  PROVE  Moved(Drain(p), p)
  <1>1. CASE Active(p) # NoItem
    BY <1>1 DEF Drain, Moved
  <1>2. CASE Active(p) = NoItem /\ Ready(p) = {}
    <2> DEFINE q == [p EXCEPT !.queue = <<>>, !.queued = [j \in Item |-> FALSE]]
    <2>1. Drain(p) = q
      BY <1>2, Zenon DEF Drain
    <2>2. /\ q.cards = p.cards /\ q.shownEdits = p.shownEdits
          /\ q.input = p.input /\ q.available = p.available
          /\ q.call = p.call /\ q.pending = p.pending /\ q.status = p.status
      BY Zenon DEF PageState
    <2> HIDE DEF q
    <2> QED BY <2>1, <2>2 DEF Moved
  <1>3. CASE Active(p) = NoItem /\ Ready(p) # {}
    <2> DEFINE k == First(Ready(p))
               i == p.queue[k]
               q == Send(p, k)
    <2>1. p.queue \in Seq(Item) /\ Len(p.queue) \in Nat
      BY Fields, LenProperties
    <2>2. Ready(p) \subseteq Nat
      BY <2>1, SMT DEF Ready
    <2>3. k \in Ready(p)
      BY <1>3, <2>2, FirstIsLeast
    <2>4. k \in 1..Len(p.queue) /\ p.pending[i] # None
      BY <2>3 DEF Ready
    <2> HIDE DEF k
    <2>5. i \in Item
      BY <2>1, <2>4, ElementOfSeq, SMT
    <2>6. /\ q.cards = p.cards /\ q.shownEdits = p.shownEdits
          /\ q.input = p.input /\ q.available = p.available
          /\ q.pending = [p.pending EXCEPT ![i] = None]
          /\ q.status = [p.status EXCEPT ![i] = "saving"]
      BY Zenon DEF PageState, Send
    <2>7. q.call.item = i
      <3> DEFINE call == [item |-> i, quantity |-> p.pending[i], revision |-> p.revision,
                          draft |-> p.draft[i], edits |-> p.draftEdits[i]]
      <3>1. q.call = call
        BY Zenon DEF PageState, Send
      <3>2. call.item = i
        <4> HIDE DEF i
        <4> QED BY SMT
      <3> QED BY <3>1, <3>2
    <2>8. Drain(p) = q
      BY <1>3 DEF Drain, k
    <2> HIDE DEF q, i
    <2> QED BY <1>3, <2>4, <2>5, <2>6, <2>7, <2>8, Zenon DEF Moved
  <1> QED BY <1>1, <1>2, <1>3

LEMMA EnqueueMoves ==
  ASSUME NEW p \in PageState, NEW i \in Item
  PROVE  Moved(Enqueue(p, i), p)
  <1>1. CASE p.queued[i]
    BY <1>1, DrainMoves DEF Enqueue
  <1>2. CASE ~p.queued[i]
    <2> DEFINE queued == [p.queued EXCEPT ![i] = TRUE]
               queue == Append(p.queue, i)
               p1 == [p EXCEPT !.queued = queued]
               p2 == [p1 EXCEPT !.queue = queue]
    <2>1. queued \in [Item -> BOOLEAN] /\ queue \in Seq(Item)
      BY Fields, SMT
    <2>2. p1 \in PageState
      BY <2>1, FieldUpdates, Zenon
    <2>3. p2 \in PageState
      <3> HIDE DEF p1
      <3> QED BY <2>1, <2>2, FieldUpdates, Zenon
    <2>4. Enqueue(p, i) = Drain(p2)
      BY <1>2, Zenon DEF Enqueue
    <2>5. /\ p2.cards = p.cards /\ p2.shownEdits = p.shownEdits
          /\ p2.input = p.input /\ p2.available = p.available
          /\ p2.call = p.call /\ p2.pending = p.pending /\ p2.status = p.status
      BY Zenon DEF PageState
    <2> HIDE DEF p2
    <2>6. Moved(Drain(p2), p2)
      BY <2>3, DrainMoves
    <2> QED BY <2>4, <2>5, <2>6, Zenon DEF Moved, Active
  <1> QED BY <1>1, <1>2

(* What an answer changes on a card: nothing, or it shows the basket, unless the
   card is in S, and is locked or unlocked. *)
Refreshed(a, p, ans, S, j) ==
  /\ a.shownEdits[j] = edits[j]
  /\ a.input[j] = IF j \in S THEN p.input[j] ELSE selected[j]
  /\ a.available[j] = ans.visible[j]
  /\ ans.visible[j] => /\ a.pending[j] = p.pending[j]
                       /\ a.status[j] = IF p.available[j] THEN p.status[j] ELSE "saved"
  /\ ~ans.visible[j] => a.pending[j] = None /\ a.status[j] = "locked"

LEMMA SnapshotShows ==
  ASSUME NEW p \in PageState, NEW ans \in AnswerType, NEW S \in SUBSET Item, TablesOK,
         NEW a, a = ApplySnapshot(p, ans, S)
  PROVE  /\ a.cards = p.cards /\ a.call = p.call
         /\ \A j \in Item :
              \/ a.shownEdits[j] = p.shownEdits[j] /\ Alike(a, p, j)
              \/ Refreshed(a, p, ans, S, j)
  <1> DEFINE listed == {i \in p.cards \cap items : visible[i] \/ selected[i] > 0}
             locked == {i \in listed : ~ans.visible[i]}
             shown == [i \in Item |-> IF i \in listed THEN edits[i] ELSE p.shownEdits[i]]
             input == [i \in Item |-> IF i \in listed \ S THEN selected[i] ELSE p.input[i]]
             available == [i \in Item |-> IF i \in listed THEN ans.visible[i]
                                          ELSE p.available[i]]
             pending == [i \in Item |-> IF i \in locked THEN None ELSE p.pending[i]]
             status == [i \in Item |->
                         IF i \in locked THEN "locked"
                         ELSE IF i \in listed /\ ~p.available[i] THEN "saved"
                         ELSE p.status[i]]
  <1>1. /\ a.cards = p.cards /\ a.call = p.call
        /\ a.shownEdits = shown /\ a.input = input /\ a.available = available
        /\ a.pending = pending /\ a.status = status
    BY Zenon DEF ApplySnapshot, PageState
  <1>2. ASSUME NEW j \in Item
        PROVE  /\ a.shownEdits[j] = IF j \in listed THEN edits[j] ELSE p.shownEdits[j]
               /\ a.input[j] = IF j \in listed \ S THEN selected[j] ELSE p.input[j]
               /\ a.available[j] = IF j \in listed THEN ans.visible[j] ELSE p.available[j]
               /\ a.pending[j] = IF j \in locked THEN None ELSE p.pending[j]
               /\ a.status[j] = IF j \in locked THEN "locked"
                                ELSE IF j \in listed /\ ~p.available[j] THEN "saved"
                                ELSE p.status[j]
    <2> HIDE DEF listed, locked
    <2> QED BY <1>1, Zenon
  <1>3. ASSUME NEW j \in Item
        PROVE  j \in locked <=> j \in listed /\ ~ans.visible[j]
    <2> HIDE DEF listed
    <2> QED OBVIOUS
  <1> HIDE DEF listed, locked
  <1>4. ASSUME NEW j \in Item
        PROVE  \/ a.shownEdits[j] = p.shownEdits[j] /\ Alike(a, p, j)
               \/ Refreshed(a, p, ans, S, j)
    <2>1. CASE j \notin listed
      <3>1. j \notin locked /\ j \notin listed \ S
        BY <1>3, <2>1
      <3> QED BY <1>2, <2>1, <3>1, Zenon DEF Alike
    <2>2. CASE j \in listed /\ j \in S
      <3>1. j \notin listed \ S
        BY <2>2
      <3> QED BY <1>2, <1>3, <2>2, <3>1, Zenon DEF Refreshed
    <2>3. CASE j \in listed /\ j \notin S
      <3>1. j \in listed \ S
        BY <2>3
      <3> QED BY <1>2, <1>3, <2>3, <3>1, Zenon DEF Refreshed
    <2> QED BY <2>1, <2>2, <2>3
  <1> QED BY <1>1, <1>4

(* An answer keeps the cards honest when those it must not overwrite are open. *)
LEMMA SnapshotIsHonest ==
  ASSUME NEW p \in PageState, NEW ans \in AnswerType, NEW S \in SUBSET Item, TablesOK,
         Honest(p), \A j \in S : Open(p, j),
         NEW a, a = ApplySnapshot(p, ans, S)
  PROVE  /\ Honest(a) /\ a.cards = p.cards /\ a.call = p.call
         /\ \A j \in Item : Open(p, j) => a.status[j] # "saved"
  <1>1. /\ a.cards = p.cards /\ a.call = p.call
        /\ \A j \in Item :
             \/ a.shownEdits[j] = p.shownEdits[j] /\ Alike(a, p, j)
             \/ Refreshed(a, p, ans, S, j)
    BY SnapshotShows
  <1>2. ASSUME NEW j \in Item
        PROVE  /\ HonestCard(a, j)
               /\ Open(p, j) => a.status[j] # "saved"
    <2>1. HonestCard(p, j) /\ (j \in S => Open(p, j))
      BY DEF Honest
    <2>2. CASE a.shownEdits[j] = p.shownEdits[j] /\ Alike(a, p, j)
      BY <1>1, <2>1, <2>2, Zenon DEF HonestCard, Alike, Open
    <2>3. CASE Refreshed(a, p, ans, S, j) /\ ans.visible[j]
      <3>1. a.shownEdits[j] <= edits[j]
        BY <2>3, SMT DEF Refreshed, TablesOK
      <3>2. /\ a.available[j] /\ a.pending[j] = p.pending[j]
            /\ p.available[j] => a.status[j] = p.status[j]
            /\ j \notin S => a.input[j] = selected[j]
        BY <2>3, Zenon DEF Refreshed
      <3>3. j \in S => a.status[j] # "saved"
        BY <2>1, <3>2, Zenon DEF Open
      <3>4. a.pending[j] # None => Open(a, j)
        BY <2>1, <3>2, Zenon DEF Open, HonestCard
      <3>5. HonestCard(a, j)
        BY <3>1, <3>2, <3>3, <3>4, Zenon DEF HonestCard
      <3> QED BY <3>2, <3>5, Zenon DEF Open
    <2>4. CASE Refreshed(a, p, ans, S, j) /\ ~ans.visible[j]
      <3>1. a.shownEdits[j] <= edits[j]
        BY <2>4, SMT DEF Refreshed, TablesOK
      <3>2. a.pending[j] = None /\ a.status[j] = "locked"
        BY <2>4, Zenon DEF Refreshed
      <3>3. a.status[j] # "saved"
        BY <3>2
      <3> QED BY <3>1, <3>2, <3>3, Zenon DEF HonestCard
    <2> QED BY <1>1, <2>2, <2>3, <2>4
  <1> QED BY <1>1, <1>2 DEF Honest

LEMMA OfferIsHonest ==
  ASSUME NEW p \in PageState, NEW i \in Item, NEW v \in Number,
         Honest(p), p.status[i] # "saved"
  PROVE  Honest(OfferRetry(p, i, v))
  <1> DEFINE r == [p EXCEPT !.lastAttempt[i] = v, !.status[i] = "retry"]
  <1>1. CASE ~p.available[i]
    BY <1>1, Zenon DEF OfferRetry
  <1>2. CASE p.available[i]
    <2>1. OfferRetry(p, i, v) = r
      BY <1>2, Zenon DEF OfferRetry
    <2>2. /\ r.cards = p.cards /\ r.call = p.call /\ r.shownEdits = p.shownEdits
          /\ r.input = p.input /\ r.pending = p.pending /\ r.available = p.available
          /\ r.status = [p.status EXCEPT ![i] = "retry"]
      BY Zenon DEF PageState
    <2> HIDE DEF r
    <2>3. r.status[i] = "retry" /\ \A j \in Item \ {i} : r.status[j] = p.status[j]
      BY <2>2, Fields, SMT
    <2>4. r.status[i] # "saved"
      BY <2>3
    <2>5. Touched(r, p, i)
      BY <2>2, <2>3, Zenon DEF Touched, Alike
    <2>6. Open(r, i)
      BY <1>2, <2>2, <2>4, Zenon DEF Open
    <2> QED BY <2>1, <2>4, <2>5, <2>6, TouchedIsHonest
  <1> QED BY <1>1, <1>2

(* Dropping a draft leaves an honest card. *)
LEMMA DropIsHonest ==
  ASSUME NEW p \in PageState, NEW i \in Item, Honest(p),
         NEW q, q = [p EXCEPT !.pending[i] = None]
  PROVE  /\ q \in PageState /\ Honest(q)
         /\ q.cards = p.cards /\ q.call = p.call
         /\ \A j \in Item : Open(p, j) <=> Open(q, j)
  <1>1. q \in PageState
    BY DropIsQuiet, QuietType
  <1>2. /\ q.cards = p.cards /\ q.call = p.call /\ q.shownEdits = p.shownEdits
        /\ q.input = p.input /\ q.available = p.available /\ q.status = p.status
        /\ q.pending = [p.pending EXCEPT ![i] = None]
    BY Zenon DEF PageState
  <1>3. q.pending[i] = None /\ \A j \in Item \ {i} : q.pending[j] = p.pending[j]
    BY <1>2, Fields, SMT
  <1>4. Touched(q, p, i)
    BY <1>2, <1>3, Zenon DEF Touched, Alike
  <1>5. HonestCard(p, i)
    BY DEF Honest
  <1>6. i \in q.cards \cap items /\ q.status[i] = "saved" /\ q.shownEdits[i] = edits[i]
          => q.input[i] = selected[i]
    BY <1>2, <1>5, Zenon DEF HonestCard
  <1>7. Honest(q)
    BY <1>3, <1>4, <1>6, TouchedIsHonest
  <1> QED BY <1>1, <1>2, <1>7, Zenon DEF Open

(* A card is settled: what it says is checked at once. *)
LEMMA SettleIsHonest ==
  ASSUME NEW p \in PageState, NEW i \in Item, NEW v \in Number, NEW s \in Status,
         NEW cards \in SUBSET p.cards, Honest(p),
         i \in items /\ s = "saved" => v = selected[i]
  PROVE  Honest([p EXCEPT !.pending[i] = None, !.input[i] = v, !.lastAttempt[i] = None,
                          !.status[i] = s, !.cards = cards])
  <1> DEFINE r == [p EXCEPT !.pending[i] = None, !.input[i] = v, !.lastAttempt[i] = None,
                            !.status[i] = s, !.cards = cards]
  <1>1. /\ r.cards = cards /\ r.call = p.call /\ r.shownEdits = p.shownEdits
        /\ r.input = [p.input EXCEPT ![i] = v] /\ r.available = p.available
        /\ r.status = [p.status EXCEPT ![i] = s]
        /\ r.pending = [p.pending EXCEPT ![i] = None]
    BY Zenon DEF PageState
  <1> HIDE DEF r
  <1>2. /\ r.pending[i] = None /\ \A j \in Item \ {i} : r.pending[j] = p.pending[j]
        /\ r.status[i] = s /\ \A j \in Item \ {i} : r.status[j] = p.status[j]
        /\ r.input[i] = v /\ \A j \in Item \ {i} : r.input[j] = p.input[j]
    BY <1>1, Fields, SMT
  <1>3. Touched(r, p, i)
    BY <1>1, <1>2, Zenon DEF Touched, Alike
  <1>4. i \in r.cards \cap items /\ r.status[i] = "saved" /\ r.shownEdits[i] = edits[i]
          => r.input[i] = selected[i]
    BY <1>2
  <1>5. Honest(r)
    BY <1>2, <1>3, <1>4, TouchedIsHonest
  <1> QED BY <1>5 DEF r

(* The card of the request says "Saving..." again and is queued once more. *)
LEMMA RequeueIsHonest ==
  ASSUME NEW p \in PageState, NEW i \in Item, Honest(p)
  PROVE  Honest(Enqueue([p EXCEPT !.status[i] = "saving"], i))
  <1> DEFINE q == [p EXCEPT !.status[i] = "saving"]
  <1>1. q \in PageState
    <2>1. Quiet(q, p)
      BY StatusIsQuiet DEF Status
    <2> HIDE DEF q
    <2> QED BY <2>1, QuietType
  <1>2. /\ q.cards = p.cards /\ q.call = p.call /\ q.shownEdits = p.shownEdits
        /\ q.input = p.input /\ q.available = p.available /\ q.pending = p.pending
        /\ q.status = [p.status EXCEPT ![i] = "saving"]
    BY Zenon DEF PageState
  <1> HIDE DEF q
  <1>3. q.status[i] = "saving" /\ \A j \in Item \ {i} : q.status[j] = p.status[j]
    BY <1>2, Fields, SMT
  <1>4. q.status[i] # "saved"
    BY <1>3
  <1>5. Touched(q, p, i)
    BY <1>2, <1>3, Zenon DEF Touched, Alike
  <1>6. q.pending[i] # None => Open(q, i)
    <2>1. p.pending[i] # None => Open(p, i)
      BY DEF Honest, HonestCard
    <2> QED BY <1>2, <1>4, <2>1, Zenon DEF Open
  <1>7. Honest(q)
    BY <1>4, <1>5, <1>6, TouchedIsHonest
  <1>8. Honest(Enqueue(q, i))
    BY <1>1, <1>7, EnqueueMoves, MovedIsHonest
  <1> QED BY <1>8 DEF q

(* The page when an answer arrives: its card is open. *)
LEMMA WaitingIsOpen ==
  ASSUME NEW p, NEW i, Waiting(p, i), Honest(p), Engaged(p)
  PROVE  /\ p \in PageState /\ i \in Item /\ TablesOK
         /\ p.call.item = i /\ Open(p, i)
         /\ \A j \in PendingIds(p) : j \in Item /\ Open(p, j)
  <1>1. p \in PageState /\ i \in Item /\ TablesOK /\ p.call \in Call /\ p.call.item = i
    BY DEF Waiting, Active
  <1>2. Open(p, i)
    BY <1>1, CallFields DEF Engaged
  <1>3. ASSUME NEW j \in PendingIds(p)
        PROVE  j \in Item /\ Open(p, j)
    <2>1. j \in Item /\ p.pending[j] # None
      BY <1>1, Fields DEF PendingIds
    <2> QED BY <2>1 DEF Honest, HonestCard
  <1> QED BY <1>1, <1>2, <1>3

LEMMA SavedIsHonest ==
  ASSUME NEW p, NEW i, Waiting(p, i), NEW ans \in AnswerType, Honest(p), Engaged(p)
  PROVE  Honest(HandleSaved(p, i, ans))
  <1> DEFINE invalid == ParsedQuantity(p, i) = None
             S == PendingIds(p) \cup (IF invalid THEN {i} ELSE {})
             q == ApplySnapshot(p, ans, S)
             persisted == IF i \in items THEN selected[i] ELSE 0
             q1 == [q EXCEPT !.status[i] = "saving"]
             gone == BasketOnly /\ persisted = 0
             cards == IF gone THEN q.cards \ {i} ELSE q.cards
             r == [q EXCEPT !.pending[i] = None, !.input[i] = persisted,
                            !.lastAttempt[i] = None, !.status[i] = "saved",
                            !.cards = cards]
  <1>1. /\ p \in PageState /\ i \in Item /\ TablesOK /\ p.call.item = i /\ Open(p, i)
        /\ \A j \in PendingIds(p) : j \in Item /\ Open(p, j)
    BY WaitingIsOpen
  <1>2. S \in SUBSET Item /\ \A j \in S : Open(p, j)
    BY <1>1
  <1>3. q \in PageState
    <2> HIDE DEF S
    <2> QED BY <1>1, <1>2, SnapshotAfter, PendingIdsType
  <1>4. Honest(q) /\ q.call = p.call
    <2> HIDE DEF S
    <2> QED BY <1>1, <1>2, SnapshotIsHonest
  <1>5. CASE invalid
    <2>1. HandleSaved(p, i, ans) = q
      BY <1>5, Zenon DEF HandleSaved
    <2> HIDE DEF q
    <2> QED BY <1>4, <2>1
  <1>6. CASE ~invalid /\ q.pending[i] \notin {None, persisted}
    <2>1. HandleSaved(p, i, ans) = Enqueue(q1, i)
      BY <1>6, Zenon DEF HandleSaved
    <2> HIDE DEF q
    <2> QED BY <1>1, <1>3, <1>4, <2>1, RequeueIsHonest
  <1>7. CASE ~invalid /\ q.pending[i] \in {None, persisted}
    <2>1. HandleSaved(p, i, ans) =
            [q EXCEPT !.pending[i] = None, !.input[i] = persisted,
                      !.lastAttempt[i] = None, !.status[i] = "saved",
                      !.cards = IF gone THEN @ \ {i} ELSE @]
      BY <1>7, Zenon DEF HandleSaved
    <2>2. HandleSaved(p, i, ans) = r
      <3> HIDE DEF q, gone
      <3> QED BY <1>3, <2>1, Zenon DEF PageState
    <2>3. persisted \in Number /\ "saved" \in Status /\ (i \in items => persisted = selected[i])
      BY <1>1, QuantityBounds DEF TablesOK, Status
    <2>4. cards \in SUBSET q.cards
      OBVIOUS
    <2> HIDE DEF q, cards, persisted
    <2>5. Honest(r)
      BY <1>1, <1>3, <1>4, <2>3, <2>4, SettleIsHonest, Zenon
    <2> QED BY <2>2, <2>5
  <1> QED BY <1>5, <1>6, <1>7

LEMMA LostIsHonest ==
  ASSUME NEW p, NEW i, Waiting(p, i), Honest(p), Engaged(p)
  PROVE  Honest(HandleLost(p, i))
  <1> DEFINE q == [p EXCEPT !.pending[i] = None]
  <1>1. p \in PageState /\ i \in Item /\ Open(p, i) /\ Desired(p, i) \in Number
    BY WaitingIsOpen, DesiredType
  <1>2. q \in PageState /\ Honest(q) /\ Open(q, i)
    <2> HIDE DEF q
    <2> QED BY <1>1, DropIsHonest DEF q
  <1>3. HandleLost(p, i) = OfferRetry(q, i, Desired(p, i))
    BY DEF HandleLost
  <1> HIDE DEF q
  <1>4. q.status[i] # "saved"
    BY <1>2, Zenon DEF Open
  <1> QED BY <1>1, <1>2, <1>3, <1>4, OfferIsHonest

LEMMA StaleIsHonest ==
  ASSUME NEW p, NEW i, Waiting(p, i), NEW ans \in AnswerType, Honest(p), Engaged(p)
  PROVE  Honest(HandleStale(p, i, ans))
  <1> DEFINE q == [p EXCEPT !.pending[i] = None]
             S == PendingIds(q) \cup {i}
             a == ApplySnapshot(q, ans, S)
  <1>1. /\ p \in PageState /\ i \in Item /\ TablesOK /\ Open(p, i)
        /\ Desired(p, i) \in Number
    BY WaitingIsOpen, DesiredType
  <1>2. q \in PageState /\ Honest(q) /\ Open(q, i)
    <2> HIDE DEF q
    <2> QED BY <1>1, DropIsHonest DEF q
  <1>3. HandleStale(p, i, ans) = OfferRetry(a, i, Desired(p, i))
    BY DEF HandleStale
  <1> HIDE DEF q
  <1>4. S \in SUBSET Item /\ \A j \in S : Open(q, j)
    <2>1. ASSUME NEW j \in PendingIds(q)
          PROVE  j \in Item /\ Open(q, j)
      <3>1. j \in Item /\ q.pending[j] # None
        BY <1>2, Fields DEF PendingIds
      <3> QED BY <1>2, <3>1 DEF Honest, HonestCard
    <2> QED BY <1>1, <1>2, <2>1
  <1> HIDE DEF S
  <1>5. a \in PageState
    BY <1>1, <1>2, <1>4, SnapshotAfter, PendingIdsType
  <1>6. Honest(a) /\ a.status[i] # "saved"
    BY <1>1, <1>2, <1>4, SnapshotIsHonest
  <1> HIDE DEF a
  <1> QED BY <1>1, <1>3, <1>5, <1>6, OfferIsHonest

LEMMA StockChangeIsHonest ==
  ASSUME NEW p, NEW i, Waiting(p, i), NEW ans \in AnswerType, Honest(p), Engaged(p)
  PROVE  Honest(HandleStockChange(p, i, ans))
  <1> DEFINE q == ApplySnapshot(p, ans, PendingIds(p))
             again == p.pending[i] # None /\ ParsedQuantity(q, i) # None
             q1 == [q EXCEPT !.status[i] = "saving"]
             r == [q EXCEPT !.pending[i] = None, !.input[i] = q.serverValue[i],
                            !.lastAttempt[i] = None, !.status[i] = "error",
                            !.cards = q.cards]
  <1>1. /\ p \in PageState /\ i \in Item /\ TablesOK /\ p.call.item = i /\ Open(p, i)
        /\ PendingIds(p) \in SUBSET Item
        /\ \A j \in PendingIds(p) : Open(p, j)
    BY WaitingIsOpen, PendingIdsType
  <1>2. q \in PageState
    BY <1>1, SnapshotAfter, PendingIdsType
  <1>3. Honest(q) /\ q.call = p.call /\ q.cards = p.cards /\ q.status[i] # "saved"
    BY <1>1, SnapshotIsHonest
  <1>4. CASE again
    <2>1. HandleStockChange(p, i, ans) = Enqueue(q1, i)
      BY <1>4, Zenon DEF HandleStockChange
    <2> HIDE DEF q
    <2> QED BY <1>1, <1>2, <1>3, <2>1, RequeueIsHonest
  <1>5. CASE ~again
    <2>1. HandleStockChange(p, i, ans) =
            [q EXCEPT !.pending[i] = None, !.lastAttempt[i] = None,
                      !.input[i] = q.serverValue[i], !.status[i] = "error"]
      BY <1>5, Zenon DEF HandleStockChange
    <2>2. HandleStockChange(p, i, ans) = r
      <3> HIDE DEF q
      <3> QED BY <1>2, <2>1, Zenon DEF PageState
    <2> HIDE DEF q
    <2>3. q.serverValue[i] \in Number /\ "error" \in Status /\ q.cards \in SUBSET q.cards
      BY <1>1, <1>2, Fields, QuantityBounds DEF Status
    <2>4. Honest(r)
      <3> DEFINE v == q.serverValue[i]
                 cards == q.cards
      <3> HIDE DEF v, cards
      <3> QED BY <1>1, <1>2, <1>3, <2>3, SettleIsHonest, Zenon DEF v, cards
    <2> QED BY <2>2, <2>4
  <1> QED BY <1>4, <1>5

LEMMA NotFoundIsHonest ==
  ASSUME NEW p, NEW i, Waiting(p, i), NEW ans \in AnswerType, Honest(p), Engaged(p)
  PROVE  Honest(HandleNotFound(p, i, ans))
  <1> DEFINE q == [p EXCEPT !.pending[i] = None]
             a == ApplySnapshot(q, ans, {})
             r == [a EXCEPT !.status[i] = "gone"]
  <1>1. p \in PageState /\ i \in Item /\ TablesOK
    BY WaitingIsOpen
  <1>2. q \in PageState /\ Honest(q) /\ q.pending[i] = None
    <2>1. q \in PageState /\ Honest(q)
      <3> HIDE DEF q
      <3> QED BY <1>1, DropIsHonest DEF q
    <2> QED BY <1>1, <2>1, DropIsQuiet
  <1>3. HandleNotFound(p, i, ans) = r
    BY DEF HandleNotFound
  <1> HIDE DEF q
  <1>4. a \in PageState /\ Honest(a) /\ a.pending[i] = None
    <2>1. a \in PageState /\ Calmer(a, q)
      BY <1>1, <1>2, SnapshotAfter, PendingIdsType
    <2>2. Honest(a)
      BY <1>1, <1>2, SnapshotIsHonest
    <2>3. a.pending[i] = None
      BY <1>1, <1>2, <2>1, Zenon DEF Calmer
    <2> QED BY <2>1, <2>2, <2>3
  <1> HIDE DEF a
  <1>5. /\ r.cards = a.cards /\ r.call = a.call /\ r.shownEdits = a.shownEdits
        /\ r.input = a.input /\ r.available = a.available /\ r.pending = a.pending
        /\ r.status = [a.status EXCEPT ![i] = "gone"]
    BY <1>4, Zenon DEF PageState
  <1> HIDE DEF r
  <1>6. r.status[i] = "gone" /\ \A j \in Item \ {i} : r.status[j] = a.status[j]
    BY <1>1, <1>4, <1>5, Fields, SMT
  <1>7. r.status[i] # "saved"
    BY <1>6
  <1>8. Touched(r, a, i)
    BY <1>5, <1>6, Zenon DEF Touched, Alike
  <1>9. Honest(r)
    BY <1>1, <1>4, <1>5, <1>7, <1>8, TouchedIsHonest
  <1> QED BY <1>3, <1>9

LEMMA UnavailableIsHonest ==
  ASSUME NEW p, NEW i, Waiting(p, i), NEW ans \in AnswerType, Honest(p), Engaged(p)
  PROVE  Honest(HandleUnavailable(p, i, ans))
  <1> DEFINE q1 == [p EXCEPT !.pending[i] = None]
             q2 == [q1 EXCEPT !.lastAttempt[i] = None]
             a == ApplySnapshot(q2, ans, {})
             r == [a EXCEPT !.available[i] = FALSE, !.timer[i] = FALSE, !.pending[i] = None,
                            !.lastAttempt[i] = None, !.status[i] = "error"]
  <1>1. p \in PageState /\ i \in Item /\ TablesOK
    BY WaitingIsOpen
  <1>2. q1 \in PageState /\ Honest(q1)
    <2> HIDE DEF q1
    <2> QED BY <1>1, DropIsHonest DEF q1
  <1>3. q2 \in PageState /\ Honest(q2)
    <2> HIDE DEF q1
    <2>1. q2 \in PageState
      BY <1>1, <1>2, AttemptIsQuiet, QuietType, QuantityBounds
    <2>2. /\ q2.cards = q1.cards /\ q2.call = q1.call /\ q2.shownEdits = q1.shownEdits
          /\ q2.input = q1.input /\ q2.available = q1.available /\ q2.pending = q1.pending
          /\ q2.status = q1.status
      BY <1>2, Zenon DEF PageState
    <2> HIDE DEF q2
    <2>3. ASSUME NEW j \in Item
          PROVE  HonestCard(q2, j)
      <3>1. HonestCard(q1, j)
        BY <1>2 DEF Honest
      <3> QED BY <2>2, <3>1, Zenon DEF HonestCard, Open
    <2> QED BY <2>1, <2>3 DEF Honest
  <1>4. HandleUnavailable(p, i, ans) = r
    <2>1. q2 = [p EXCEPT !.pending[i] = None, !.lastAttempt[i] = None]
      BY Zenon
    <2> HIDE DEF q2
    <2> QED BY <2>1, Zenon DEF HandleUnavailable
  <1> HIDE DEF q2
  <1>5. a \in PageState
    BY <1>1, <1>3, SnapshotAfter, PendingIdsType
  <1>6. Honest(a)
    BY <1>1, <1>3, SnapshotIsHonest
  <1> HIDE DEF a
  <1>7. /\ r.cards = a.cards /\ r.call = a.call /\ r.shownEdits = a.shownEdits
        /\ r.input = a.input /\ r.available = [a.available EXCEPT ![i] = FALSE]
        /\ r.pending = [a.pending EXCEPT ![i] = None]
        /\ r.status = [a.status EXCEPT ![i] = "error"]
    BY <1>5, Zenon DEF PageState
  <1> HIDE DEF r
  <1>8. /\ r.status[i] = "error" /\ \A j \in Item \ {i} : r.status[j] = a.status[j]
        /\ r.pending[i] = None /\ \A j \in Item \ {i} : r.pending[j] = a.pending[j]
        /\ \A j \in Item \ {i} : r.available[j] = a.available[j]
    BY <1>1, <1>5, <1>7, Fields, SMT
  <1>9. r.status[i] # "saved"
    BY <1>8
  <1>10. Touched(r, a, i)
    BY <1>7, <1>8, Zenon DEF Touched, Alike
  <1>11. Honest(r)
    BY <1>1, <1>6, <1>8, <1>9, <1>10, TouchedIsHonest
  <1> QED BY <1>4, <1>11

LEMMA AnswerIsHonest ==
  ASSUME NEW p, NEW i, Waiting(p, i), NEW ans \in AnswerType, NEW code \in Code,
         Honest(p), Engaged(p)
  PROVE  Honest(Handle(p, i, code, ans))
  <1>1. CASE code = "ok"
    BY <1>1, SavedIsHonest DEF Handle
  <1>2. CASE code \in {"stale_revision", "save_failed"}
    BY <1>2, StaleIsHonest DEF Handle
  <1>3. CASE code = "quantity_out_of_range"
    BY <1>3, StockChangeIsHonest DEF Handle
  <1>4. CASE code = "item_unavailable"
    BY <1>4, UnavailableIsHonest DEF Handle
  <1>5. CASE code = "item_not_found"
    BY <1>5, NotFoundIsHonest DEF Handle
  <1> QED BY <1>1, <1>2, <1>3, <1>4, <1>5 DEF Code

(* The request has ended and the next draft is sent. *)
LEMMA FinishIsHonest ==
  ASSUME NEW p \in PageState, Honest(p)
  PROVE  Honest(Finish(p)) /\ Engaged(Finish(p))
  <1> DEFINE d == [p EXCEPT !.call = NoCall]
  <1>1. d \in PageState
    BY FieldUpdates, Zenon
  <1>2. /\ d.cards = p.cards /\ d.shownEdits = p.shownEdits /\ d.input = p.input
        /\ d.available = p.available /\ d.pending = p.pending /\ d.status = p.status
        /\ d.call = NoCall
    BY Zenon DEF PageState
  <1>3. Finish(p) = Drain(d)
    BY DEF Finish
  <1> HIDE DEF d
  <1>4. ASSUME NEW j \in Item
        PROVE  HonestCard(d, j)
    <2>1. HonestCard(p, j)
      BY DEF Honest
    <2> QED BY <1>2, <2>1, Zenon DEF HonestCard, Open
  <1>5. Honest(d) /\ Engaged(d)
    BY <1>2, <1>4 DEF Honest, Engaged
  <1> QED BY <1>1, <1>3, <1>5, DrainMoves, MovedIsHonest

(* The customer's draft d replaces what card i of page p had. *)
LEMMA DraftIsHonest ==
  ASSUME NEW p \in PageState, NEW i \in Item, NEW d, Honest(p), Engaged(p), p.available[i],
         d.available = p.available, d.status[i] # "saved", Touched(d, p, i)
  PROVE  Honest(d) /\ Engaged(d)
  <1>1. Open(d, i)
    BY Zenon DEF Open
  <1>2. Honest(d)
    BY <1>1, TouchedIsHonest
  <1>3. ASSUME NEW j \in Item \ {i}, Open(p, j)
        PROVE  Open(d, j)
    BY <1>3, Zenon DEF Touched, Alike, Open
  <1>4. Engaged(d)
    <2> SUFFICES ASSUME d.call # NoCall
                 PROVE  Open(d, d.call.item)
      BY DEF Engaged
    <2>1. d.call.item \in Item
      BY Fields, CallFields DEF Touched
    <2>2. Open(p, d.call.item)
      BY Zenon DEF Touched, Engaged
    <2> QED BY <1>1, <1>3, <2>1, <2>2
  <1> QED BY <1>2, <1>4

LEMMA ScheduleIsHonest ==
  ASSUME NEW p \in PageState, NEW i \in Item, NEW v \in Number, NEW immediate \in BOOLEAN,
         typed \in Nat, Honest(p), Engaged(p), p.available[i]
  PROVE  Honest(Schedule(p, i, v, immediate)) /\ Engaged(Schedule(p, i, v, immediate))
  <1> DEFINE q == [p EXCEPT !.input[i] = v, !.timer[i] = FALSE,
                            !.draft[i] = typed + 1, !.draftEdits[i] = p.shownEdits[i]]
             n == ParsedQuantity(q, i)
             wrong == [q EXCEPT !.pending[i] = None, !.status[i] = "error"]
             drafted == [q EXCEPT !.pending[i] = n, !.lastAttempt[i] = n,
                                  !.status[i] = "saving"]
             timed == [drafted EXCEPT !.timer[i] = TRUE]
  <1>1. /\ q.cards = p.cards /\ q.call = p.call /\ q.shownEdits = p.shownEdits
        /\ q.input = [p.input EXCEPT ![i] = v] /\ q.available = p.available
        /\ q.pending = p.pending /\ q.status = p.status
    BY Zenon DEF PageState
  <1>2. q \in PageState /\ Drafted(q, p, i)
    BY ScheduleTypes, Zenon
  <1>3. n \in Number
    <2>1. q.input[i] \in Number
      <3> HIDE DEF q
      <3> QED BY <1>2, Fields
    <2> HIDE DEF q
    <2> QED BY <2>1, QuantityBounds DEF ParsedQuantity
  <1>4. drafted \in PageState
    <2>1. Drafted(drafted, p, i)
      <3> HIDE DEF q, n
      <3> QED BY <1>2, <1>3, ScheduleDrafts, Zenon
    <2> HIDE DEF drafted
    <2> QED BY <2>1 DEF Drafted
  <1>5. \/ Schedule(p, i, v, immediate) = wrong
        \/ Schedule(p, i, v, immediate) = Enqueue(drafted, i)
        \/ Schedule(p, i, v, immediate) = timed
    BY Zenon DEF Schedule
  <1> HIDE DEF q, n
  <1>6. ASSUME NEW d, NEW m, NEW s,
               d.cards = q.cards, d.call = q.call, d.shownEdits = q.shownEdits,
               d.input = q.input, d.available = q.available,
               d.pending = [q.pending EXCEPT ![i] = m],
               d.status = [q.status EXCEPT ![i] = s], s # "saved"
        PROVE  Honest(d) /\ Engaged(d)
    <2>1. /\ d.status[i] = s /\ \A j \in Item \ {i} : d.status[j] = p.status[j]
          /\ \A j \in Item \ {i} : d.pending[j] = p.pending[j]
          /\ \A j \in Item \ {i} : d.input[j] = p.input[j]
      BY <1>1, <1>6, Fields, SMT
    <2>2. Touched(d, p, i)
      BY <1>1, <1>6, <2>1, Zenon DEF Touched, Alike
    <2>3. d.available = p.available /\ d.status[i] # "saved"
      BY <1>1, <1>6, <2>1
    <2> QED BY <2>2, <2>3, DraftIsHonest
  <1>7. Honest(wrong) /\ Engaged(wrong)
    <2>1. /\ wrong.cards = q.cards /\ wrong.call = q.call /\ wrong.shownEdits = q.shownEdits
          /\ wrong.input = q.input /\ wrong.available = q.available
          /\ wrong.pending = [q.pending EXCEPT ![i] = None]
          /\ wrong.status = [q.status EXCEPT ![i] = "error"]
      BY <1>2, Zenon DEF PageState
    <2> HIDE DEF wrong
    <2> QED BY <1>6, <2>1
  <1>8. /\ drafted.cards = q.cards /\ drafted.call = q.call
        /\ drafted.shownEdits = q.shownEdits
        /\ drafted.input = q.input /\ drafted.available = q.available
        /\ drafted.pending = [q.pending EXCEPT ![i] = n]
        /\ drafted.status = [q.status EXCEPT ![i] = "saving"]
    BY <1>2, Zenon DEF PageState
  <1> HIDE DEF drafted
  <1>9. Honest(drafted) /\ Engaged(drafted)
    BY <1>6, <1>8
  <1>10. Honest(timed) /\ Engaged(timed)
    <2>1. /\ timed.cards = q.cards /\ timed.call = q.call /\ timed.shownEdits = q.shownEdits
          /\ timed.input = q.input /\ timed.available = q.available
          /\ timed.pending = [q.pending EXCEPT ![i] = n]
          /\ timed.status = [q.status EXCEPT ![i] = "saving"]
      BY <1>4, <1>8, Zenon DEF PageState
    <2> HIDE DEF timed
    <2> QED BY <1>6, <2>1
  <1>11. Honest(Enqueue(drafted, i)) /\ Engaged(Enqueue(drafted, i))
    BY <1>4, <1>9, EnqueueMoves, MovedIsHonest
  <1> HIDE DEF wrong, timed
  <1> QED BY <1>5, <1>7, <1>10, <1>11

LEMMA RetryIsHonest ==
  ASSUME NEW p \in PageState, NEW i \in Item, typed \in Nat,
         Honest(p), Engaged(p), p.available[i]
  PROVE  Honest(RetrySave(p, i)) /\ Engaged(RetrySave(p, i))
  <1> DEFINE v == p.lastAttempt[i]
             d == [p EXCEPT !.input[i] = v, !.pending[i] = v, !.status[i] = "saving",
                            !.draft[i] = typed + 1, !.draftEdits[i] = p.shownEdits[i]]
  <1>1. RetrySave(p, i) = Enqueue(d, i)
    BY Zenon DEF RetrySave
  <1>2. v \in Number
    BY Fields
  <1> HIDE DEF v
  <1>3. d \in PageState
    <2>1. Drafted(d, p, i)
      BY <1>2, RetryDrafts, Zenon
    <2> HIDE DEF d
    <2> QED BY <2>1 DEF Drafted
  <1>4. /\ d.cards = p.cards /\ d.call = p.call /\ d.shownEdits = p.shownEdits
        /\ d.input = [p.input EXCEPT ![i] = v] /\ d.available = p.available
        /\ d.pending = [p.pending EXCEPT ![i] = v]
        /\ d.status = [p.status EXCEPT ![i] = "saving"]
    BY Zenon DEF PageState
  <1> HIDE DEF d
  <1>5. /\ d.status[i] = "saving" /\ \A j \in Item \ {i} : d.status[j] = p.status[j]
        /\ \A j \in Item \ {i} : d.pending[j] = p.pending[j]
        /\ \A j \in Item \ {i} : d.input[j] = p.input[j]
    BY <1>4, Fields, SMT
  <1>6. Touched(d, p, i)
    BY <1>4, <1>5, Zenon DEF Touched, Alike
  <1>7. d.status[i] # "saved"
    BY <1>5
  <1>8. Honest(d) /\ Engaged(d)
    BY <1>4, <1>6, <1>7, DraftIsHonest
  <1> QED BY <1>1, <1>3, <1>8, EnqueueMoves, MovedIsHonest

-----------------------------------------------------------------------------
(* The steps keep the cards honest *)

Told == Honest(page) /\ Engaged(page)

LEMMA PageStepTold ==
  ASSUME Honest(page'), Engaged(page'), UNCHANGED <<tables, edits>>
  PROVE  Told'
  BY DEF Told, Honest, HonestCard, Engaged, Open, tables

LEMMA EventTold ==
  ASSUME IInv, Told, NEW i \in Item,
         \/ \E v \in Number, immediate \in BOOLEAN : Type(i, v, immediate)
         \/ ClickRetry(i)
         \/ TimerFires(i)
  PROVE  Told'
  <1>1. page \in PageState /\ typed \in Nat /\ Honest(page) /\ Engaged(page)
    BY DEF IInv, TypeOK, Told
  <1>2. ASSUME NEW v \in Number, NEW immediate \in BOOLEAN, Type(i, v, immediate)
        PROVE  Told'
    <2>1. page' = Schedule(page, i, v, immediate) /\ UNCHANGED <<tables, edits>>
      BY <1>2 DEF Type
    <2>2. page.available[i]
      BY <1>2, Zenon DEF Type, Enabled
    <2>3. Honest(page') /\ Engaged(page')
      BY <1>1, <2>1, <2>2, ScheduleIsHonest
    <2> QED BY <2>1, <2>3, PageStepTold
  <1>3. CASE ClickRetry(i)
    <2>1. page' = RetrySave(page, i) /\ UNCHANGED <<tables, edits>>
      BY <1>3 DEF ClickRetry
    <2>2. page.available[i]
      BY <1>3, Zenon DEF ClickRetry, Enabled
    <2>3. Honest(page') /\ Engaged(page')
      BY <1>1, <2>1, <2>2, RetryIsHonest
    <2> QED BY <2>1, <2>3, PageStepTold
  <1>4. CASE TimerFires(i)
    <2> DEFINE d == [page EXCEPT !.timer[i] = FALSE]
               timer == [page.timer EXCEPT ![i] = FALSE]
    <2>1. page' = Enqueue(d, i) /\ UNCHANGED <<tables, edits>>
      BY <1>4 DEF TimerFires
    <2>2. d \in PageState
      <3>1. timer \in [Item -> BOOLEAN]
        BY <1>1, Fields, SMT
      <3>2. d = [page EXCEPT !.timer = timer]
        BY Zenon
      <3> HIDE DEF d, timer
      <3> QED BY <1>1, <3>1, <3>2, FieldUpdates, Zenon
    <2>3. /\ d.cards = page.cards /\ d.shownEdits = page.shownEdits
          /\ d.input = page.input /\ d.available = page.available
          /\ d.pending = page.pending /\ d.status = page.status /\ d.call = page.call
      BY <1>1, Zenon DEF PageState
    <2> HIDE DEF d
    <2>4. ASSUME NEW j \in Item
          PROVE  HonestCard(d, j)
      <3>1. HonestCard(page, j)
        BY <1>1 DEF Honest
      <3> QED BY <2>3, <3>1, Zenon DEF HonestCard, Open
    <2>5. Engaged(d)
      BY <1>1, <2>3, Zenon DEF Engaged, Open
    <2>6. Honest(d)
      BY <2>4 DEF Honest
    <2>7. Honest(page') /\ Engaged(page')
      BY <2>1, <2>2, <2>5, <2>6, EnqueueMoves, MovedIsHonest
    <2> QED BY <2>1, <2>7, PageStepTold
  <1> QED BY <1>2, <1>3, <1>4

LEMMA AnswerTold ==
  ASSUME IInv, Told, Deliver
  PROVE  Told'
  <1>1. /\ TypeOK /\ reply # NoReply /\ reply.read /\ page.call # NoCall
        /\ Honest(page) /\ Engaged(page)
    BY DEF IInv, DraftOrder, Deliver, Told
  <1>2. Active(page) # NoItem
    <2>1. page.call \in Call \cup {NoCall}
      BY <1>1, Fields DEF TypeOK
    <2> QED BY <1>1, <2>1, CallFields, NoItemAssumption DEF Active
  <1>3. Waiting(page, Active(page))
    BY <1>2, IsWaiting
  <1>4. reply.code \in Code
    BY <1>1 DEF TypeOK, Reply
  <1>5. Answer \in AnswerType
    BY <1>1, <1>3, AnswerHasType DEF Waiting
  <1> DEFINE p == Handle(page, Active(page), reply.code, Answer)
  <1>6. p \in PageState
    BY <1>3, <1>4, <1>5, AnswerIsHandled DEF Handled
  <1>7. Honest(p)
    BY <1>1, <1>3, <1>4, <1>5, AnswerIsHonest
  <1>8. page' = Finish(p) /\ UNCHANGED <<tables, edits>>
    BY DEF Deliver
  <1> HIDE DEF p
  <1>9. Honest(page') /\ Engaged(page')
    BY <1>6, <1>7, <1>8, FinishIsHonest
  <1> QED BY <1>8, <1>9, PageStepTold

LEMMA LossTold ==
  ASSUME IInv, Told, NEW arrives \in BOOLEAN, LoseAnswer(arrives)
  PROVE  Told'
  <1> DEFINE p == HandleLost(page, Active(page))
  <1>1. Waiting(page, Active(page)) /\ Honest(page) /\ Engaged(page)
    BY IsWaiting DEF LoseAnswer, Told
  <1>2. p \in PageState
    BY <1>1, LostIsHandled DEF Handled
  <1>3. Honest(p)
    BY <1>1, LostIsHonest
  <1>4. page' = Finish(p) /\ UNCHANGED <<tables, edits>>
    BY DEF LoseAnswer
  <1> HIDE DEF p
  <1>5. Honest(page') /\ Engaged(page')
    BY <1>2, <1>3, <1>4, FinishIsHonest
  <1> QED BY <1>4, <1>5, PageStepTold

(* The basket changes for one item, whose card does not say "Saved" or is told of
   one edit too few. *)
LEMMA TableStepTold ==
  ASSUME IInv, Told, UNCHANGED page, items' \subseteq items,
         NEW i \in Item, page.status[i] # "saved" \/ edits'[i] > edits[i],
         \A j \in Item : edits'[j] \in Nat /\ edits'[j] >= edits[j],
         \A j \in Item \ {i} : selected'[j] = selected[j]
  PROVE  Told'
  <1>1. /\ page.shownEdits \in [Item -> Nat] /\ edits \in [Item -> Nat]
        /\ Honest(page) /\ Engaged(page)
    BY Fields DEF IInv, TypeOK, Told
  <1>2. ASSUME NEW j \in Item
        PROVE  HonestCard(page, j)'
    <2>1. /\ page.shownEdits[j] \in Nat /\ edits[j] \in Nat /\ edits'[j] \in Nat
          /\ edits[j] <= edits'[j] /\ page.shownEdits[j] <= edits[j]
      BY <1>1 DEF Honest, HonestCard
    <2>2. page.shownEdits[j] <= edits'[j]
      BY <2>1
    <2>3. page.shownEdits[j] = edits'[j] => edits'[j] = edits[j]
      BY <2>1
    <2>4. HonestCard(page, j)
      BY <1>1 DEF Honest
    <2>5. page.pending[j] # None => Open(page, j)
      BY <2>4 DEF HonestCard
    <2>6. ASSUME j \in page.cards \cap items', page.status[j] = "saved",
                 page.shownEdits[j] = edits'[j]
          PROVE  page.input[j] = selected'[j]
      <3>1. page.input[j] = selected[j] /\ edits'[j] = edits[j]
        BY <2>3, <2>4, <2>6 DEF HonestCard
      <3>2. j # i
        BY <2>1, <2>6, <3>1
      <3> QED BY <3>1, <3>2
    <2> QED BY <2>2, <2>5, <2>6 DEF HonestCard, Open
  <1>3. Engaged(page)'
    BY <1>1 DEF Engaged, Open
  <1> QED BY <1>2, <1>3 DEF Told, Honest

LEMMA ServeTold ==
  ASSUME IInv, Told, NEW code \in Code, Serve(code)
  PROVE  Told'
  <1>1. /\ page.call \in Call /\ page.call.item \in Item
        /\ selected \in [Item -> Quantity] /\ edits \in [Item -> Nat]
        /\ UNCHANGED <<page, edits>>
    BY IsWaiting, CallFields DEF Serve, IInv, TypeOK
  <1>2. CASE code = "ok"
    <2>1. /\ selected' = [selected EXCEPT ![page.call.item] = page.call.quantity]
          /\ items' = items
      BY <1>2 DEF Serve, Accept
    <2>2. page.status[page.call.item] # "saved"
      BY <1>1, CallFields, Zenon DEF Told, Engaged, Open
    <2>3. \A j \in Item \ {page.call.item} : selected'[j] = selected[j]
      BY <1>1, <2>1
    <2> QED BY <1>1, <2>1, <2>2, <2>3, TableStepTold
  <1>3. CASE code # "ok"
    <2>1. UNCHANGED tables
      BY <1>3 DEF Serve
    <2> QED BY <1>1, <2>1, PageStepTold DEF Told
  <1> QED BY <1>2, <1>3

LEMMA ServeOrphanTold ==
  ASSUME IInv, Told, ServeOrphan
  PROVE  Told'
  <1> DEFINE i == orphan.item
  <1>1. /\ i \in Item /\ UNCHANGED page
        /\ selected \in [Item -> Quantity] /\ edits \in [Item -> Nat]
    BY CallFields DEF ServeOrphan, IInv, TypeOK
  <1>2. CASE Verdict(orphan) = "ok"
    <2>1. /\ selected' = [selected EXCEPT ![i] = orphan.quantity]
          /\ edits' = [edits EXCEPT ![i] = @ + 1]
          /\ items' = items
      BY <1>2 DEF ServeOrphan, Accept
    <2> HIDE DEF i
    <2>2. /\ edits'[i] = edits[i] + 1
          /\ \A j \in Item \ {i} : edits'[j] = edits[j]
          /\ \A j \in Item \ {i} : selected'[j] = selected[j]
      BY <1>1, <2>1
    <2>3. edits'[i] > edits[i] /\ \A j \in Item : edits'[j] \in Nat /\ edits'[j] >= edits[j]
      BY <1>1, <2>2
    <2> QED BY <1>1, <2>1, <2>2, <2>3, TableStepTold
  <1>3. CASE Verdict(orphan) # "ok"
    <2>1. UNCHANGED <<tables, edits>>
      BY <1>3 DEF ServeOrphan
    <2> QED BY <1>1, <2>1, PageStepTold DEF Told
  <1> QED BY <1>2, <1>3

LEMMA AdminTold ==
  ASSUME IInv, Told,
         \/ \E i \in Item, q \in Quantity : AdminEdit(i, q)
         \/ \E i \in Item, s \in Quantity, v \in BOOLEAN : AdminUpdate(i, s, v)
         \/ \E i \in Item : AdminDelete(i)
  PROVE  Told'
  <1>1. selected \in [Item -> Quantity] /\ edits \in [Item -> Nat]
    BY DEF IInv, TypeOK
  <1>2. ASSUME NEW i \in Item, NEW q \in Quantity, AdminEdit(i, q)
        PROVE  Told'
    <2>1. /\ edits' = [edits EXCEPT ![i] = @ + 1] /\ selected' = [selected EXCEPT ![i] = q]
          /\ items' = items /\ UNCHANGED page
      BY <1>2 DEF AdminEdit
    <2>2. /\ edits'[i] = edits[i] + 1
          /\ \A j \in Item \ {i} : edits'[j] = edits[j]
          /\ \A j \in Item \ {i} : selected'[j] = selected[j]
      BY <1>1, <2>1
    <2>3. edits'[i] > edits[i] /\ \A j \in Item : edits'[j] \in Nat /\ edits'[j] >= edits[j]
      BY <1>1, <2>2
    <2> QED BY <2>1, <2>2, <2>3, TableStepTold
  <1>3. ASSUME UNCHANGED <<page, edits, selected>>, items' \subseteq items
        PROVE  Told'
    BY <1>3 DEF Told, Honest, HonestCard, Engaged, Open
  <1>4. ASSUME NEW i \in Item, NEW s \in Quantity, NEW v \in BOOLEAN, AdminUpdate(i, s, v)
        PROVE  Told'
    BY <1>3, <1>4 DEF AdminUpdate
  <1>5. ASSUME NEW i \in Item, AdminDelete(i)
        PROVE  Told'
    BY <1>3, <1>5 DEF AdminDelete
  <1> QED BY <1>2, <1>4, <1>5

LEMMA InitTold ==
  ASSUME Init
  PROVE  Told
  <1> DEFINE none == [i \in Item |-> FALSE]
             zero == [i \in Item |-> 0]
             empty == [i \in Item |-> None]
             status == [i \in Item |-> IF visible[i] THEN "saved" ELSE "locked"]
  <1>1. /\ page =
             [cards |-> Item, revision |-> 0, queue |-> <<>>, call |-> NoCall,
              input |-> selected, max |-> stock, timer |-> none,
              pending |-> empty, queued |-> none,
              lastAttempt |-> empty, serverValue |-> selected,
              available |-> visible, status |-> status,
              shownEdits |-> zero, draft |-> zero, draftEdits |-> zero]
        /\ edits = zero
    BY DEF Init
  <1>2. \A i \in Item : zero[i] = 0 /\ empty[i] = None
    OBVIOUS
  <1> HIDE DEF none, zero, empty, status
  <1>3. /\ page.shownEdits = zero /\ page.pending = empty
        /\ page.input = selected /\ page.call = NoCall
    BY <1>1, SMT
  <1>4. ASSUME NEW i \in Item
        PROVE  HonestCard(page, i)
    <2>1. page.shownEdits[i] <= edits[i]
      BY <1>1, <1>2, <1>3
    <2>2. page.pending[i] = None /\ page.input[i] = selected[i]
      BY <1>2, <1>3
    <2> QED BY <2>1, <2>2 DEF HonestCard
  <1> QED BY <1>3, <1>4 DEF Told, Honest, Engaged

LEMMA NextTold ==
  ASSUME IInv, Told, [Next]_vars
  PROVE  Told'
  <1>1. CASE UNCHANGED vars
    BY <1>1, PageStepTold DEF vars, tables, Told
  <1>2. ASSUME NEW i \in Item,
               \/ \E v \in Number, immediate \in BOOLEAN : Type(i, v, immediate)
               \/ ClickRetry(i)
               \/ TimerFires(i)
        PROVE  Told'
    BY <1>2, EventTold
  <1>3. CASE ReadRevision
    BY <1>3, PageStepTold DEF ReadRevision, Told
  <1>4. CASE Network
    BY <1>3, <1>4, ServeTold, AnswerTold, LossTold DEF Network
  <1>5. CASE ServeOrphan
    BY <1>5, ServeOrphanTold
  <1>6. CASE \/ \E i \in Item, q \in Quantity : AdminEdit(i, q)
             \/ \E i \in Item, s \in Quantity, v \in BOOLEAN : AdminUpdate(i, s, v)
             \/ \E i \in Item : AdminDelete(i)
    BY <1>6, AdminTold
  <1> QED BY <1>1, <1>2, <1>4, <1>5, <1>6, Zenon DEF Next

(* A card that says "Saved" shows what the basket holds unless it was edited behind
   the page's back: whatever was typed meanwhile, whichever answers were lost or
   late, and whatever administrators changed between the steps of a save. *)
THEOREM SavedCardsAreTrue == Spec => []SavedIsTrue
  <1>1. Init => Told
    BY InitTold
  <1>2. IInv /\ Told /\ [Next]_vars => Told'
    BY NextTold
  <1>3. IInv /\ Told => SavedIsTrue
    <2> SUFFICES ASSUME Told, IInv, NEW i \in page.cards \cap items
                 PROVE  page.status[i] = "saved" /\ page.shownEdits[i] = edits[i]
                          => page.input[i] = selected[i]
      BY DEF SavedIsTrue
    <2>1. i \in Item
      BY DEF IInv, TypeOK
    <2> QED BY <2>1 DEF Told, Honest, HonestCard
  <1> QED BY <1>1, <1>2, <1>3, Invariance, PTL DEF Spec
=============================================================================
