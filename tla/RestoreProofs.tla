---------------------------- MODULE RestoreProofs ----------------------------
(* Theorems about Restore for any number of failures and kills.                *)
EXTENDS Restore, SequenceTheorems, TLAPS

-----------------------------------------------------------------------------
(* The inductive invariant *)

\* The turn of a loop over all names at which it comes to a file.
Turn(f) == CASE f = "database" -> 1 [] f = "wal" -> 2 [] f = "shm" -> 3 [] f = "images" -> 4

\* The files an archive holds, and their turn of the loop over them.
Durable == {"database", "images"}
DurableTurn(f) == IF f = "database" THEN 1 ELSE 2

\* A loop that begins after so many turns has come past a file.
Past(f, turns) == turns + Turn(f) < command.next
PastDurable(f, turns) == f \in Durable /\ turns + DurableTurn(f) < command.next

\* What a stopped application leaves.
OldFiles ==
  /\ old \in [File -> {"old", "none"}]
  /\ \A f \in Durable : old[f] = "old"

NothingBeside == dir["prior"] = Nothing /\ dir["aside"] = Nothing

Survives == \A f \in File : old[f] = "old" => "old" \in {dir["live"][f], dir["prior"][f]}

\* _apply_staged_restore moves the old files away and then installs the new ones.
Applying ==
  /\ command.next \in 1..7
  /\ \A f \in File :
       /\ dir["prior"][f] = IF Past(f, 0) THEN old[f] ELSE "none"
       /\ dir["live"][f] = CASE PastDurable(f, 4) -> "new"
                             [] Past(f, 0) /\ ~PastDurable(f, 4) -> "none"
                             [] OTHER -> old[f]
       /\ dir["stage"][f] = IF f \in Durable /\ ~PastDurable(f, 4) THEN "new" ELSE "none"
       /\ f \in command.moved <=> Past(f, 0) /\ old[f] = "old"
       /\ f \in command.installed <=> PastDurable(f, 4)

\* Its handler: what was moved is in the prior directory until its turn has come,
\* and only what was installed is in its place.
Undoing ==
  /\ command.next \in 1..7
  /\ command.installed \subseteq command.moved \cap Durable
  /\ \A f \in command.installed :
       dir["stage"][f] = IF PastDurable(f, 0) THEN "new" ELSE "none"
  /\ \A f \in File \ command.moved : dir["live"][f] = old[f]
  /\ \A f \in command.moved :
       /\ old[f] = "old"
       /\ dir["prior"][f] = IF Past(f, 2) THEN "none" ELSE "old"
       /\ dir["live"][f] = CASE Past(f, 2) -> "old"
                             [] ~Past(f, 2) /\ f \in command.installed /\ ~PastDurable(f, 0) -> "new"
                             [] OTHER -> "none"

\* The container has been stopped; no running application makes this file.
Alone == ~web
Quiet(f) == Alone \/ f = "images"

\* rollback_restore sets the restored files aside and then returns the old ones,
\* over those that a running application has made in between.
RollingForward ==
  /\ command.next \in 1..9
  /\ \A f \in File :
       /\ ~Past(f, 0) => dir["aside"][f] = "none"
       /\ dir["prior"][f] = IF Past(f, 4) THEN "none" ELSE old[f]
       /\ Past(f, 4) /\ old[f] = "old" => dir["live"][f] = "old"
       /\ Past(f, 0) /\ Quiet(f) => dir["live"][f] = IF Past(f, 4) THEN old[f] ELSE "none"

\* Every old file is back, and nothing else if the application could be stopped.
RolledBack ==
  /\ \A f \in File : old[f] = "old" => dir["live"][f] = "old"
  /\ Alone => dir["live"] = old

Untroubled == failures = 0 /\ kills = 0

\* What the files are at each step of the script.
Files ==
  CASE script \in {"verifying", "refused"} ->
         NothingBeside /\ dir["live"] = [f \in File |-> "old"] /\ old = dir["live"]
    [] script = "restoring" /\ command.name = "none" -> NothingBeside /\ dir["live"] = old
    [] script = "restoring" /\ command.phase = "apply" -> Applying /\ dir["aside"] = Nothing
    [] script = "restoring" /\ command.phase = "undo" -> Undoing /\ failures > 0
    [] script = "starting previous" ->
         Survives /\ (failures <= 1 /\ kills = 0 => dir["live"] = old)
    [] script = "not restored" -> Survives
    [] script \in {"starting", "checking", "restored"} ->
         RestoredIsWhole /\ dir["aside"] = Nothing
    [] script = "rolling back" /\ command.name = "none" ->
         dir["prior"] = old /\ dir["aside"] = Nothing
    [] script = "rolling back" /\ command.phase = "apply" -> RollingForward
    [] script = "rolling back" /\ command.phase = "undo" -> ~Untroubled
    [] script = "starting rolled back" -> Untroubled => RolledBack
    [] OTHER -> TRUE

\* Only a running command has a phase.
Phases == command.name = "none" <=> command.phase = "none"
Idle == command.name = "none" => command = NoCommand

IInv == TypeOK /\ OldFiles /\ Idle /\ Phases /\ Files
-----------------------------------------------------------------------------
(* The loops *)

OneMove == [file : File, from : Place, to : Place]

LEMMA Turns ==
  /\ \A f \in File : Turn(f) \in 1..4
  /\ \A f, g \in File : Turn(f) = Turn(g) => f = g
  /\ \A f \in Durable : f \in File /\ DurableTurn(f) \in 1..2
  /\ \A f, g \in Durable : DurableTurn(f) = DurableTurn(g) => f = g
<1>1. /\ Turn("database") = 1 /\ Turn("wal") = 2 /\ Turn("shm") = 3 /\ Turn("images") = 4
      /\ DurableTurn("database") = 1 /\ DurableTurn("images") = 2
  BY DEF Turn, DurableTurn
<1>2. \A f \in File : f = "database" \/ f = "wal" \/ f = "shm" \/ f = "images"
  BY DEF File
<1>3. \A f \in Durable : f \in File /\ (f = "database" \/ f = "images")
  BY DEF Durable, File
<1>4. (\A f \in File : Turn(f) \in 1..4) /\ (\A f, g \in File : Turn(f) = Turn(g) => f = g)
  BY <1>1, <1>2
<1>5. /\ \A f \in Durable : DurableTurn(f) \in 1..2
      /\ \A f, g \in Durable : DurableTurn(f) = DurableTurn(g) => f = g
  BY <1>1, <1>3
<1> QED BY <1>3, <1>4, <1>5

LEMMA Names ==
  /\ Len(StateNames) = 4
  /\ \A n \in 1..4 : StateNames[n] \in File /\ Turn(StateNames[n]) = n
BY DEF StateNames, File, Turn

LEMMA IsSequence ==
  ASSUME NEW S, NEW n \in Nat, NEW seq \in [1..n -> S]
  PROVE  seq \in Seq(S) /\ Len(seq) = n
<1>1. seq \in Seq(S)
  OBVIOUS
<1>2. Len(seq) \in Nat /\ DOMAIN seq = 1..Len(seq)
  BY <1>1, LenProperties
<1>3. DOMAIN seq = 1..n
  OBVIOUS
<1>4. 1..n = 1..Len(seq)
  BY <1>2, <1>3
<1>5. n = Len(seq)
  <2>1. \A i \in 1..n : i \in 1..Len(seq)
    BY <1>4
  <2>2. \A i \in 1..Len(seq) : i \in 1..n
    BY <1>4
  <2>3. n \in Nat
    OBVIOUS
  <2>4. n <= Len(seq)
    BY <1>2, <2>1, <2>3
  <2>5. Len(seq) <= n
    BY <1>2, <2>2, <2>3
  <2> QED BY <1>2, <2>3, <2>4, <2>5
<1> QED BY <1>1, <1>5

\* A loop over all names.
LEMMA AllTurns ==
  ASSUME NEW from \in Place, NEW to \in Place
  PROVE  /\ All(from, to) \in Seq(OneMove)
         /\ Len(All(from, to)) = 4
         /\ \A n \in 1..4 :
              All(from, to)[n] = [file |-> StateNames[n], from |-> from, to |-> to]
<1>1. All(from, to) = [n \in 1..4 |-> [file |-> StateNames[n], from |-> from, to |-> to]]
  BY Names DEF All
<1>2. \A n \in 1..4 : All(from, to)[n] \in OneMove
  BY <1>1, Names DEF OneMove
<1>3. All(from, to) \in [1..4 -> OneMove]
  BY <1>1, <1>2
<1>4. All(from, to) \in Seq(OneMove) /\ Len(All(from, to)) = 4
  <2>1. 4 \in Nat
    OBVIOUS
  <2> QED BY <1>3, <2>1, IsSequence
<1> QED BY <1>1, <1>4

\* The restored state's two files, into the data directory or back.
LEMMA DurableTurns ==
  /\ Installs \in Seq(OneMove) /\ Len(Installs) = 2
  /\ \A n \in 1..2 :
       /\ Installs[n].from = "stage" /\ Installs[n].to = "live"
       /\ Installs[n].file \in Durable /\ DurableTurn(Installs[n].file) = n
  /\ Uninstalls \in Seq(OneMove) /\ Len(Uninstalls) = 2
  /\ \A n \in 1..2 :
       /\ Uninstalls[n].from = "live" /\ Uninstalls[n].to = "stage"
       /\ Uninstalls[n].file \in Durable /\ DurableTurn(Uninstalls[n].file) = n
<1>1. \A n \in 1..2 : n = 1 \/ n = 2
  OBVIOUS
<1>2. /\ Installs \in Seq(OneMove) /\ Len(Installs) = 2
      /\ Uninstalls \in Seq(OneMove) /\ Len(Uninstalls) = 2
  BY DEF Installs, Uninstalls, File, Place, OneMove
<1>3. /\ Installs[1] = [file |-> "database", from |-> "stage", to |-> "live"]
      /\ Installs[2] = [file |-> "images", from |-> "stage", to |-> "live"]
      /\ Uninstalls[1] = [file |-> "database", from |-> "live", to |-> "stage"]
      /\ Uninstalls[2] = [file |-> "images", from |-> "live", to |-> "stage"]
  BY DEF Installs, Uninstalls
<1> QED BY <1>1, <1>2, <1>3 DEF Durable, DurableTurn

\* The file, the place it comes from and the place it goes to.
Moves(m, from, to) == m.file \in File /\ m.from = from /\ m.to = to

LEMMA RestorePlan ==
  /\ Len(RestoreMoves) = 6
  /\ \A n \in 1..4 : /\ Moves(RestoreMoves[n], "live", "prior")
                     /\ Turn(RestoreMoves[n].file) = n
  /\ \A n \in 5..6 : /\ Moves(RestoreMoves[n], "stage", "live")
                     /\ RestoreMoves[n].file \in Durable
                     /\ 4 + DurableTurn(RestoreMoves[n].file) = n
<1> DEFINE moves == All("live", "prior")
<1>1. /\ moves \in Seq(OneMove) /\ Len(moves) = 4
      /\ \A n \in 1..4 : moves[n] = [file |-> StateNames[n], from |-> "live", to |-> "prior"]
  BY AllTurns DEF Place
<1>2. Installs \in Seq(OneMove) /\ Len(Installs) = 2
  BY DurableTurns
<1>3. RestoreMoves = moves \o Installs
  BY DEF RestoreMoves
<1> HIDE DEF moves
<1>4. /\ Len(RestoreMoves) = 6
      /\ \A n \in 1..4 : RestoreMoves[n] = moves[n]
      /\ \A n \in 5..6 : RestoreMoves[n] = Installs[n - 4]
  <2>1. moves \in Seq(OneMove) /\ Len(moves) = 4
    BY <1>1, <1>2
  <2>2. Installs \in Seq(OneMove) /\ Len(Installs) = 2
    BY <1>1, <1>2
  <2>3. /\ Len(moves \o Installs) = Len(moves) + Len(Installs)
        /\ \A n \in 1..(Len(moves) + Len(Installs)) :
             (moves \o Installs)[n] = IF n <= Len(moves) THEN moves[n] ELSE Installs[n - Len(moves)]
    BY <2>1, <2>2, ConcatProperties
  <2> QED BY <1>3, <2>1, <2>2, <2>3
<1>5. \A n \in 1..4 : Moves(RestoreMoves[n], "live", "prior") /\ Turn(RestoreMoves[n].file) = n
  BY <1>1, <1>4, Names DEF Moves
<1>6. ASSUME NEW n \in 5..6
      PROVE  /\ Moves(RestoreMoves[n], "stage", "live") /\ RestoreMoves[n].file \in Durable
             /\ 4 + DurableTurn(RestoreMoves[n].file) = n
  <2>1. n - 4 \in 1..2
    OBVIOUS
  <2>2. RestoreMoves[n] = Installs[n - 4]
    BY <1>4
  <2> QED BY <2>1, <2>2, DurableTurns, Turns DEF Moves
<1> QED BY <1>4, <1>5, <1>6

LEMMA UndoRestorePlan ==
  /\ Len(UndoRestore) = 6
  /\ \A n \in 1..2 : /\ Moves(UndoRestore[n], "live", "stage")
                     /\ UndoRestore[n].file \in Durable
                     /\ DurableTurn(UndoRestore[n].file) = n
  /\ \A n \in 3..6 : /\ Moves(UndoRestore[n], "prior", "live")
                     /\ 2 + Turn(UndoRestore[n].file) = n
<1> DEFINE moves == All("prior", "live")
<1>1. /\ moves \in Seq(OneMove) /\ Len(moves) = 4
      /\ \A n \in 1..4 : moves[n] = [file |-> StateNames[n], from |-> "prior", to |-> "live"]
  BY AllTurns DEF Place
<1>2. Uninstalls \in Seq(OneMove) /\ Len(Uninstalls) = 2
  BY DurableTurns
<1>3. UndoRestore = Uninstalls \o moves
  BY DEF UndoRestore
<1> HIDE DEF moves
<1>4. /\ Len(UndoRestore) = 6
      /\ \A n \in 1..2 : UndoRestore[n] = Uninstalls[n]
      /\ \A n \in 3..6 : UndoRestore[n] = moves[n - 2]
  <2>1. Uninstalls \in Seq(OneMove) /\ Len(Uninstalls) = 2
    BY <1>1, <1>2
  <2>2. moves \in Seq(OneMove) /\ Len(moves) = 4
    BY <1>1, <1>2
  <2>3. /\ Len(Uninstalls \o moves) = Len(Uninstalls) + Len(moves)
        /\ \A n \in 1..(Len(Uninstalls) + Len(moves)) :
             (Uninstalls \o moves)[n] = IF n <= Len(Uninstalls) THEN Uninstalls[n] ELSE moves[n - Len(Uninstalls)]
    BY <2>1, <2>2, ConcatProperties
  <2> QED BY <1>3, <2>1, <2>2, <2>3
<1>5. \A n \in 1..2 : /\ Moves(UndoRestore[n], "live", "stage")
                      /\ UndoRestore[n].file \in Durable
                      /\ DurableTurn(UndoRestore[n].file) = n
  BY <1>4, DurableTurns, Turns DEF Moves
<1>6. ASSUME NEW n \in 3..6
      PROVE  Moves(UndoRestore[n], "prior", "live") /\ 2 + Turn(UndoRestore[n].file) = n
  <2>1. n - 2 \in 1..4
    OBVIOUS
  <2>2. UndoRestore[n] = moves[n - 2]
    BY <1>4
  <2> QED BY <1>1, <2>1, <2>2, Names DEF Moves
<1> QED BY <1>4, <1>5, <1>6

\* Two loops over all names, one after the other.
TwoLoopPlan(plan, a, b, c, d) ==
  /\ Len(plan) = 8
  /\ \A n \in 1..4 : Moves(plan[n], a, b) /\ Turn(plan[n].file) = n
  /\ \A n \in 5..8 : Moves(plan[n], c, d) /\ 4 + Turn(plan[n].file) = n

LEMMA TwoLoops ==
  ASSUME NEW a \in Place, NEW b \in Place, NEW c \in Place, NEW d \in Place
  PROVE  TwoLoopPlan(All(a, b) \o All(c, d), a, b, c, d)
<1> DEFINE first == All(a, b)
           second == All(c, d)
           plan == first \o second
<1>1. /\ first \in Seq(OneMove) /\ Len(first) = 4
      /\ \A n \in 1..4 : first[n] = [file |-> StateNames[n], from |-> a, to |-> b]
  BY AllTurns
<1>2. /\ second \in Seq(OneMove) /\ Len(second) = 4
      /\ \A n \in 1..4 : second[n] = [file |-> StateNames[n], from |-> c, to |-> d]
  BY AllTurns
<1>3. plan = first \o second
  OBVIOUS
<1> HIDE DEF first, second, plan
<1>4. /\ Len(plan) = 8
      /\ \A n \in 1..4 : plan[n] = first[n]
      /\ \A n \in 5..8 : plan[n] = second[n - 4]
  <2>1. first \in Seq(OneMove) /\ Len(first) = 4
    BY <1>1, <1>2
  <2>2. second \in Seq(OneMove) /\ Len(second) = 4
    BY <1>1, <1>2
  <2>3. /\ Len(first \o second) = Len(first) + Len(second)
        /\ \A n \in 1..(Len(first) + Len(second)) :
             (first \o second)[n] = IF n <= Len(first) THEN first[n] ELSE second[n - Len(first)]
    BY <2>1, <2>2, ConcatProperties
  <2> QED BY <1>3, <2>1, <2>2, <2>3
<1>5. \A n \in 1..4 : Moves(plan[n], a, b) /\ Turn(plan[n].file) = n
  BY <1>1, <1>4, Names DEF Moves
<1>6. ASSUME NEW n \in 5..8 PROVE Moves(plan[n], c, d) /\ 4 + Turn(plan[n].file) = n
  <2>1. n - 4 \in 1..4
    OBVIOUS
  <2>2. plan[n] = second[n - 4]
    BY <1>4
  <2> QED BY <1>2, <2>1, <2>2, Names DEF Moves
<1>7. TwoLoopPlan(plan, a, b, c, d)
  BY <1>4, <1>5, <1>6 DEF TwoLoopPlan
<1> QED BY <1>7 DEF plan, first, second

\* Where the files are after a rename.
LEMMA RenamedFiles ==
  ASSUME dir \in [Place -> [File -> Content]],
         NEW from \in Place, NEW to \in Place, from # to, NEW m, Moves(m, from, to)
  PROVE  /\ Renamed(m) \in [Place -> [File -> Content]]
         /\ \A p \in Place, f \in File :
              Renamed(m)[p][f] = IF f = m.file /\ p = to THEN dir[from][f]
                                 ELSE IF f = m.file /\ p = from THEN "none" ELSE dir[p][f]
<1> DEFINE g == m.file
           taken == [dir EXCEPT ![from][g] = "none"]
<1>1. g \in File /\ m.from = from /\ m.to = to
  BY DEF Moves
<1>2. dir[from][g] \in Content /\ "none" \in Content
  BY <1>1 DEF Content
<1>3. taken \in [Place -> [File -> Content]]
  BY <1>1, <1>2
<1>4. Renamed(m) = [taken EXCEPT ![to][g] = dir[from][g]]
  BY <1>1 DEF Renamed
<1>5. \A p \in Place, f \in File :
        taken[p][f] = IF f = g /\ p = from THEN "none" ELSE dir[p][f]
  BY <1>1
<1> HIDE DEF taken
<1>6. Renamed(m) \in [Place -> [File -> Content]]
  BY <1>1, <1>2, <1>3, <1>4
<1>7. \A p \in Place, f \in File :
        Renamed(m)[p][f] = IF f = g /\ p = to THEN dir[from][g] ELSE taken[p][f]
  BY <1>1, <1>3, <1>4
<1> QED BY <1>5, <1>6, <1>7
-----------------------------------------------------------------------------
(* One turn *)

Parts == /\ dir \in [Place -> [File -> Content]]
         /\ command \in CommandState
         /\ failures \in Nat /\ kills \in Nat

LEMMA Types == IInv => Parts
<1> SUFFICES ASSUME IInv PROVE Parts
  OBVIOUS
<1>1. TypeOK
  BY DEF IInv
<1>2. failures \in 0..MaxFailures /\ kills \in 0..MaxKills
  BY <1>1, Zenon DEF TypeOK
<1>3. failures \in Nat /\ kills \in Nat
  BY <1>2, RestoreAssumption
<1>4. dir \in [Place -> [File -> Content]] /\ command \in CommandState
  BY <1>1, Zenon DEF TypeOK
<1> QED BY <1>3, <1>4 DEF Parts

LEMMA WhichPlan ==
  /\ command.name = "restore" /\ command.phase = "apply" => Plan = RestoreMoves
  /\ command.name = "restore" /\ command.phase = "undo" => Plan = UndoRestore
  /\ command.name = "rollback" /\ command.phase = "apply" => Plan = RollbackMoves
  /\ command.name = "rollback" /\ command.phase = "undo" => Plan = UndoRollback
BY DEF Plan

LEMMA RollbackPlans ==
  /\ TwoLoopPlan(RollbackMoves, "live", "aside", "prior", "live")
  /\ TwoLoopPlan(UndoRollback, "live", "prior", "aside", "live")
<1>1. "live" \in Place /\ "aside" \in Place /\ "prior" \in Place
  BY DEF Place
<1> QED BY <1>1, TwoLoops DEF RollbackMoves, UndoRollback

\* What has been passed at the next turn.
LEMMA PastNext ==
  ASSUME command.next \in Nat, command'.next = command.next + 1, NEW turns \in Nat
  PROVE  /\ \A f \in File : Past(f, turns)' <=> Past(f, turns) \/ turns + Turn(f) = command.next
         /\ \A f \in File : PastDurable(f, turns)'
              <=> PastDurable(f, turns) \/ (f \in Durable /\ turns + DurableTurn(f) = command.next)
<1>1. \A f \in File : Turn(f) \in 1..4 /\ DurableTurn(f) \in 1..2
  BY Turns DEF DurableTurn
<1> QED BY <1>1 DEF Past, PastDurable

\* A turn of a loop leaves the command well-typed and running.
LEMMA NextTurn ==
  ASSUME command \in CommandState, NEW moved \in SUBSET File, NEW installed \in SUBSET File,
         command.next + 1 \in 1..9,
         command' = [command EXCEPT !.next = command.next + 1, !.moved = moved,
                                    !.installed = installed]
  PROVE  /\ command' \in CommandState
         /\ command'.name = command.name /\ command'.phase = command.phase
         /\ command'.next = command.next + 1
         /\ command'.moved = moved /\ command'.installed = installed
<1> DEFINE a == [command EXCEPT !.next = command.next + 1]
           b == [a EXCEPT !.moved = moved]
<1>1. 2 * Len(StateNames) + 1 = 9
  BY Names
<1>2. /\ a \in CommandState /\ a.name = command.name /\ a.phase = command.phase
      /\ a.next = command.next + 1
  BY <1>1, Zenon DEF CommandState
<1> HIDE DEF a
<1>3. /\ b \in CommandState /\ b.name = a.name /\ b.phase = a.phase /\ b.next = a.next
      /\ b.moved = moved
  BY <1>2, Zenon DEF CommandState
<1>4. command' = [b EXCEPT !.installed = installed]
  BY Zenon DEF a
<1> HIDE DEF b
<1>5. /\ command' \in CommandState /\ command'.name = b.name /\ command'.phase = b.phase
      /\ command'.next = b.next /\ command'.moved = b.moved /\ command'.installed = installed
  BY <1>3, <1>4, Zenon DEF CommandState
<1> QED BY <1>2, <1>3, <1>5

\* What a turn does: the file is renamed and recorded, or there is nothing to do.
Turned(m) ==
  /\ dir' = IF Due(m) THEN Renamed(m) ELSE dir
  /\ Due(m) => ~Blocked(m)
  /\ command' \in CommandState
  /\ command'.name = command.name /\ command'.phase = command.phase
  /\ command'.next = command.next + 1
  /\ command'.moved =
       command.moved \cup (IF Due(m) THEN Records(m, "live") ELSE {})
  /\ command'.installed =
       command.installed \cup (IF Due(m) THEN Records(m, "stage") ELSE {})

LEMMA RenameTurns ==
  ASSUME command \in CommandState, Rename, NextMove.file \in File, command.next + 1 \in 1..9
  PROVE  Turned(NextMove)
<1> DEFINE m == NextMove
<1>0. command.moved \in SUBSET File /\ command.installed \in SUBSET File
  BY DEF CommandState
<1>1. Records(m, "live") \in SUBSET File /\ Records(m, "stage") \in SUBSET File
  BY DEF Records
<1>2. CASE Due(m)
  <2> DEFINE moved == command.moved \cup Records(m, "live")
             installed == command.installed \cup Records(m, "stage")
  <2>1. moved \in SUBSET File /\ installed \in SUBSET File
    BY <1>0, <1>1
  <2>2. command' = [command EXCEPT !.next = command.next + 1, !.moved = moved,
                                   !.installed = installed]
    BY <1>2, Zenon DEF Rename
  <2>3. dir' = Renamed(m) /\ ~Blocked(m)
    BY <1>2 DEF Rename
  <2> HIDE DEF moved, installed, m
  <2>4. /\ command' \in CommandState
        /\ command'.name = command.name /\ command'.phase = command.phase
        /\ command'.next = command.next + 1
        /\ command'.moved = moved /\ command'.installed = installed
    BY <2>1, <2>2, NextTurn, Zenon
  <2> QED BY <1>2, <2>3, <2>4 DEF Turned, moved, installed, m
<1>3. CASE ~Due(m)
  <2>1. command' = [command EXCEPT !.next = command.next + 1] /\ dir' = dir
    BY <1>3, Zenon DEF Rename
  <2>2. /\ command' \in CommandState
        /\ command'.name = command.name /\ command'.phase = command.phase
        /\ command'.next = command.next + 1
        /\ command'.moved = command.moved /\ command'.installed = command.installed
    <3>1. 2 * Len(StateNames) + 1 = 9
      BY Names
    <3> QED BY <2>1, <3>1, Zenon DEF CommandState
  <2> QED BY <1>3, <2>1, <2>2 DEF Turned
<1> QED BY <1>2, <1>3

\* Where a turn leaves the files.
LEMMA TurnedFiles ==
  ASSUME dir \in [Place -> [File -> Content]], NEW from \in Place, NEW to \in Place,
         from # to, NEW m, Moves(m, from, to), Turned(m)
  PROVE  /\ dir' \in [Place -> [File -> Content]]
         /\ \A p \in Place, f \in File :
              dir'[p][f] = IF f = m.file /\ Listed(m) /\ dir[from][f] # "none"
                             THEN IF p = to THEN dir[from][f]
                                  ELSE IF p = from THEN "none" ELSE dir[p][f]
                             ELSE dir[p][f]
<1>1. m.file \in File /\ m.from = from
  BY DEF Moves
<1>2. Due(m) <=> Listed(m) /\ dir[from][m.file] # "none"
  BY <1>1 DEF Due, Exists
<1>3. CASE Due(m)
  <2>1. dir' = Renamed(m)
    BY <1>3 DEF Turned
  <2> QED BY <1>2, <1>3, <2>1, RenamedFiles
<1>4. CASE ~Due(m)
  <2>1. dir' = dir
    BY <1>4 DEF Turned
  <2> QED BY <1>2, <1>4, <2>1
<1> QED BY <1>3, <1>4
-----------------------------------------------------------------------------
(* The turns of the four loops *)

\* The old files leave for the prior directory, then the new ones come in.
LEMMA ApplyingTurn ==
  ASSUME Parts, OldFiles, Applying, dir["aside"] = Nothing, Rename,
         command.name = "restore", command.phase = "apply", UNCHANGED old
  PROVE  Applying' /\ dir'["aside"] = Nothing /\ Turned(NextMove) /\ Parts'
<1> DEFINE n == command.next
           m == RestoreMoves[n]
<1>1. Plan = RestoreMoves /\ Len(RestoreMoves) = 6
  BY WhichPlan, RestorePlan
<1>2. n \in 1..6 /\ NextMove = m
  <2>1. n \in 1..7
    BY DEF Applying
  <2>2. n # 7
    BY <1>1 DEF Rename, Through
  <2> QED BY <1>1, <2>1, <2>2 DEF NextMove
<1>3. dir \in [Place -> [File -> Content]] /\ command \in CommandState
  BY DEF Parts
<1>4. n \in 1..4 => Moves(m, "live", "prior") /\ Turn(m.file) = n
  BY RestorePlan
<1>5. n \in 5..6 => /\ Moves(m, "stage", "live") /\ m.file \in Durable
                    /\ 4 + DurableTurn(m.file) = n
  BY RestorePlan
<1>6. m.file \in File
  BY <1>2, <1>4, <1>5 DEF Moves
<1>7. Turned(m)
  BY <1>2, <1>3, <1>6, RenameTurns
<1>8. Listed(m)
  BY DEF Listed
<1>9. command'.next = n + 1 /\ command' \in CommandState
  BY <1>7 DEF Turned
<1> HIDE DEF m
<1>10. n + 1 \in 1..7
  BY <1>2
<1>11. /\ \A f \in File : Past(f, 0)' <=> Past(f, 0) \/ Turn(f) = n
       /\ \A f \in File : PastDurable(f, 4)'
            <=> PastDurable(f, 4) \/ (f \in Durable /\ 4 + DurableTurn(f) = n)
  <2>1. n \in Nat /\ 0 \in Nat /\ 4 \in Nat
    BY <1>2
  <2>2. \A f \in File : 0 + Turn(f) = Turn(f)
    BY Turns
  <2> QED BY <1>9, <2>1, <2>2, PastNext
<1>12. CASE n \in 1..4
  <2>1. Moves(m, "live", "prior") /\ Turn(m.file) = n
    BY <1>4, <1>12
  <2>2. /\ dir' \in [Place -> [File -> Content]]
        /\ \A p \in Place, f \in File :
             dir'[p][f] = IF f = m.file /\ Listed(m) /\ dir["live"][f] # "none"
                            THEN IF p = "prior" THEN dir["live"][f]
                                 ELSE IF p = "live" THEN "none" ELSE dir[p][f]
                            ELSE dir[p][f]
    <3>1. "live" \in Place /\ "prior" \in Place /\ "live" # "prior"
      BY DEF Place
    <3> QED BY <1>3, <1>7, <2>1, <3>1, TurnedFiles
  <2>3. \A f \in File : ~PastDurable(f, 4) /\ ~PastDurable(f, 4)'
    BY <1>9, <1>12, Turns DEF PastDurable
  <2>4. \A f \in File : Turn(f) = n <=> f = m.file
    BY <1>6, <2>1, Turns
  <2>5. ~Past(m.file, 0)
    BY <1>12, <2>1 DEF Past
  <2>6. /\ command'.moved = command.moved \cup (IF Due(m) THEN {m.file} ELSE {})
        /\ command'.installed = command.installed
    BY <1>7, <2>1 DEF Turned, Records, Moves
  <2>7. Due(m) <=> dir["live"][m.file] # "none"
    BY <1>8, <2>1 DEF Due, Exists, Moves
  <2>8. dir["live"][m.file] = old[m.file] /\ dir["prior"][m.file] = "none"
    BY <1>6, <2>3, <2>5 DEF Applying
  <2>9. ASSUME NEW f \in File
        PROVE  /\ dir'["prior"][f] = IF Past(f, 0)' THEN old[f] ELSE "none"
               /\ dir'["live"][f] = CASE PastDurable(f, 4)' -> "new"
                                      [] Past(f, 0)' /\ ~PastDurable(f, 4)' -> "none"
                                      [] OTHER -> old[f]
               /\ dir'["stage"][f] = IF f \in Durable /\ ~PastDurable(f, 4)' THEN "new" ELSE "none"
               /\ f \in command'.moved <=> Past(f, 0)' /\ old[f] = "old"
               /\ f \in command'.installed <=> PastDurable(f, 4)'
    <3>1. old[f] \in {"old", "none"}
      BY DEF OldFiles
    <3>2. /\ dir["prior"][f] = IF Past(f, 0) THEN old[f] ELSE "none"
          /\ dir["live"][f] = IF Past(f, 0) THEN "none" ELSE old[f]
          /\ dir["stage"][f] = IF f \in Durable THEN "new" ELSE "none"
          /\ f \in command.moved <=> Past(f, 0) /\ old[f] = "old"
          /\ f \notin command.installed
      BY <2>3 DEF Applying
    <3>3. CASE f = m.file
      <4>1. /\ dir'["prior"][f] = old[f] /\ dir'["live"][f] = "none"
            /\ dir'["stage"][f] = dir["stage"][f]
        BY <1>8, <2>2, <2>8, <3>1, <3>3 DEF Place
      <4>2. Past(f, 0)' /\ ~Past(f, 0)
        BY <1>11, <2>4, <2>5, <3>3
      <4>3. f \in command'.moved <=> old[f] = "old"
        BY <2>6, <2>7, <2>8, <3>1, <3>2, <3>3, <4>2
      <4> QED BY <2>3, <2>6, <3>2, <4>1, <4>2, <4>3
    <3>4. CASE f # m.file
      <4>1. /\ dir'["prior"][f] = dir["prior"][f] /\ dir'["live"][f] = dir["live"][f]
            /\ dir'["stage"][f] = dir["stage"][f]
        BY <2>2, <3>4 DEF Place
      <4>2. Past(f, 0)' <=> Past(f, 0)
        BY <1>11, <2>4, <3>4
      <4>3. f \in command'.moved <=> f \in command.moved
        BY <2>6, <3>4
      <4> QED BY <2>3, <2>6, <3>2, <4>1, <4>2, <4>3
    <3> QED BY <3>3, <3>4
  <2>10. Applying'
    BY <1>9, <1>10, <2>9 DEF Applying
  <2>11. \A f \in File : dir'["aside"][f] = "none"
    BY <2>2 DEF Place, Nothing
  <2>12. dir'["aside"] = Nothing
    BY <2>2, <2>11 DEF Place, Nothing
  <2> QED BY <1>2, <1>7, <1>9, <2>2, <2>10, <2>12 DEF Parts, Rename
<1>13. CASE n \in 5..6
  <2>1. /\ Moves(m, "stage", "live") /\ m.file \in Durable /\ 4 + DurableTurn(m.file) = n
    BY <1>5, <1>13
  <2>2. /\ dir' \in [Place -> [File -> Content]]
        /\ \A p \in Place, f \in File :
             dir'[p][f] = IF f = m.file /\ Listed(m) /\ dir["stage"][f] # "none"
                            THEN IF p = "live" THEN dir["stage"][f]
                                 ELSE IF p = "stage" THEN "none" ELSE dir[p][f]
                            ELSE dir[p][f]
    <3>1. "live" \in Place /\ "stage" \in Place /\ "live" # "stage"
      BY DEF Place
    <3> QED BY <1>3, <1>7, <2>1, <3>1, TurnedFiles
  <2>3. \A f \in File : Past(f, 0) /\ Past(f, 0)'
    BY <1>9, <1>13, Turns DEF Past
  <2>4. \A f \in Durable : 4 + DurableTurn(f) = n <=> f = m.file
    BY <2>1, Turns
  <2>5. ~PastDurable(m.file, 4)
    BY <1>13, <2>1 DEF PastDurable
  <2>6. dir["stage"][m.file] = "new"
    BY <1>6, <2>1, <2>5 DEF Applying
  <2>7. Due(m)
    BY <1>8, <2>1, <2>6 DEF Due, Exists, Moves
  <2>8. command'.moved = command.moved /\ command'.installed = command.installed \cup {m.file}
    BY <1>7, <2>1, <2>7 DEF Turned, Records, Moves
  <2>9. ASSUME NEW f \in File
        PROVE  /\ dir'["prior"][f] = IF Past(f, 0)' THEN old[f] ELSE "none"
               /\ dir'["live"][f] = CASE PastDurable(f, 4)' -> "new"
                                      [] Past(f, 0)' /\ ~PastDurable(f, 4)' -> "none"
                                      [] OTHER -> old[f]
               /\ dir'["stage"][f] = IF f \in Durable /\ ~PastDurable(f, 4)' THEN "new" ELSE "none"
               /\ f \in command'.moved <=> Past(f, 0)' /\ old[f] = "old"
               /\ f \in command'.installed <=> PastDurable(f, 4)'
    <3>1. /\ dir["prior"][f] = old[f]
          /\ dir["live"][f] = IF PastDurable(f, 4) THEN "new" ELSE "none"
          /\ dir["stage"][f] = IF f \in Durable /\ ~PastDurable(f, 4) THEN "new" ELSE "none"
          /\ f \in command.moved <=> old[f] = "old"
          /\ f \in command.installed <=> PastDurable(f, 4)
      BY <2>3 DEF Applying
    <3>2. CASE f = m.file
      <4>1. /\ dir'["live"][f] = "new" /\ dir'["stage"][f] = "none"
            /\ dir'["prior"][f] = dir["prior"][f]
        BY <1>8, <2>2, <2>6, <3>2 DEF Place
      <4>2. PastDurable(f, 4)'
        BY <1>11, <2>1, <3>2
      <4> QED BY <2>3, <2>8, <3>1, <3>2, <4>1, <4>2
    <3>3. CASE f # m.file
      <4>1. /\ dir'["prior"][f] = dir["prior"][f] /\ dir'["live"][f] = dir["live"][f]
            /\ dir'["stage"][f] = dir["stage"][f]
        BY <2>2, <3>3 DEF Place
      <4>2. PastDurable(f, 4)' <=> PastDurable(f, 4)
        BY <1>11, <2>4, <3>3
      <4>3. f \in command'.installed <=> f \in command.installed
        BY <2>8, <3>3
      <4> QED BY <2>3, <2>8, <3>1, <4>1, <4>2, <4>3
    <3> QED BY <3>2, <3>3
  <2>10. Applying'
    BY <1>9, <1>10, <2>9 DEF Applying
  <2>11. \A f \in File : dir'["aside"][f] = "none"
    BY <2>2 DEF Place, Nothing
  <2>12. dir'["aside"] = Nothing
    BY <2>2, <2>11 DEF Place, Nothing
  <2> QED BY <1>2, <1>7, <1>9, <2>2, <2>10, <2>12 DEF Parts, Rename
<1> QED BY <1>2, <1>12, <1>13
\* The new files go back, then the old ones.
LEMMA UndoingTurn ==
  ASSUME Parts, OldFiles, Undoing, Rename,
         command.name = "restore", command.phase = "undo", UNCHANGED old
  PROVE  Undoing' /\ Turned(NextMove) /\ Parts'
<1> DEFINE n == command.next
           m == UndoRestore[n]
<1>1. Plan = UndoRestore /\ Len(UndoRestore) = 6
  BY WhichPlan, UndoRestorePlan
<1>2. n \in 1..6 /\ NextMove = m
  <2>1. n \in 1..7
    BY DEF Undoing
  <2>2. n # 7
    BY <1>1 DEF Rename, Through
  <2> QED BY <1>1, <2>1, <2>2 DEF NextMove
<1>3. dir \in [Place -> [File -> Content]] /\ command \in CommandState
  BY DEF Parts
<1>4. n \in 1..2 => /\ Moves(m, "live", "stage") /\ m.file \in Durable
                    /\ DurableTurn(m.file) = n
  BY UndoRestorePlan
<1>5. n \in 3..6 => Moves(m, "prior", "live") /\ 2 + Turn(m.file) = n
  BY UndoRestorePlan
<1>6. m.file \in File
  BY <1>2, <1>4, <1>5 DEF Moves
<1>7. Turned(m)
  BY <1>2, <1>3, <1>6, RenameTurns
<1>8. command'.next = n + 1 /\ command' \in CommandState
  BY <1>7 DEF Turned
<1> HIDE DEF m
<1>9. n + 1 \in 1..7
  BY <1>2
<1>10. /\ \A f \in File : Past(f, 2)' <=> Past(f, 2) \/ 2 + Turn(f) = n
       /\ \A f \in File : PastDurable(f, 0)'
            <=> PastDurable(f, 0) \/ (f \in Durable /\ DurableTurn(f) = n)
  <2>1. n \in Nat /\ 0 \in Nat /\ 2 \in Nat
    BY <1>2
  <2>2. \A f \in Durable : 0 + DurableTurn(f) = DurableTurn(f)
    BY Turns
  <2> QED BY <1>8, <2>1, <2>2, PastNext
<1>11. command'.moved = command.moved /\ command'.installed = command.installed
  BY <1>7 DEF Turned, Records
<1>12. /\ command.installed \subseteq command.moved /\ command.installed \subseteq Durable
       /\ command.moved \subseteq File
  BY <1>3 DEF Undoing, CommandState
<1> DEFINE Restored(f) ==
             /\ old[f] = "old"
             /\ dir'["prior"][f] = IF Past(f, 2)' THEN "none" ELSE "old"
             /\ dir'["live"][f] = CASE Past(f, 2)' -> "old"
                   [] ~Past(f, 2)' /\ f \in command.installed /\ ~PastDurable(f, 0)' -> "new"
                   [] OTHER -> "none"
           Staged(f) == dir'["stage"][f] = IF PastDurable(f, 0)' THEN "new" ELSE "none"
<1>13. CASE n \in 1..2
  <2>1. /\ Moves(m, "live", "stage") /\ m.file \in Durable /\ DurableTurn(m.file) = n
    BY <1>4, <1>13
  <2>2. /\ dir' \in [Place -> [File -> Content]]
        /\ \A p \in Place, f \in File :
             dir'[p][f] = IF f = m.file /\ Listed(m) /\ dir["live"][f] # "none"
                            THEN IF p = "stage" THEN dir["live"][f]
                                 ELSE IF p = "live" THEN "none" ELSE dir[p][f]
                            ELSE dir[p][f]
    <3>1. "live" \in Place /\ "stage" \in Place /\ "live" # "stage"
      BY DEF Place
    <3> QED BY <1>3, <1>7, <2>1, <3>1, TurnedFiles
  <2>3. \A f \in File : ~Past(f, 2) /\ ~Past(f, 2)'
    BY <1>8, <1>13, Turns DEF Past
  <2>4. \A f \in Durable : DurableTurn(f) = n <=> f = m.file
    BY <2>1, Turns
  <2>5. Listed(m) <=> m.file \in command.installed
    BY <2>1 DEF Listed, Moves
  <2>6. ~PastDurable(m.file, 0)
    BY <1>13, <2>1 DEF PastDurable
  <2>7. ASSUME NEW f \in command.moved PROVE Restored(f)
    <3>1. f \in File
      BY <1>12
    <3>2. /\ old[f] = "old" /\ dir["prior"][f] = "old"
          /\ dir["live"][f] = IF f \in command.installed /\ ~PastDurable(f, 0)
                                THEN "new" ELSE "none"
      BY <2>3, <3>1 DEF Undoing
    <3>3. dir'["prior"][f] = "old"
      BY <2>2, <3>1, <3>2 DEF Place
    <3>4. CASE f = m.file /\ f \in command.installed
      <4>1. dir'["live"][f] = "none"
        BY <2>2, <2>5, <2>6, <3>1, <3>2, <3>4 DEF Place
      <4>2. PastDurable(f, 0)'
        BY <1>10, <2>1, <3>1, <3>4
      <4> QED BY <2>3, <3>1, <3>2, <3>3, <4>1, <4>2
    <3>5. CASE ~(f = m.file /\ f \in command.installed)
      <4>1. dir'["live"][f] = dir["live"][f]
        BY <2>2, <2>5, <3>1, <3>5 DEF Place
      <4>2. f \in command.installed => (PastDurable(f, 0)' <=> PastDurable(f, 0))
        BY <1>10, <2>4, <3>1, <3>5
      <4> QED BY <2>3, <3>1, <3>2, <3>3, <4>1, <4>2
    <3> QED BY <3>4, <3>5
  <2>8. ASSUME NEW f \in command.installed PROVE Staged(f)
    <3>1. f \in File /\ f \in Durable /\ f \in command.moved
      BY <1>12
    <3>2. dir["stage"][f] = IF PastDurable(f, 0) THEN "new" ELSE "none"
      BY DEF Undoing
    <3>3. dir["live"][f] = IF ~PastDurable(f, 0) THEN "new" ELSE "none"
      BY <2>3, <3>1 DEF Undoing
    <3>4. CASE f = m.file
      <4>1. dir'["stage"][f] = "new"
        BY <2>2, <2>5, <2>6, <3>1, <3>3, <3>4 DEF Place
      <4>2. PastDurable(f, 0)'
        BY <1>10, <2>1, <3>1, <3>4
      <4> QED BY <4>1, <4>2
    <3>5. CASE f # m.file
      <4>1. dir'["stage"][f] = dir["stage"][f]
        BY <2>2, <3>1, <3>5 DEF Place
      <4>2. PastDurable(f, 0)' <=> PastDurable(f, 0)
        BY <1>10, <2>4, <3>1, <3>5
      <4> QED BY <3>2, <4>1, <4>2
    <3> QED BY <3>4, <3>5
  <2>9. ASSUME NEW f \in File \ command.moved PROVE dir'["live"][f] = old[f]
    <3>1. dir["live"][f] = old[f]
      BY DEF Undoing
    <3>2. f # m.file \/ ~Listed(m)
      BY <1>12, <2>5
    <3> QED BY <2>2, <3>1, <3>2 DEF Place
  <2>10. Undoing'
    BY <1>8, <1>9, <1>11, <1>12, <2>7, <2>8, <2>9 DEF Undoing
  <2> QED BY <1>2, <1>7, <1>8, <2>2, <2>10 DEF Parts, Rename
<1>14. CASE n \in 3..6
  <2>1. Moves(m, "prior", "live") /\ 2 + Turn(m.file) = n
    BY <1>5, <1>14
  <2>2. /\ dir' \in [Place -> [File -> Content]]
        /\ \A p \in Place, f \in File :
             dir'[p][f] = IF f = m.file /\ Listed(m) /\ dir["prior"][f] # "none"
                            THEN IF p = "live" THEN dir["prior"][f]
                                 ELSE IF p = "prior" THEN "none" ELSE dir[p][f]
                            ELSE dir[p][f]
    <3>1. "live" \in Place /\ "prior" \in Place /\ "live" # "prior"
      BY DEF Place
    <3> QED BY <1>3, <1>7, <2>1, <3>1, TurnedFiles
  <2>3. \A f \in Durable : PastDurable(f, 0) /\ PastDurable(f, 0)'
    BY <1>8, <1>14, Turns DEF PastDurable
  <2>4. \A f \in File : 2 + Turn(f) = n <=> f = m.file
    BY <1>6, <2>1, Turns
  <2>5. Listed(m) <=> m.file \in command.moved
    BY <2>1 DEF Listed, Moves
  <2>6. ~Past(m.file, 2)
    BY <1>14, <2>1 DEF Past
  <2>7. ASSUME NEW f \in command.moved PROVE Restored(f)
    <3>1. f \in File
      BY <1>12
    <3>2. f \in command.installed => PastDurable(f, 0) /\ PastDurable(f, 0)'
      BY <1>12, <2>3
    <3>3. /\ old[f] = "old" /\ dir["prior"][f] = IF Past(f, 2) THEN "none" ELSE "old"
          /\ dir["live"][f] = IF Past(f, 2) THEN "old" ELSE "none"
      BY <3>1, <3>2 DEF Undoing
    <3>4. CASE f = m.file
      <4>1. dir'["live"][f] = "old" /\ dir'["prior"][f] = "none"
        BY <2>2, <2>5, <2>6, <3>1, <3>3, <3>4 DEF Place
      <4>2. Past(f, 2)'
        BY <1>10, <2>1, <3>1, <3>4
      <4> QED BY <3>1, <3>3, <4>1, <4>2
    <3>5. CASE f # m.file
      <4>1. dir'["live"][f] = dir["live"][f] /\ dir'["prior"][f] = dir["prior"][f]
        BY <2>2, <3>1, <3>5 DEF Place
      <4>2. Past(f, 2)' <=> Past(f, 2)
        BY <1>10, <2>4, <3>1, <3>5
      <4> QED BY <3>1, <3>2, <3>3, <4>1, <4>2
    <3> QED BY <3>4, <3>5
  <2>8. ASSUME NEW f \in command.installed PROVE Staged(f)
    <3>1. f \in File /\ f \in Durable
      BY <1>12
    <3>2. dir["stage"][f] = IF PastDurable(f, 0) THEN "new" ELSE "none"
      BY DEF Undoing
    <3>3. dir'["stage"][f] = dir["stage"][f]
      BY <2>2, <3>1 DEF Place
    <3> QED BY <2>3, <3>1, <3>2, <3>3
  <2>9. ASSUME NEW f \in File \ command.moved PROVE dir'["live"][f] = old[f]
    <3>1. dir["live"][f] = old[f]
      BY DEF Undoing
    <3>2. f # m.file \/ ~Listed(m)
      BY <1>12, <2>5
    <3> QED BY <2>2, <3>1, <3>2 DEF Place
  <2>10. Undoing'
    BY <1>8, <1>9, <1>11, <1>12, <2>7, <2>8, <2>9 DEF Undoing
  <2> QED BY <1>2, <1>7, <1>8, <2>2, <2>10 DEF Parts, Rename
<1> QED BY <1>2, <1>13, <1>14

\* The restored files go aside, then the old ones return.
LEMMA RollingForwardTurn ==
  ASSUME Parts, OldFiles, RollingForward, Rename,
         command.name = "rollback", command.phase = "apply", UNCHANGED old
  PROVE  RollingForward' /\ Turned(NextMove) /\ Parts'
<1> DEFINE n == command.next
           m == RollbackMoves[n]
<1>1. Plan = RollbackMoves /\ Len(RollbackMoves) = 8
  BY WhichPlan, RollbackPlans DEF TwoLoopPlan
<1>2. n \in 1..8 /\ NextMove = m
  <2>1. n \in 1..9
    BY DEF RollingForward
  <2>2. n # 9
    BY <1>1 DEF Rename, Through
  <2> QED BY <1>1, <2>1, <2>2 DEF NextMove
<1>3. dir \in [Place -> [File -> Content]] /\ command \in CommandState
  BY DEF Parts
<1>4. n \in 1..4 => Moves(m, "live", "aside") /\ Turn(m.file) = n
  BY RollbackPlans DEF TwoLoopPlan
<1>5. n \in 5..8 => Moves(m, "prior", "live") /\ 4 + Turn(m.file) = n
  BY RollbackPlans DEF TwoLoopPlan
<1>6. m.file \in File
  BY <1>2, <1>4, <1>5 DEF Moves
<1>7. Turned(m)
  BY <1>2, <1>3, <1>6, RenameTurns
<1>8. command'.next = n + 1 /\ command' \in CommandState
  BY <1>7 DEF Turned
<1>9. Listed(m)
  BY DEF Listed
<1> HIDE DEF m
<1>10. n + 1 \in 1..9
  BY <1>2
<1>11. /\ \A f \in File : Past(f, 0)' <=> Past(f, 0) \/ Turn(f) = n
       /\ \A f \in File : Past(f, 4)' <=> Past(f, 4) \/ 4 + Turn(f) = n
  <2>1. n \in Nat /\ 0 \in Nat /\ 4 \in Nat
    BY <1>2
  <2>2. \A f \in File : 0 + Turn(f) = Turn(f)
    BY Turns
  <2> QED BY <1>8, <2>1, <2>2, PastNext
<1>14. \A f \in File : Quiet(f)' <=> Quiet(f)
  BY Zenon DEF Quiet, Alone, Rename
<1> DEFINE Returning(f) ==
             /\ ~Past(f, 0)' => dir'["aside"][f] = "none"
             /\ dir'["prior"][f] = IF Past(f, 4)' THEN "none" ELSE old[f]
             /\ Past(f, 4)' /\ old[f] = "old" => dir'["live"][f] = "old"
             /\ Past(f, 0)' /\ Quiet(f)' =>
                  dir'["live"][f] = IF Past(f, 4)' THEN old[f] ELSE "none"
<1>12. CASE n \in 1..4
  <2>1. Moves(m, "live", "aside") /\ Turn(m.file) = n
    BY <1>4, <1>12
  <2>2. /\ dir' \in [Place -> [File -> Content]]
        /\ \A p \in Place, f \in File :
             dir'[p][f] = IF f = m.file /\ Listed(m) /\ dir["live"][f] # "none"
                            THEN IF p = "aside" THEN dir["live"][f]
                                 ELSE IF p = "live" THEN "none" ELSE dir[p][f]
                            ELSE dir[p][f]
    <3>1. "live" \in Place /\ "aside" \in Place /\ "live" # "aside"
      BY DEF Place
    <3> QED BY <1>3, <1>7, <2>1, <3>1, TurnedFiles
  <2>3. \A f \in File : ~Past(f, 4) /\ ~Past(f, 4)'
    BY <1>8, <1>12, Turns DEF Past
  <2>4. \A f \in File : Turn(f) = n <=> f = m.file
    BY <1>6, <2>1, Turns
  <2>5. ASSUME NEW f \in File PROVE Returning(f)
    <3>1. /\ ~Past(f, 0) => dir["aside"][f] = "none"
          /\ dir["prior"][f] = old[f]
          /\ Past(f, 0) /\ Quiet(f) => dir["live"][f] = "none"
      BY <2>3 DEF RollingForward
    <3>2. dir'["prior"][f] = old[f]
      BY <2>2, <3>1 DEF Place
    <3>3. CASE f = m.file
      <4>1. dir'["live"][f] = "none"
        BY <1>9, <2>2, <3>3 DEF Place
      <4>2. Past(f, 0)'
        BY <1>11, <2>1, <3>3
      <4> QED BY <2>3, <3>2, <4>1, <4>2
    <3>4. CASE f # m.file
      <4>1. dir'["aside"][f] = dir["aside"][f] /\ dir'["live"][f] = dir["live"][f]
        BY <2>2, <3>4 DEF Place
      <4>2. Past(f, 0)' <=> Past(f, 0)
        BY <1>11, <2>4, <3>4
      <4> QED BY <1>14, <2>3, <3>1, <3>2, <4>1, <4>2
    <3> QED BY <3>3, <3>4
  <2>6. RollingForward'
    BY <1>8, <1>10, <2>5 DEF RollingForward
  <2> QED BY <1>2, <1>7, <1>8, <2>2, <2>6 DEF Parts, Rename
<1>13. CASE n \in 5..8
  <2>1. Moves(m, "prior", "live") /\ 4 + Turn(m.file) = n
    BY <1>5, <1>13
  <2>2. /\ dir' \in [Place -> [File -> Content]]
        /\ \A p \in Place, f \in File :
             dir'[p][f] = IF f = m.file /\ Listed(m) /\ dir["prior"][f] # "none"
                            THEN IF p = "live" THEN dir["prior"][f]
                                 ELSE IF p = "prior" THEN "none" ELSE dir[p][f]
                            ELSE dir[p][f]
    <3>1. "live" \in Place /\ "prior" \in Place /\ "live" # "prior"
      BY DEF Place
    <3> QED BY <1>3, <1>7, <2>1, <3>1, TurnedFiles
  <2>3. \A f \in File : Past(f, 0) /\ Past(f, 0)'
    BY <1>8, <1>13, Turns DEF Past
  <2>4. \A f \in File : 4 + Turn(f) = n <=> f = m.file
    BY <1>6, <2>1, Turns
  <2>5. ~Past(m.file, 4)
    BY <1>13, <2>1 DEF Past
  <2>6. ASSUME NEW f \in File PROVE Returning(f)
    <3>1. /\ dir["prior"][f] = IF Past(f, 4) THEN "none" ELSE old[f]
          /\ Past(f, 4) /\ old[f] = "old" => dir["live"][f] = "old"
          /\ Quiet(f) => dir["live"][f] = IF Past(f, 4) THEN old[f] ELSE "none"
      BY <2>3 DEF RollingForward
    <3>2. old[f] \in {"old", "none"}
      BY DEF OldFiles
    <3>3. CASE f = m.file
      <4>1. dir["prior"][f] = old[f] /\ (Quiet(f) => dir["live"][f] = "none")
        BY <2>5, <3>1, <3>3
      <4>2. dir'["prior"][f] = "none" /\ (old[f] = "old" => dir'["live"][f] = "old")
            /\ (old[f] = "none" => dir'["live"][f] = dir["live"][f])
        BY <1>9, <2>2, <3>2, <3>3, <4>1 DEF Place
      <4>3. Past(f, 4)'
        BY <1>11, <2>1, <3>3
      <4> QED BY <1>14, <2>3, <3>2, <4>1, <4>2, <4>3
    <3>4. CASE f # m.file
      <4>1. dir'["prior"][f] = dir["prior"][f] /\ dir'["live"][f] = dir["live"][f]
        BY <2>2, <3>4 DEF Place
      <4>2. Past(f, 4)' <=> Past(f, 4)
        BY <1>11, <2>4, <3>4
      <4> QED BY <1>14, <2>3, <3>1, <4>1, <4>2
    <3> QED BY <3>3, <3>4
  <2>7. RollingForward'
    BY <1>8, <1>10, <2>6 DEF RollingForward
  <2> QED BY <1>2, <1>7, <1>8, <2>2, <2>7 DEF Parts, Rename
<1> QED BY <1>2, <1>12, <1>13

\* Its handler keeps the files well-typed.
LEMMA RollingBackTurn ==
  ASSUME Parts, Rename, command.name = "rollback", command.phase = "undo"
  PROVE  Turned(NextMove) /\ Parts'
<1> DEFINE n == command.next
           m == UndoRollback[n]
<1>1. Plan = UndoRollback /\ Len(UndoRollback) = 8
  BY WhichPlan, RollbackPlans DEF TwoLoopPlan
<1>2. dir \in [Place -> [File -> Content]] /\ command \in CommandState
  BY DEF Parts
<1>3. n \in 1..8 /\ NextMove = m
  <2>1. 2 * Len(StateNames) + 1 = 9
    BY Names
  <2>2. n \in 1..9
    BY <1>2, <2>1 DEF CommandState
  <2>3. n # 9
    BY <1>1 DEF Rename, Through
  <2> QED BY <1>1, <2>2, <2>3 DEF NextMove
<1>4. /\ n \in 1..4 => Moves(m, "live", "prior")
      /\ n \in 5..8 => Moves(m, "aside", "live")
  BY RollbackPlans DEF TwoLoopPlan
<1>5. m.file \in File
  BY <1>3, <1>4 DEF Moves
<1>6. n + 1 \in 1..9
  BY <1>3
<1>7. Turned(m)
  BY <1>2, <1>3, <1>5, <1>6, RenameTurns
<1> HIDE DEF m
<1>8. dir' \in [Place -> [File -> Content]]
  <2>1. "live" \in Place /\ "prior" \in Place /\ "aside" \in Place
        /\ "live" # "prior" /\ "aside" # "live"
    BY DEF Place
  <2>2. CASE n \in 1..4
    BY <1>2, <1>4, <1>7, <2>1, <2>2, TurnedFiles
  <2>3. CASE n \in 5..8
    BY <1>2, <1>4, <1>7, <2>1, <2>3, TurnedFiles
  <2> QED BY <1>3, <2>2, <2>3
<1> QED BY <1>3, <1>7, <1>8 DEF Turned, Parts, Rename
-----------------------------------------------------------------------------
(* What the loops leave when they end, or are cut short *)

LEMMA TypeParts ==
  ASSUME IInv
  PROVE  /\ dir \in [Place -> [File -> Content]]
         /\ old \in [File -> Content]
         /\ command \in CommandState
         /\ failures \in 0..MaxFailures /\ kills \in 0..MaxKills
         /\ failures \in Nat /\ kills \in Nat
<1>1. TypeOK /\ Parts
  BY Types DEF IInv
<1>2. /\ dir \in [Place -> [File -> Content]] /\ old \in [File -> Content]
      /\ command \in CommandState /\ failures \in 0..MaxFailures /\ kills \in 0..MaxKills
  BY <1>1, Zenon DEF TypeOK
<1> QED BY <1>1, <1>2 DEF Parts

\* A command runs only at its own step of the script.
LEMMA WhoRuns ==
  ASSUME IInv
  PROVE  /\ command.name \in {"none", "restore", "rollback"}
         /\ command.phase \in {"none", "apply", "undo"}
         /\ command.name = "none" => command = NoCommand /\ command.phase = "none"
         /\ command.name # "none" => command.phase \in {"apply", "undo"}
         /\ command.name = "restore" => script = "restoring"
         /\ command.name = "rollback" => script = "rolling back"
         /\ script \notin {"restoring", "rolling back"} => command = NoCommand
<1>1. /\ command.name \in {"none", "restore", "rollback"}
      /\ command.phase \in {"none", "apply", "undo"}
  BY TypeParts, Zenon DEF CommandState
<1>2. command # NoCommand =>
        script = IF command.name = "restore" THEN "restoring" ELSE "rolling back"
  <2>1. TypeOK
    BY DEF IInv
  <2> QED BY <2>1, Zenon DEF TypeOK
<1>3. command.name = "none" => command = NoCommand
  BY DEF IInv, Idle
<1>4. command.name = "none" <=> command.phase = "none"
  BY DEF IInv, Phases
<1>5. command = NoCommand => command.name = "none"
  BY DEF NoCommand
<1>6. command.name = "none" => command.phase = "none"
  BY <1>4
<1>7. command.name # "none" => command.phase \in {"apply", "undo"}
  BY <1>1, <1>4
<1>8. command.name = "restore" => command # NoCommand
  BY <1>5
<1>9. command.name = "rollback" => command # NoCommand /\ command.name # "restore"
  BY <1>5
<1>10. command.name = "restore" => script = "restoring"
  BY <1>2, <1>8
<1>11. command.name = "rollback" => script = "rolling back"
  BY <1>2, <1>9, Zenon
<1>12. script \notin {"restoring", "rolling back"} => command = NoCommand
  BY <1>2, Zenon
<1> QED BY <1>1, <1>3, <1>6, <1>7, <1>10, <1>11, <1>12, Zenon

LEMMA NoCommandType ==
  /\ NoCommand \in CommandState
  /\ NoCommand.name = "none" /\ NoCommand.phase = "none"
<1>1. 2 * Len(StateNames) + 1 = 9
  BY Names
<1>2. 1 \in 1..(2 * Len(StateNames) + 1)
  BY <1>1
<1> QED BY <1>2 DEF NoCommand, CommandState

\* Cut short, a restore has lost nothing.
LEMMA ApplyingSurvives == ASSUME OldFiles, Applying PROVE Survives
<1> SUFFICES ASSUME NEW f \in File, old[f] = "old"
             PROVE  "old" \in {dir["live"][f], dir["prior"][f]}
  BY DEF Survives
<1>1. CASE Past(f, 0)
  BY <1>1 DEF Applying
<1>2. CASE ~Past(f, 0)
  <2>1. ~PastDurable(f, 4)
    <3>1. command.next \in 1..7 /\ Turn(f) \in 1..4 /\ DurableTurn(f) \in 1..2
      BY Turns DEF Applying, DurableTurn
    <3> QED BY <1>2, <3>1 DEF Past, PastDurable
  <2> QED BY <1>2, <2>1 DEF Applying
<1> QED BY <1>1, <1>2

LEMMA UndoingSurvives == ASSUME OldFiles, Undoing PROVE Survives
<1> SUFFICES ASSUME NEW f \in File, old[f] = "old"
             PROVE  "old" \in {dir["live"][f], dir["prior"][f]}
  BY DEF Survives
<1>1. CASE f \in command.moved
  BY <1>1 DEF Undoing
<1>2. CASE f \notin command.moved
  BY <1>2 DEF Undoing
<1> QED BY <1>1, <1>2

\* Through with its loops, a restore has replaced every file.
LEMMA AppliedIsWhole ==
  ASSUME dir \in [Place -> [File -> Content]], old \in [File -> Content],
         Applying, command.next = 7
  PROVE  /\ dir["live"]["database"] = "new" /\ dir["live"]["images"] = "new"
         /\ \A f \in File : dir["live"][f] \in {"none", "new"}
         /\ dir["prior"] = old
<1>1. \A f \in File : Past(f, 0) /\ (PastDurable(f, 4) <=> f \in Durable)
  BY Turns DEF Past, PastDurable
<1>2. \A f \in File : /\ dir["prior"][f] = old[f]
                      /\ dir["live"][f] = IF f \in Durable THEN "new" ELSE "none"
  BY <1>1 DEF Applying
<1>3. dir["prior"] \in [File -> Content]
  BY DEF Place
<1> QED BY <1>2, <1>3 DEF Durable, File

\* Through with its loops, the handler of a restore has returned every file.
LEMMA UndoneIsOld ==
  ASSUME dir \in [Place -> [File -> Content]], old \in [File -> Content],
         Undoing, command.next = 7
  PROVE  dir["live"] = old
<1>1. \A f \in File : Past(f, 2)
  BY Turns DEF Past
<1>2. \A f \in File : dir["live"][f] = old[f]
  BY <1>1 DEF Undoing
<1>3. dir["live"] \in [File -> Content]
  BY DEF Place
<1> QED BY <1>2, <1>3

\* Through with its loops, a rollback has returned every file.
LEMMA RolledForwardIsOld ==
  ASSUME dir \in [Place -> [File -> Content]], old \in [File -> Content],
         RollingForward, command.next = 9
  PROVE  RolledBack
<1>1. \A f \in File : Past(f, 0) /\ Past(f, 4)
  BY Turns DEF Past
<1>2. \A f \in File : old[f] = "old" => dir["live"][f] = "old"
  BY <1>1 DEF RollingForward
<1>3. ASSUME Alone PROVE dir["live"] = old
  <2>1. \A f \in File : Quiet(f)
    BY <1>3, Zenon DEF Quiet
  <2>2. \A f \in File : dir["live"][f] = old[f]
    BY <1>1, <2>1 DEF RollingForward
  <2>3. dir["live"] \in [File -> Content]
    BY DEF Place
  <2> QED BY <2>2, <2>3
<1> QED BY <1>2, <1>3, Zenon DEF RolledBack

\* No rename is refused but in the handler of a rollback.
LEMMA ApplyingIsFree ==
  ASSUME Parts, OldFiles, Applying, command.name = "restore", command.phase = "apply", ~Through
  PROVE  ~Blocked(NextMove)
<1> DEFINE n == command.next
           m == RestoreMoves[n]
<1>1. n \in 1..6 /\ NextMove = m
  <2>1. n \in 1..7
    BY DEF Applying
  <2>2. Plan = RestoreMoves
    BY WhichPlan
  <2>3. Len(RestoreMoves) = 6
    BY RestorePlan
  <2>4. n # 7
    BY <2>2, <2>3 DEF Through
  <2> QED BY <2>1, <2>2, <2>4 DEF NextMove
<1>2. CASE n \in 1..4
  <2>1. Moves(m, "live", "prior") /\ Turn(m.file) = n
    BY <1>2, RestorePlan
  <2>2. ~Past(m.file, 0)
    BY <1>2, <2>1 DEF Past
  <2>3. dir["prior"][m.file] = "none"
    BY <2>1, <2>2 DEF Applying, Moves
  <2> QED BY <1>1, <2>1, <2>3 DEF Blocked, Moves
<1>3. CASE n \in 5..6
  <2>1. /\ Moves(m, "stage", "live") /\ m.file \in Durable /\ 4 + DurableTurn(m.file) = n
    BY <1>3, RestorePlan
  <2>2. Past(m.file, 0) /\ ~PastDurable(m.file, 4)
    BY <1>3, <2>1, Turns DEF Past, PastDurable, Moves
  <2>3. dir["live"][m.file] = "none"
    BY <2>1, <2>2 DEF Applying, Moves
  <2> QED BY <1>1, <2>1, <2>3 DEF Blocked, Moves
<1> QED BY <1>1, <1>2, <1>3

LEMMA UndoingIsFree ==
  ASSUME Parts, OldFiles, Undoing, command.name = "restore", command.phase = "undo", ~Through,
         Due(NextMove)
  PROVE  ~Blocked(NextMove)
<1> DEFINE n == command.next
           m == UndoRestore[n]
<1>1. n \in 1..6 /\ NextMove = m
  <2>1. n \in 1..7
    BY DEF Undoing
  <2>2. Plan = UndoRestore
    BY WhichPlan
  <2>3. Len(UndoRestore) = 6
    BY UndoRestorePlan
  <2>4. n # 7
    BY <2>2, <2>3 DEF Through
  <2> QED BY <2>1, <2>2, <2>4 DEF NextMove
<1>2. Listed(m)
  BY <1>1 DEF Due
<1>3. CASE n \in 1..2
  <2>1. Moves(m, "live", "stage") /\ m.file \in Durable /\ DurableTurn(m.file) = n
    BY <1>3, UndoRestorePlan
  <2>2. m.file \in command.installed
    BY <1>2, <2>1 DEF Listed, Moves
  <2>3. ~PastDurable(m.file, 0)
    BY <1>3, <2>1 DEF PastDurable
  <2>4. dir["stage"][m.file] = "none"
    BY <2>2, <2>3 DEF Undoing
  <2> QED BY <1>1, <2>1, <2>4 DEF Blocked, Moves
<1>4. CASE n \in 3..6
  <2>1. Moves(m, "prior", "live") /\ 2 + Turn(m.file) = n
    BY <1>4, UndoRestorePlan
  <2>2. m.file \in command.moved
    BY <1>2, <2>1 DEF Listed, Moves
  <2>3. ~Past(m.file, 2)
    BY <1>4, <2>1 DEF Past
  <2>4. m.file \in Durable => PastDurable(m.file, 0)
    BY <1>4, Turns DEF PastDurable
  <2>5. m.file \in command.installed => PastDurable(m.file, 0)
    BY <2>4 DEF Undoing
  <2>6. dir["live"][m.file] = "none"
    BY <2>2, <2>3, <2>5 DEF Undoing
  <2> QED BY <1>1, <2>1, <2>6 DEF Blocked, Moves
<1> QED BY <1>1, <1>3, <1>4

LEMMA RollingForwardIsFree ==
  ASSUME Parts, RollingForward, command.name = "rollback", command.phase = "apply", ~Through
  PROVE  ~Blocked(NextMove)
<1> DEFINE n == command.next
           m == RollbackMoves[n]
<1>1. n \in 1..8 /\ NextMove = m
  <2>1. n \in 1..9
    BY DEF RollingForward
  <2>2. Plan = RollbackMoves
    BY WhichPlan
  <2>3. Len(RollbackMoves) = 8
    BY RollbackPlans DEF TwoLoopPlan
  <2>4. n # 9
    BY <2>2, <2>3 DEF Through
  <2> QED BY <2>1, <2>2, <2>4 DEF NextMove
<1>2. CASE n \in 1..4
  <2>1. Moves(m, "live", "aside") /\ Turn(m.file) = n
    BY <1>2, RollbackPlans DEF TwoLoopPlan
  <2>2. ~Past(m.file, 0)
    BY <1>2, <2>1 DEF Past
  <2>3. dir["aside"][m.file] = "none"
    BY <2>1, <2>2 DEF RollingForward, Moves
  <2> QED BY <1>1, <2>1, <2>3 DEF Blocked, Moves
<1>3. CASE n \in 5..8
  <2>1. Moves(m, "prior", "live") /\ 4 + Turn(m.file) = n
    BY <1>3, RollbackPlans DEF TwoLoopPlan
  <2>2. Past(m.file, 0) /\ ~Past(m.file, 4)
    BY <1>3, <2>1, Turns DEF Past, Moves
  <2>3. m.file = "images" => dir["live"][m.file] = "none"
    BY <2>1, <2>2 DEF RollingForward, Moves, Quiet
  <2> QED BY <1>1, <2>1, <2>3 DEF Blocked, Moves
<1> QED BY <1>1, <1>2, <1>3
-----------------------------------------------------------------------------
(* The steps of the script *)

\* A script step outside the commands changes neither them nor the counts.
Scripts ==
  RollingBack \cup {"verifying", "refused", "restoring", "starting", "checking",
                    "restored", "starting previous", "not restored"}

\* The script's steps around its commands, and those of a restore.
Settled == {"verifying", "refused", "checking", "restored", "not restored", "rolled back"}
Exclusive == {"restoring", "starting", "starting previous"}
WebFits == web \in BOOLEAN /\ (script \in Exclusive => ~web)
Owned ==
  command # NoCommand =>
    script = IF command.name = "restore" THEN "restoring" ELSE "rolling back"

LEMMA TypesFit ==
  TypeOK <=>
    /\ dir \in [Place -> [File -> Content]] /\ old \in [File -> Content]
    /\ script \in Scripts /\ WebFits /\ command \in CommandState /\ Owned
    /\ failures \in 0..MaxFailures /\ kills \in 0..MaxKills
BY Zenon DEF TypeOK, Scripts, WebFits, Exclusive, Owned

LEMMA TypesFitNext ==
  TypeOK' <=>
    /\ dir' \in [Place -> [File -> Content]] /\ old' \in [File -> Content]
    /\ script' \in Scripts /\ WebFits' /\ command' \in CommandState /\ Owned'
    /\ failures' \in 0..MaxFailures /\ kills' \in 0..MaxKills
BY Zenon DEF TypeOK, Scripts, WebFits, Exclusive, Owned

LEMMA StillFits ==
  ASSUME IInv, web' = web, (script' \notin Exclusive) \/ script' = script PROVE WebFits'
<1>1. WebFits
  BY TypesFit DEF IInv
<1> QED BY <1>1, Zenon DEF WebFits

LEMMA StoppedFits == ASSUME web' = FALSE PROVE WebFits'
BY Zenon DEF WebFits

\* A state in which no command runs.
LEMMA Ended ==
  ASSUME dir' \in [Place -> [File -> Content]], old' \in [File -> Content],
         script' \in Scripts, WebFits', command' = NoCommand,
         failures' \in 0..MaxFailures, kills' \in 0..MaxKills,
         OldFiles', Files'
  PROVE  IInv'
<1>1. command' \in CommandState /\ command'.name = "none" /\ command'.phase = "none"
  BY NoCommandType
<1>2. Idle' /\ Phases' /\ Owned'
  BY <1>1 DEF Idle, Phases, Owned
<1>3. TypeOK'
  BY <1>1, <1>2, TypesFitNext
<1> QED BY <1>2, <1>3, Zenon DEF IInv

LEMMA StepRefuseArchive == ASSUME IInv, RefuseArchive PROVE IInv'
<1>1. /\ script = "verifying" /\ script' = "refused"
      /\ dir' = dir /\ command' = command /\ old' = old
      /\ failures' = failures /\ kills' = kills
  BY DEF RefuseArchive
<1>2. web' = web
  BY DEF RefuseArchive
<1>3. command = NoCommand
  BY <1>1, WhoRuns
<1>4. WebFits'
  <2>1. script' \notin Exclusive
    BY <1>1 DEF Exclusive
  <2> QED BY <1>2, <2>1, StillFits
<1>5. script' \in Scripts
  BY <1>1 DEF Scripts
<1>6. Files' /\ OldFiles'
  <2>1. Files /\ OldFiles
    BY DEF IInv
  <2> QED BY <1>1, <2>1 DEF Files, NothingBeside, OldFiles
<1> QED BY <1>1, <1>3, <1>4, <1>5, <1>6, TypeParts, Ended

\* The application leaves its WAL or has merged it; nothing else has been touched.
LEMMA StepStopForRestore == ASSUME IInv, StopForRestore PROVE IInv'
<1>1. /\ script = "verifying" /\ script' = "restoring"
      /\ command' = command /\ failures' = failures /\ kills' = kills
  BY DEF StopForRestore
<1>2. PICK files \in Stopped(dir["live"]) : dir' = [dir EXCEPT !["live"] = files] /\ old' = files
  BY DEF StopForRestore
<1>3. command = NoCommand
  BY <1>1, WhoRuns
<1>4. NothingBeside /\ dir["live"] = [f \in File |-> "old"]
  BY <1>1 DEF IInv, Files
<1>5. /\ files \in [File -> Content] /\ files \in [File -> {"old", "none"}]
      /\ files["database"] = "old" /\ files["images"] = "old"
  BY <1>2, <1>4 DEF Stopped, Content, File
<1>6. /\ dir' \in [Place -> [File -> Content]] /\ dir'["live"] = files
      /\ dir'["prior"] = Nothing /\ dir'["aside"] = Nothing
  BY <1>2, <1>4, <1>5, TypeParts DEF Place, NothingBeside
<1>7. OldFiles'
  BY <1>2, <1>5 DEF OldFiles, Durable
<1>8. Files'
  BY <1>1, <1>2, <1>3, <1>6, NoCommandType DEF Files, NothingBeside
<1>9. script' \in Scripts
  BY <1>1 DEF Scripts
<1>10. WebFits'
  BY StoppedFits, Zenon DEF StopForRestore, WebStops
<1> QED BY <1>1, <1>2, <1>3, <1>5, <1>6, <1>7, <1>8, <1>9, <1>10, TypeParts, Ended
\* Starting, the application changes no file that it finds.
LEMMA StartedFiles ==
  ASSUME NEW files \in [File -> Content]
  PROVE  /\ Started(files) \in [File -> Content]
         /\ \A f \in File : files[f] # "none" => Started(files)[f] = files[f]
         /\ files["database"] # "none" =>
              \A f \in File : Started(files)[f] \in {files[f], "fresh", files["database"]}
         /\ files["database"] # "none" /\ files["images"] # "none" =>
              \A f \in File : Started(files)[f] \in {files[f], files["database"]}
         /\ (\A f \in File : files[f] # "none") => Started(files) = files
<1> DEFINE database == IF files["database"] = "none" THEN "fresh" ELSE files["database"]
<1>1. database \in Content
  BY DEF Content, File
<1>2. Started(files) = [f \in File |-> CASE files[f] # "none" -> files[f]
                              [] files[f] = "none" /\ f = "images" -> "fresh"
                              [] files[f] = "none" /\ f # "images" -> database]
  BY DEF Started
<1> HIDE DEF database
<1>3. ASSUME NEW f \in File
      PROVE  /\ Started(files)[f] \in Content
             /\ files[f] # "none" => Started(files)[f] = files[f]
             /\ files[f] = "none" /\ f = "images" => Started(files)[f] = "fresh"
             /\ files[f] = "none" /\ f # "images" => Started(files)[f] = database
  <2>1. files[f] \in Content /\ "fresh" \in Content
    BY DEF Content
  <2>2. CASE files[f] # "none" BY <1>2, <2>1, <2>2
  <2>3. CASE files[f] = "none" /\ f = "images" BY <1>2, <2>1, <2>3
  <2>4. CASE files[f] = "none" /\ f # "images" BY <1>1, <1>2, <2>4
  <2> QED BY <2>2, <2>3, <2>4
<1>4. Started(files) \in [File -> Content]
  BY <1>2, <1>3
<1>5. files["database"] # "none" => database = files["database"]
  BY DEF database
<1>6. (\A f \in File : files[f] # "none") => Started(files) = files
  BY <1>2, <1>3
<1> QED BY <1>3, <1>4, <1>5, <1>6

\* The web container starts, after a command or again.
LEMMA WebStarts ==
  ASSUME IInv, WebFits', dir' = [dir EXCEPT !["live"] = Started(dir["live"])],
         command' = command, old' = old, failures' = failures, kills' = kills,
         \/ script' = script /\ script \in Settled
         \/ script = "starting" /\ script' = "checking"
         \/ script = "starting previous" /\ script' = "not restored"
         \/ script = "starting rolled back" /\ script' = "rolled back"
  PROVE  IInv'
<1>1. command = NoCommand
  BY WhoRuns DEF Settled
<1> DEFINE files == dir["live"]
<1>2. /\ files \in [File -> Content] /\ dir \in [Place -> [File -> Content]]
      /\ dir' = [dir EXCEPT !["live"] = Started(files)]
  BY TypeParts DEF Place
<1> HIDE DEF files
<1>3. /\ dir' \in [Place -> [File -> Content]]
      /\ dir'["live"] = Started(files)
      /\ \A p \in Place \ {"live"} : dir'[p] = dir[p]
  <2> DEFINE started == Started(files)
  <2>1. started \in [File -> Content]
    BY <1>2, StartedFiles
  <2>2. dir' = [dir EXCEPT !["live"] = started] /\ dir \in [Place -> [File -> Content]]
    BY <1>2
  <2>3. "live" \in Place
    BY DEF Place
  <2> HIDE DEF started
  <2>4. /\ dir' \in [Place -> [File -> Content]] /\ dir'["live"] = started
        /\ \A p \in Place \ {"live"} : dir'[p] = dir[p]
    BY <2>1, <2>2, <2>3, Zenon
  <2> QED BY <2>4 DEF started
<1>4. dir'["prior"] = dir["prior"] /\ dir'["aside"] = dir["aside"]
  BY <1>3 DEF Place
<1>5. Files /\ OldFiles
  BY DEF IInv
<1>6. OldFiles'
  BY <1>5 DEF OldFiles
<1>7. script' \in Settled /\ script' \in Scripts
  BY DEF Settled, Scripts, RollingBack
<1>9. Files'
  <2>1. CASE script' = script /\ script \in {"verifying", "refused"}
    <3>1. files = [f \in File |-> "old"] /\ NothingBeside /\ old = files
      BY <1>5, <2>1 DEF Files, files
    <3>2. Started(files) = files
      BY <1>2, <3>1, StartedFiles
    <3> QED BY <1>3, <1>4, <2>1, <3>1, <3>2 DEF Files, NothingBeside
  <2>2. CASE script \in {"starting", "checking", "restored"}
    <3>1. RestoredIsWhole /\ dir["aside"] = Nothing
      BY <1>5, <2>2 DEF Files
    <3>2. /\ files["database"] = "new" /\ files["images"] = "new"
          /\ \A f \in File : files[f] \in {"none", "new"}
          /\ dir["prior"] = old
      BY <2>2, <3>1 DEF RestoredIsWhole, files
    <3>3. /\ \A f \in File : Started(files)[f] \in {files[f], "new"}
          /\ Started(files)["database"] = "new" /\ Started(files)["images"] = "new"
      BY <1>2, <3>2, StartedFiles DEF File
    <3>4. script' \in {"starting", "checking", "restored"}
      BY <2>2 DEF Settled
    <3>5. RestoredIsWhole'
      BY <1>3, <1>4, <3>2, <3>3 DEF RestoredIsWhole
    <3> QED BY <1>4, <3>1, <3>4, <3>5 DEF Files
  <2>3. CASE script \in {"starting previous", "not restored"}
    <3>1. Survives
      BY <1>5, <2>3 DEF Files
    <3>2. \A f \in File : files[f] # "none" => Started(files)[f] = files[f]
      BY <1>2, StartedFiles
    <3>3. Survives'
      BY <1>3, <1>4, <3>1, <3>2 DEF Survives, files
    <3>4. script' = "not restored"
      BY <2>3 DEF Settled
    <3> QED BY <3>3, <3>4 DEF Files
  <2>4. CASE script \in {"starting rolled back", "rolled back"}
    <3>1. script' = "rolled back"
      BY <2>4 DEF Settled
    <3> QED BY <3>1 DEF Files
  <2> QED BY <2>1, <2>2, <2>3, <2>4 DEF Settled
<1> QED BY <1>1, <1>3, <1>6, <1>7, <1>9, TypeParts, Ended

\* The script goes on, and no file has changed.
LEMMA NothingStarts ==
  ASSUME IInv, web' = web, dir' = dir,
         command' = command, old' = old, failures' = failures, kills' = kills,
         \/ script = "starting" /\ script' = "checking"
         \/ script = "starting previous" /\ script' = "not restored"
         \/ script = "starting rolled back" /\ script' = "rolled back"
  PROVE  IInv'
<1>1. command = NoCommand
  BY WhoRuns
<1>2. WebFits'
  <2>1. script' \notin Exclusive
    BY DEF Exclusive
  <2> QED BY <2>1, StillFits
<1>3. script' \in Scripts
  BY DEF Scripts, RollingBack
<1>4. Files /\ OldFiles
  BY DEF IInv
<1>5. OldFiles'
  BY <1>4 DEF OldFiles
<1>6. CASE script = "starting" /\ script' = "checking"
  <2>1. Files'
    BY <1>4, <1>6 DEF Files, RestoredIsWhole
  <2> QED BY <1>1, <1>2, <1>3, <1>5, <2>1, TypeParts, Ended
<1>7. CASE script = "starting previous" /\ script' = "not restored"
  <2>1. Files'
    BY <1>4, <1>7 DEF Files, Survives
  <2> QED BY <1>1, <1>2, <1>3, <1>5, <2>1, TypeParts, Ended
<1>8. CASE script = "starting rolled back" /\ script' = "rolled back"
  <2>1. Files'
    BY <1>8 DEF Files
  <2> QED BY <1>1, <1>2, <1>3, <1>5, <2>1, TypeParts, Ended
<1> QED BY <1>6, <1>7, <1>8

LEMMA StepStartWeb ==
  ASSUME IInv, NEW from, NEW to, StartWeb(from, to),
         \/ from = "starting" /\ to = "checking"
         \/ from = "starting previous" /\ to = "not restored"
         \/ from = "starting rolled back" /\ to = "rolled back"
  PROVE  IInv'
<1>1. /\ script = from /\ script' = to
      /\ command' = command /\ old' = old /\ failures' = failures /\ kills' = kills
  BY Zenon DEF StartWeb
<1>2. CASE web' = TRUE /\ dir' = [dir EXCEPT !["live"] = Started(dir["live"])]
  <2>1. to \notin Exclusive
    BY DEF Exclusive
  <2>2. WebFits'
    BY <1>1, <1>2, <2>1, Zenon DEF WebFits
  <2> QED BY <1>1, <1>2, <2>2, WebStarts
<1>3. CASE web' = web /\ dir' = dir
  BY <1>1, <1>3, NothingStarts
<1> QED BY <1>2, <1>3, Zenon DEF StartWeb

LEMMA StepHealthy == ASSUME IInv, Healthy PROVE IInv'
<1>1. /\ script = "checking" /\ script' = "restored"
      /\ dir' = dir /\ command' = command /\ old' = old
      /\ failures' = failures /\ kills' = kills
  BY DEF Healthy
<1>2. web' = web
  BY DEF Healthy
<1>3. command = NoCommand
  BY <1>1, WhoRuns
<1>4. script' \in Scripts /\ script' \notin Exclusive
  BY <1>1 DEF Exclusive, Scripts
<1>5. WebFits'
  BY <1>2, <1>4, StillFits
<1>6. Files' /\ OldFiles'
  <2>1. Files /\ OldFiles
    BY DEF IInv
  <2> QED BY <1>1, <2>1 DEF Files, RestoredIsWhole, OldFiles
<1> QED BY <1>1, <1>3, <1>4, <1>5, <1>6, TypeParts, Ended

LEMMA StepStopForRollback == ASSUME IInv, StopForRollback PROVE IInv'
<1>1. /\ script = "checking" /\ script' = "rolling back"
      /\ command' = command /\ old' = old /\ failures' = failures /\ kills' = kills
  BY Zenon DEF StopForRollback
<1>2. /\ dir' \in [Place -> [File -> Content]]
      /\ dir'["prior"] = dir["prior"] /\ dir'["aside"] = dir["aside"]
  <2>1. CASE \E files \in Stopped(dir["live"]) : dir' = [dir EXCEPT !["live"] = files]
    <3>1. PICK files \in Stopped(dir["live"]) : dir' = [dir EXCEPT !["live"] = files]
      BY <2>1
    <3>2. dir["live"] \in [File -> Content] /\ "none" \in Content
      BY TypeParts DEF Place, Content
    <3>3. files \in [File -> Content]
      BY <3>1, <3>2 DEF Stopped
    <3> QED BY <3>1, <3>3, TypeParts DEF Place
  <2>2. CASE dir' = dir
    BY <2>2, TypeParts
  <2> QED BY <2>1, <2>2, Zenon DEF StopForRollback
<1>3. command = NoCommand
  BY <1>1, WhoRuns
<1>4. Files /\ OldFiles
  BY DEF IInv
<1>5. dir["prior"] = old /\ dir["aside"] = Nothing
  BY <1>1, <1>4 DEF Files, RestoredIsWhole
<1>6. Files' /\ OldFiles'
  BY <1>1, <1>2, <1>3, <1>4, <1>5, NoCommandType DEF Files, OldFiles
<1>7. script' \in Scripts /\ script' \notin Exclusive
  BY <1>1 DEF Scripts, RollingBack, Exclusive
<1>8. WebFits'
  BY <1>7, StillFits, StoppedFits, Zenon DEF StopForRollback, WebStops
<1> QED BY <1>1, <1>2, <1>3, <1>6, <1>7, <1>8, TypeParts, Ended
-----------------------------------------------------------------------------
(* The steps of the commands *)

LEMMA ExtractedFiles == Archived \in [File -> Content] /\ Nothing \in [File -> Content]
BY DEF Archived, Nothing, File, Content

\* What a command's step leaves as it is, and what must hold after it.
LEMMA CommandStep ==
  ASSUME IInv, dir' \in [Place -> [File -> Content]], command' \in CommandState,
         web' = web, script' = script, old' = old,
         failures' \in 0..MaxFailures, kills' \in 0..MaxKills,
         command'.name # "none", command'.phase # "none",
         script = IF command'.name = "restore" THEN "restoring" ELSE "rolling back",
         Files'
  PROVE  IInv'
<1>1. TypeOK /\ OldFiles
  BY DEF IInv
<1>2. old \in [File -> Content] /\ script \in Scripts
  BY <1>1, TypesFit
<1>3. WebFits'
  BY StillFits
<1>4. OldFiles'
  BY <1>1 DEF OldFiles
<1>5. Idle' /\ Phases' /\ Owned'
  BY DEF Idle, Phases, Owned
<1>6. TypeOK'
  BY <1>2, <1>3, <1>5, TypesFitNext
<1> QED BY <1>4, <1>5, <1>6, Zenon DEF IInv

\* A command that ends lets the script go on.
LEMMA EndStep ==
  ASSUME IInv, NEW success, End(success), web' = web, old' = old,
         dir' \in [Place -> [File -> Content]],
         failures' \in 0..MaxFailures, kills' \in 0..MaxKills,
         script \in {"restoring", "rolling back"}, script' = Then(success),
         Files'
  PROVE  IInv'
<1>1. TypeOK /\ OldFiles
  BY DEF IInv
<1>2. old \in [File -> Content] /\ WebFits
  BY <1>1, TypesFit
<1>3. /\ script' \in Scripts
      /\ script' \in Exclusive => script \in Exclusive
  BY DEF Then, Scripts, Exclusive, RollingBack
<1>4. WebFits'
  BY <1>2, <1>3, Zenon DEF WebFits
<1>5. OldFiles'
  BY <1>1 DEF OldFiles
<1> QED BY <1>2, <1>3, <1>4, <1>5, Ended DEF End

LEMMA RunCommand ==
  ASSUME NEW name \in {"restore", "rollback"}, Run(name)
  PROVE  /\ command' \in CommandState /\ command'.name = name /\ command'.phase = "apply"
         /\ command'.next = 1 /\ command'.moved = {} /\ command'.installed = {}
<1> DEFINE named == [NoCommand EXCEPT !.name = name]
<1>1. NoCommand \in CommandState
  BY NoCommandType
<1>2. NoCommand.next = 1 /\ NoCommand.moved = {} /\ NoCommand.installed = {}
  BY DEF NoCommand
<1>3. /\ named \in CommandState /\ named.name = name /\ named.next = 1
      /\ named.moved = {} /\ named.installed = {}
  BY <1>1, <1>2, Zenon DEF CommandState
<1>4. command' = [named EXCEPT !.phase = "apply"]
  BY Zenon DEF Run
<1> HIDE DEF named
<1> QED BY <1>3, <1>4, Zenon DEF CommandState

LEMMA StepBeginRestore == ASSUME IInv, BeginRestore PROVE IInv'
<1>1. /\ script = "restoring" /\ command = NoCommand /\ script' = script
      /\ dir' = [dir EXCEPT !["stage"] = Archived]
      /\ old' = old /\ failures' = failures /\ kills' = kills
  BY DEF BeginRestore
<1>2. web' = web
  BY DEF BeginRestore
<1>3. /\ command' \in CommandState /\ command'.name = "restore" /\ command'.phase = "apply"
      /\ command'.next = 1 /\ command'.moved = {} /\ command'.installed = {}
  BY RunCommand DEF BeginRestore
<1>4. dir \in [Place -> [File -> Content]] /\ Archived \in [File -> Content]
  BY TypeParts, ExtractedFiles
<1>5. /\ dir' \in [Place -> [File -> Content]] /\ dir'["stage"] = Archived
      /\ \A p \in Place \ {"stage"} : dir'[p] = dir[p]
  BY <1>1, <1>4 DEF Place
<1>6. NothingBeside /\ dir["live"] = old
  <2>1. Files
    BY DEF IInv
  <2> QED BY <1>1, <2>1, NoCommandType DEF Files
<1>7. dir'["aside"] = Nothing /\ dir'["live"] = old' /\ dir'["prior"] = Nothing
  BY <1>1, <1>5, <1>6 DEF Place, NothingBeside
<1>8. Applying'
  <2>1. \A f \in File : ~Past(f, 0)' /\ ~PastDurable(f, 4)'
    BY <1>3, Turns DEF Past, PastDurable
  <2>2. \A f \in File : Archived[f] = IF f \in Durable THEN "new" ELSE "none"
    BY DEF Archived, Nothing, File, Durable
  <2> QED BY <1>3, <1>5, <1>7, <2>1, <2>2 DEF Applying, Nothing
<1>9. Files'
  BY <1>1, <1>3, <1>7, <1>8 DEF Files
<1> QED BY <1>1, <1>2, <1>3, <1>5, <1>9, TypeParts, CommandStep

LEMMA StepBeginRollback == ASSUME IInv, BeginRollback PROVE IInv'
<1>1. /\ script = "rolling back" /\ command = NoCommand /\ script' = script
      /\ dir' = dir /\ old' = old /\ failures' = failures /\ kills' = kills
  BY DEF BeginRollback
<1>2. web' = web
  BY DEF BeginRollback
<1>3. /\ command' \in CommandState /\ command'.name = "rollback" /\ command'.phase = "apply"
      /\ command'.next = 1
  BY RunCommand DEF BeginRollback
<1>4. dir["prior"] = old /\ dir["aside"] = Nothing
  <2>1. Files
    BY DEF IInv
  <2> QED BY <1>1, <2>1, NoCommandType DEF Files
<1>5. RollingForward'
  <2>1. \A f \in File : ~Past(f, 0)' /\ ~Past(f, 4)'
    BY <1>3, Turns DEF Past
  <2>2. \A f \in File : dir'["aside"][f] = "none"
    BY <1>1, <1>4 DEF Nothing
  <2>3. \A f \in File : dir'["prior"][f] = old'[f]
    BY <1>1, <1>4
  <2>4. command'.next \in 1..9
    BY <1>3
  <2> QED BY <2>1, <2>2, <2>3, <2>4 DEF RollingForward
<1>6. Files'
  BY <1>1, <1>3, <1>5 DEF Files
<1> QED BY <1>1, <1>2, <1>3, <1>6, TypeParts, CommandStep

LEMMA StepFailEarly == ASSUME IInv, FailEarly PROVE IInv'
<1>1. /\ script \in {"restoring", "rolling back"} /\ command = NoCommand
      /\ script' = Then(FALSE)
      /\ dir' = dir /\ command' = command /\ old' = old /\ kills' = kills
  BY DEF FailEarly
<1>2. web' = web
  BY DEF FailEarly
<1>3. failures' \in 0..MaxFailures /\ failures' > 0
  <2>1. failures < MaxFailures /\ failures' = failures + 1
    BY DEF FailEarly
  <2> QED BY <2>1, TypeParts, RestoreAssumption
<1>4. Files /\ OldFiles
  BY DEF IInv
<1>5. Files'
  <2>1. CASE script = "restoring"
    <3>1. dir["live"] = old
      BY <1>1, <1>4, <2>1, NoCommandType DEF Files
    <3>2. Survives'
      BY <1>1, <3>1 DEF Survives
    <3>3. script' = "starting previous"
      BY <1>1, <2>1 DEF Then
    <3> QED BY <1>1, <3>1, <3>2, <3>3 DEF Files
  <2>2. CASE script = "rolling back"
    <3>1. script' = "starting rolled back"
      BY <1>1, <2>2 DEF Then
    <3>2. ~Untroubled'
      BY <1>3 DEF Untroubled
    <3> QED BY <3>1, <3>2 DEF Files
  <2> QED BY <1>1, <2>1, <2>2
<1>6. End(FALSE)
  BY <1>1 DEF End
<1> QED BY <1>1, <1>2, <1>3, <1>5, <1>6, TypeParts, EndStep
\* Which of the four loops a command is in, and what it has done so far.
LEMMA Doing ==
  ASSUME IInv
  PROVE  /\ command.name = "restore" /\ command.phase = "apply" =>
              Applying /\ dir["aside"] = Nothing
         /\ command.name = "restore" /\ command.phase = "undo" => Undoing /\ failures > 0
         /\ command.name = "rollback" /\ command.phase = "apply" => RollingForward
         /\ command.name = "rollback" /\ command.phase = "undo" => ~Untroubled
<1>1. Files
  BY DEF IInv
<1> QED BY <1>1, WhoRuns DEF Files

\* New connections fill in only what is missing, and no image directory.
LEMMA ConnectedFiles ==
  ASSUME NEW files \in [File -> Content]
  PROVE  /\ Connected(files) \in [File -> Content]
         /\ \A f \in File : files[f] # "none" => Connected(files)[f] = files[f]
         /\ Connected(files)["images"] = files["images"]
<1> DEFINE started == Started(files)
<1>1. /\ started \in [File -> Content]
      /\ \A f \in File : files[f] # "none" => started[f] = files[f]
  BY StartedFiles
<1>2. Connected(files) = [started EXCEPT !["images"] = files["images"]]
  BY DEF Connected
<1>3. "images" \in File
  BY DEF File
<1> HIDE DEF started
<1> QED BY <1>1, <1>2, <1>3, SMT

LEMMA WebConnectsFiles ==
  ASSUME dir \in [Place -> [File -> Content]], WebConnects
  PROVE  /\ dir' \in [Place -> [File -> Content]]
         /\ dir'["prior"] = dir["prior"] /\ dir'["aside"] = dir["aside"]
         /\ dir'["stage"] = dir["stage"]
         /\ \A f \in File : dir["live"][f] # "none" => dir'["live"][f] = dir["live"][f]
         /\ dir'["live"]["images"] = dir["live"]["images"]
<1> DEFINE files == dir["live"]
           connected == Connected(files)
<1>1. files \in [File -> Content] /\ "live" \in Place
  BY DEF Place
<1>2. /\ connected \in [File -> Content]
      /\ \A f \in File : files[f] # "none" => connected[f] = files[f]
      /\ connected["images"] = files["images"]
  BY <1>1, ConnectedFiles
<1>3. dir' = [dir EXCEPT !["live"] = connected]
  BY Zenon DEF WebConnects
<1> HIDE DEF connected
<1>4. /\ dir' \in [Place -> [File -> Content]] /\ dir'["live"] = connected
      /\ \A p \in Place \ {"live"} : dir'[p] = dir[p]
  BY <1>1, <1>2, <1>3, Zenon
<1> QED BY <1>2, <1>4 DEF Place

\* A running application beside a rollback replaces no file that is there.
LEMMA StepWebConnects == ASSUME IInv, WebConnects PROVE IInv'
<1>1. /\ script' = script /\ command' = command /\ old' = old
      /\ failures' = failures /\ kills' = kills /\ script \in RollingBack
  BY Zenon DEF WebConnects
<1>2. web' = web
  BY Zenon DEF WebConnects
<1>3. ~Alone /\ ~Alone'
  <2>1. web
    BY Zenon DEF WebConnects
  <2>2. web'
    BY <1>2, <2>1, Zenon
  <2> QED BY <2>1, <2>2, Zenon DEF Alone
<1>4. /\ dir' \in [Place -> [File -> Content]]
      /\ dir'["prior"] = dir["prior"] /\ dir'["aside"] = dir["aside"]
      /\ \A f \in File : dir["live"][f] # "none" => dir'["live"][f] = dir["live"][f]
      /\ dir'["live"]["images"] = dir["live"]["images"]
  BY TypeParts, WebConnectsFiles
<1>5. TypeOK /\ OldFiles /\ Idle /\ Phases /\ Files
  BY DEF IInv
<1>6. OldFiles' /\ Idle' /\ Phases'
  BY <1>1, <1>5 DEF OldFiles, Idle, Phases
<1>7. TypeOK'
  <2>1. WebFits'
    BY <1>1, <1>2, StillFits
  <2>2. script' \in Scripts /\ Owned'
    BY <1>1, <1>5, TypesFit DEF Owned
  <2> QED BY <1>1, <1>4, <2>1, <2>2, TypeParts, TypesFitNext
<1>8. CASE script = "rolling back" /\ command.name = "none"
  <2>1. command = NoCommand
    BY <1>8, WhoRuns
  <2>2. dir["prior"] = old /\ dir["aside"] = Nothing
    BY <1>5, <1>8, <2>1, NoCommandType DEF Files
  <2>3. Files'
    BY <1>1, <1>4, <1>8, <2>1, <2>2, NoCommandType DEF Files
  <2> QED BY <1>6, <1>7, <2>3, Zenon DEF IInv
<1>9. CASE command.name = "rollback" /\ command.phase = "apply"
  <2>1. RollingForward /\ script = "rolling back"
    BY <1>9, Doing, WhoRuns
  <2>2. \A f : Past(f, 0)' <=> Past(f, 0)
    BY <1>1 DEF Past
  <2>3. \A f : Past(f, 4)' <=> Past(f, 4)
    BY <1>1 DEF Past
  <2>4. \A f \in File : Quiet(f) <=> f = "images"
    BY <1>3, Zenon DEF Quiet
  <2>5. \A f \in File : Quiet(f)' <=> f = "images"
    BY <1>3, Zenon DEF Quiet
  <2>6. ASSUME NEW f \in File
        PROVE  /\ ~Past(f, 0)' => dir'["aside"][f] = "none"
               /\ dir'["prior"][f] = IF Past(f, 4)' THEN "none" ELSE old'[f]
               /\ Past(f, 4)' /\ old'[f] = "old" => dir'["live"][f] = "old"
               /\ Past(f, 0)' /\ Quiet(f)' =>
                    dir'["live"][f] = IF Past(f, 4)' THEN old'[f] ELSE "none"
    <3>1. ~Past(f, 0) => dir["aside"][f] = "none"
      BY <2>1 DEF RollingForward
    <3>2. dir["prior"][f] = IF Past(f, 4) THEN "none" ELSE old[f]
      BY <2>1 DEF RollingForward
    <3>3. Past(f, 4) /\ old[f] = "old" => dir["live"][f] = "old"
      BY <2>1 DEF RollingForward
    <3>4. Past(f, 0) /\ f = "images" => dir["live"][f] = IF Past(f, 4) THEN old[f] ELSE "none"
      BY <2>1, <2>4 DEF RollingForward
    <3> QED BY <1>1, <1>4, <2>2, <2>3, <2>5, <3>1, <3>2, <3>3, <3>4
  <2>7. command'.next \in 1..9
    BY <1>1, <2>1 DEF RollingForward
  <2>8. RollingForward'
    BY <2>6, <2>7 DEF RollingForward
  <2>9. Files'
    BY <1>1, <1>9, <2>1, <2>8 DEF Files
  <2> QED BY <1>6, <1>7, <2>9, Zenon DEF IInv
<1>10. CASE command.name = "rollback" /\ command.phase = "undo"
  <2>1. ~Untroubled /\ script = "rolling back"
    BY <1>10, Doing, WhoRuns
  <2>2. ~Untroubled'
    BY <1>1, <2>1 DEF Untroubled
  <2>3. Files'
    BY <1>1, <1>10, <2>1, <2>2 DEF Files
  <2> QED BY <1>6, <1>7, <2>3, Zenon DEF IInv
<1>11. CASE script = "starting rolled back"
  <2>1. Untroubled => RolledBack
    BY <1>5, <1>11 DEF Files
  <2>2. RolledBack => RolledBack'
    BY <1>1, <1>3, <1>4, Zenon DEF RolledBack
  <2>3. Untroubled' => Untroubled
    BY <1>1 DEF Untroubled
  <2>4. Files'
    BY <1>1, <1>11, <2>1, <2>2, <2>3 DEF Files
  <2> QED BY <1>6, <1>7, <2>4, Zenon DEF IInv
<1>12. CASE script = "rolled back"
  <2>1. Files'
    BY <1>1, <1>12 DEF Files
  <2> QED BY <1>6, <1>7, <2>1, Zenon DEF IInv
<1>13. script = "rolling back" /\ command.name # "none" =>
          command.name = "rollback" /\ command.phase \in {"apply", "undo"}
  BY WhoRuns
<1> QED BY <1>1, <1>8, <1>9, <1>10, <1>11, <1>12, <1>13 DEF RollingBack

LEMMA StepRename == ASSUME IInv, Rename PROVE IInv'
<1>1. /\ command.name # "none" /\ script' = script
      /\ old' = old /\ failures' = failures /\ kills' = kills
  BY DEF Rename
<1>2. web' = web
  BY DEF Rename
<1>3. Parts /\ OldFiles
  BY Types DEF IInv
<1>4. command.name \in {"restore", "rollback"} /\ command.phase \in {"apply", "undo"}
  BY <1>1, WhoRuns
<1>5. script = IF command.name = "restore" THEN "restoring" ELSE "rolling back"
  BY <1>4, WhoRuns
<1>7. ASSUME Turned(NextMove), Parts', Files' PROVE IInv'
  <2>1. /\ command' \in CommandState
        /\ command'.name = command.name /\ command'.phase = command.phase
    BY <1>7 DEF Turned
  <2>2. dir' \in [Place -> [File -> Content]]
    BY <1>7 DEF Parts
  <2> QED BY <1>1, <1>2, <1>4, <1>5, <1>7, <2>1, <2>2, TypeParts, CommandStep
<1>8. CASE command.name = "restore" /\ command.phase = "apply"
  <2>1. Applying' /\ dir'["aside"] = Nothing /\ Turned(NextMove) /\ Parts'
    BY <1>1, <1>3, <1>8, Doing, ApplyingTurn
  <2>2. command'.name = "restore" /\ command'.phase = "apply" /\ script' = "restoring"
    BY <1>1, <1>5, <1>8, <2>1 DEF Turned
  <2>3. Files'
    BY <2>1, <2>2 DEF Files
  <2> QED BY <1>7, <2>1, <2>3
<1>9. CASE command.name = "restore" /\ command.phase = "undo"
  <2>1. Undoing' /\ Turned(NextMove) /\ Parts'
    BY <1>1, <1>3, <1>9, Doing, UndoingTurn
  <2>2. command'.name = "restore" /\ command'.phase = "undo" /\ script' = "restoring"
    BY <1>1, <1>5, <1>9, <2>1 DEF Turned
  <2>3. failures' > 0
    BY <1>1, <1>9, Doing
  <2>4. Files'
    BY <2>1, <2>2, <2>3 DEF Files
  <2> QED BY <1>7, <2>1, <2>4
<1>10. CASE command.name = "rollback" /\ command.phase = "apply"
  <2>1. RollingForward' /\ Turned(NextMove) /\ Parts'
    BY <1>1, <1>3, <1>10, Doing, RollingForwardTurn
  <2>2. command'.name = "rollback" /\ command'.phase = "apply" /\ script' = "rolling back"
    BY <1>1, <1>5, <1>10, <2>1 DEF Turned
  <2>3. Files'
    BY <2>1, <2>2 DEF Files
  <2> QED BY <1>7, <2>1, <2>3
<1>11. CASE command.name = "rollback" /\ command.phase = "undo"
  <2>1. Turned(NextMove) /\ Parts'
    BY <1>3, <1>11, RollingBackTurn
  <2>2. command'.name = "rollback" /\ command'.phase = "undo" /\ script' = "rolling back"
    BY <1>1, <1>5, <1>11, <2>1 DEF Turned
  <2>3. ~Untroubled'
    BY <1>1, <1>11, Doing DEF Untroubled
  <2>4. Files'
    BY <2>2, <2>3 DEF Files
  <2> QED BY <1>7, <2>1, <2>4
<1> QED BY <1>4, <1>8, <1>9, <1>10, <1>11

\* Removing some of the directories.
LEMMA RemovedPlaces ==
  ASSUME dir \in [Place -> [File -> Content]], NEW places \in SUBSET Place,
         dir' = [p \in Place |-> IF p \in places THEN Nothing ELSE dir[p]]
  PROVE  /\ dir' \in [Place -> [File -> Content]]
         /\ \A p \in Place \ places : dir'[p] = dir[p]
BY ExtractedFiles

LEMMA StageRemoved ==
  ASSUME dir \in [Place -> [File -> Content]], dir' = [dir EXCEPT !["stage"] = Nothing]
  PROVE  /\ dir' \in [Place -> [File -> Content]]
         /\ dir'["live"] = dir["live"] /\ dir'["prior"] = dir["prior"]
BY ExtractedFiles DEF Place

\* A failure makes the handler run, which knows from its lists what to return; in
\* the handler it ends the command.
LEMMA StepFail == ASSUME IInv, Fail PROVE IInv'
<1>1. /\ command.name # "none" /\ old' = old /\ kills' = kills
      /\ \/ failures < MaxFailures /\ failures' = failures + 1
         \/ ~Through /\ Due(NextMove) /\ Blocked(NextMove) /\ failures' = failures
  BY DEF Fail
<1>2. web' = web
  BY DEF Fail
<1>3. Parts /\ OldFiles
  BY Types DEF IInv
<1>4. command.name \in {"restore", "rollback"} /\ command.phase \in {"apply", "undo"}
  BY <1>1, WhoRuns
<1>5. script = IF command.name = "restore" THEN "restoring" ELSE "rolling back"
  BY <1>4, WhoRuns
<1>7. failures' \in 0..MaxFailures /\ kills' \in 0..MaxKills
  BY <1>1, TypeParts, RestoreAssumption
<1>8. CASE command.phase = "apply"
  <2>1. ~Through => ~Blocked(NextMove)
    BY <1>3, <1>4, <1>8, Doing, ApplyingIsFree, RollingForwardIsFree
  <2>2. failures' > 0
    BY <1>1, <2>1, TypeParts
  <2>3. command' = [command EXCEPT !.phase = "undo", !.next = 1] /\ dir' = dir /\ script' = script
    BY <1>8, Zenon DEF Fail
  <2>4. /\ command' \in CommandState /\ command'.name = command.name /\ command'.phase = "undo"
        /\ command'.next = 1 /\ command'.moved = command.moved
        /\ command'.installed = command.installed
    <3> DEFINE a == [command EXCEPT !.phase = "undo"]
    <3>1. 1 \in 1..(2 * Len(StateNames) + 1)
      BY Names
    <3>2. /\ a \in CommandState /\ a.name = command.name /\ a.phase = "undo"
          /\ a.moved = command.moved /\ a.installed = command.installed
      BY <1>3, Zenon DEF CommandState, Parts
    <3>3. command' = [a EXCEPT !.next = 1]
      BY <2>3, Zenon
    <3> HIDE DEF a
    <3>4. /\ command' \in CommandState /\ command'.name = a.name /\ command'.phase = a.phase
          /\ command'.next = 1 /\ command'.moved = a.moved
          /\ command'.installed = a.installed
      BY <3>1, <3>2, <3>3, Zenon DEF CommandState
    <3> QED BY <3>2, <3>4
  <2>5. dir' \in [Place -> [File -> Content]]
    BY <2>3, TypeParts
  <2>6. CASE command.name = "restore"
    <3>1. Applying
      BY <1>8, <2>6, Doing
    <3>2. \A f \in File : ~Past(f, 2)' /\ ~PastDurable(f, 0)'
      BY <2>4, Turns DEF Past, PastDurable
    <3>3. \A f \in File : PastDurable(f, 4) => Past(f, 0) /\ f \in Durable
      <4>1. \A f \in File : Turn(f) \in 1..4 /\ DurableTurn(f) \in 1..2
        BY Turns DEF DurableTurn
      <4>2. command.next \in 1..7
        BY <3>1 DEF Applying
      <4> QED BY <4>1, <4>2 DEF Past, PastDurable
    <3>4. command.moved \subseteq File /\ command.installed \subseteq File
      BY <1>3, Zenon DEF Parts, CommandState
    <3>5. command'.installed \subseteq command'.moved \cap Durable
      <4>1. SUFFICES ASSUME NEW f \in command.installed PROVE f \in command.moved /\ f \in Durable
        BY <2>4
      <4>2. f \in File /\ PastDurable(f, 4)
        BY <3>1, <3>4 DEF Applying
      <4>3. old[f] = "old"
        BY <1>3, <3>3, <4>2 DEF OldFiles
      <4> QED BY <3>1, <3>3, <4>2, <4>3 DEF Applying
    <3>6. \A f \in command'.installed : dir'["stage"][f] = "none"
      BY <2>3, <2>4, <3>1, <3>3, <3>4 DEF Applying
    <3>7. ASSUME NEW f \in File \ command'.moved PROVE dir'["live"][f] = old'[f]
      <4>1. f \notin command.moved /\ old[f] \in {"old", "none"}
        BY <1>3, <2>4 DEF OldFiles
      <4>2. ~(Past(f, 0) /\ old[f] = "old")
        BY <3>1, <4>1 DEF Applying
      <4>3. f \in Durable => old[f] = "old"
        BY <1>3 DEF OldFiles
      <4>4. ~PastDurable(f, 4)
        BY <3>3, <4>2, <4>3
      <4>5. dir["live"][f] = old[f]
        BY <3>1, <4>1, <4>2, <4>4 DEF Applying
      <4> QED BY <1>1, <2>3, <4>5
    <3>8. ASSUME NEW f \in command'.moved
          PROVE  /\ old'[f] = "old" /\ dir'["prior"][f] = "old"
                 /\ dir'["live"][f] = IF f \in command'.installed THEN "new" ELSE "none"
      <4>1. f \in File /\ f \in command.moved
        BY <2>4, <3>4
      <4>2. Past(f, 0) /\ old[f] = "old"
        BY <3>1, <4>1 DEF Applying
      <4>3. dir["prior"][f] = "old" /\ (f \in command.installed <=> PastDurable(f, 4))
        BY <3>1, <4>1, <4>2 DEF Applying
      <4>4. dir["live"][f] = IF PastDurable(f, 4) THEN "new" ELSE "none"
        BY <3>1, <4>1, <4>2 DEF Applying
      <4> QED BY <1>1, <2>3, <2>4, <4>2, <4>3, <4>4
    <3>9. Undoing'
      BY <2>4, <3>2, <3>4, <3>5, <3>6, <3>7, <3>8 DEF Undoing, Durable, File
    <3>10. Files'
      BY <1>5, <2>2, <2>3, <2>4, <2>6, <3>9 DEF Files
    <3> QED BY <1>1, <1>2, <1>5, <1>7, <2>3, <2>4, <2>5, <2>6, <3>10, CommandStep
  <2>7. CASE command.name = "rollback"
    <3>1. ~Untroubled'
      BY <2>2 DEF Untroubled
    <3>2. Files'
      BY <1>5, <2>3, <2>4, <2>7, <3>1 DEF Files
    <3> QED BY <1>1, <1>2, <1>5, <1>7, <2>3, <2>4, <2>5, <2>7, <3>2, CommandStep
  <2> QED BY <1>4, <2>6, <2>7
<1>9. CASE command.phase = "undo"
  <2>1. dir' = [dir EXCEPT !["stage"] = Nothing]
    BY <1>9 DEF Fail
  <2>2. End(FALSE)
    BY <1>9 DEF Fail
  <2>3. command' = NoCommand /\ script' = Then(FALSE)
    BY <2>2 DEF End
  <2>4. /\ dir' \in [Place -> [File -> Content]]
        /\ dir'["live"] = dir["live"] /\ dir'["prior"] = dir["prior"]
    BY <1>3, <2>1, StageRemoved DEF Parts
  <2>5. script \in {"restoring", "rolling back"}
    BY <1>5
  <2>6. CASE command.name = "restore"
    <3>1. Undoing /\ failures > 0
      BY <1>9, <2>6, Doing
    <3>2. ~(~Through /\ Due(NextMove) /\ Blocked(NextMove))
      BY <1>3, <1>9, <2>6, <3>1, UndoingIsFree
    <3>3. failures' > 1
      BY <1>1, <3>1, <3>2, TypeParts
    <3>4. Survives'
      BY <1>1, <1>3, <2>4, <3>1, UndoingSurvives DEF Survives
    <3>5. script' = "starting previous"
      BY <1>5, <2>3, <2>6 DEF Then
    <3>6. ~(failures' <= 1)
      BY <1>7, <3>3, RestoreAssumption
    <3>7. Files'
      BY <3>4, <3>5, <3>6 DEF Files
    <3> QED BY <1>1, <1>2, <1>7, <2>2, <2>3, <2>4, <2>5, <3>7, EndStep
  <2>7. CASE command.name = "rollback"
    <3>1. ~Untroubled
      BY <1>9, <2>7, Doing
    <3>2. ~Untroubled'
      BY <1>1, <3>1, TypeParts DEF Untroubled
    <3>3. script' = "starting rolled back"
      BY <1>5, <2>3, <2>7 DEF Then
    <3>4. Files'
      BY <3>2, <3>3 DEF Files
    <3> QED BY <1>1, <1>2, <1>7, <2>2, <2>3, <2>4, <2>5, <3>4, EndStep
  <2> QED BY <1>4, <2>6, <2>7
<1> QED BY <1>4, <1>8, <1>9

\* Through with its loops, a restore has installed the archive and a rollback has
\* returned the old files; what they remove is not needed any more.
LEMMA StepFinish == ASSUME IInv, Finish PROVE IInv'
<1>1. /\ command.name # "none" /\ Through /\ command.phase = "apply"
      /\ dir' = [p \in Place |-> IF p \in Removed THEN Nothing ELSE dir[p]]
      /\ End(TRUE) /\ old' = old /\ failures' = failures /\ kills' = kills
  BY DEF Finish
<1>2. web' = web
  BY DEF Finish
<1>3. command.name \in {"restore", "rollback"}
  BY <1>1, WhoRuns
<1>4. command' = NoCommand /\ script' = Then(TRUE)
  BY <1>1 DEF End
<1>5. CASE command.name = "restore"
  <2>1. Applying /\ dir["aside"] = Nothing /\ script = "restoring"
    BY <1>1, <1>5, Doing, WhoRuns
  <2>2. command.next = 7
    <3>1. Plan = RestoreMoves
      BY <1>1, <1>5, WhichPlan
    <3>2. Len(RestoreMoves) = 6
      BY RestorePlan
    <3> QED BY <1>1, <3>1, <3>2 DEF Through
  <2>3. /\ dir["live"]["database"] = "new" /\ dir["live"]["images"] = "new"
        /\ \A f \in File : dir["live"][f] \in {"none", "new"}
        /\ dir["prior"] = old
    BY <2>1, <2>2, TypeParts, AppliedIsWhole
  <2>4. Removed = {"stage"}
    BY <1>5 DEF Removed
  <2>5. {"stage"} \in SUBSET Place
    BY DEF Place
  <2>6. /\ dir' \in [Place -> [File -> Content]]
        /\ dir'["live"] = dir["live"] /\ dir'["prior"] = dir["prior"]
        /\ dir'["aside"] = dir["aside"]
    BY <1>1, <2>4, <2>5, TypeParts, RemovedPlaces DEF Place
  <2>7. script' = "starting"
    BY <1>4, <2>1 DEF Then
  <2>8. RestoredIsWhole'
    BY <1>1, <2>3, <2>6 DEF RestoredIsWhole
  <2>9. Files'
    BY <2>1, <2>6, <2>7, <2>8 DEF Files
  <2> QED BY <1>1, <1>2, <1>4, <2>1, <2>6, <2>9, TypeParts, EndStep
<1>6. CASE command.name = "rollback"
  <2>1. RollingForward /\ script = "rolling back"
    BY <1>1, <1>6, Doing, WhoRuns
  <2>2. command.next = 9
    <3>1. Plan = RollbackMoves
      BY <1>1, <1>6, WhichPlan
    <3>2. Len(RollbackMoves) = 8
      BY RollbackPlans DEF TwoLoopPlan
    <3> QED BY <1>1, <3>1, <3>2 DEF Through
  <2>3. RolledBack
    BY <2>1, <2>2, TypeParts, RolledForwardIsOld
  <2>4. Removed = {"prior", "aside"}
    BY <1>6 DEF Removed
  <2>5. {"prior", "aside"} \in SUBSET Place
    BY DEF Place
  <2>6. dir' \in [Place -> [File -> Content]] /\ dir'["live"] = dir["live"]
    BY <1>1, <2>4, <2>5, TypeParts, RemovedPlaces DEF Place
  <2>7. script' = "starting rolled back"
    BY <1>4, <2>1 DEF Then
  <2>8. RolledBack'
    BY <1>1, <1>2, <2>3, <2>6, Zenon DEF RolledBack, Alone
  <2>9. Files'
    BY <2>7, <2>8 DEF Files
  <2> QED BY <1>1, <1>2, <1>4, <2>1, <2>6, <2>9, TypeParts, EndStep
<1> QED BY <1>3, <1>5, <1>6

\* Through with its loops, the handler of a restore has returned every old file.
LEMMA StepRaise == ASSUME IInv, Raise PROVE IInv'
<1>1. /\ command.name # "none" /\ Through /\ command.phase = "undo"
      /\ dir' = [dir EXCEPT !["stage"] = Nothing]
      /\ End(FALSE) /\ old' = old /\ failures' = failures /\ kills' = kills
  BY DEF Raise
<1>2. web' = web
  BY DEF Raise
<1>3. command.name \in {"restore", "rollback"}
  BY <1>1, WhoRuns
<1>4. command' = NoCommand /\ script' = Then(FALSE)
  BY <1>1 DEF End
<1>5. /\ dir' \in [Place -> [File -> Content]]
      /\ dir'["live"] = dir["live"] /\ dir'["prior"] = dir["prior"]
  BY <1>1, TypeParts, StageRemoved
<1>6. CASE command.name = "restore"
  <2>1. Undoing /\ script = "restoring"
    BY <1>1, <1>6, Doing, WhoRuns
  <2>2. command.next = 7
    <3>1. Plan = UndoRestore
      BY <1>1, <1>6, WhichPlan
    <3>2. Len(UndoRestore) = 6
      BY UndoRestorePlan
    <3> QED BY <1>1, <3>1, <3>2 DEF Through
  <2>3. dir["live"] = old
    BY <2>1, <2>2, TypeParts, UndoneIsOld
  <2>4. script' = "starting previous"
    BY <1>4, <2>1 DEF Then
  <2>5. Survives'
    BY <1>1, <1>5, <2>3 DEF Survives
  <2>6. Files'
    BY <1>1, <1>5, <2>3, <2>4, <2>5 DEF Files
  <2> QED BY <1>1, <1>2, <1>4, <1>5, <2>1, <2>6, TypeParts, EndStep
<1>7. CASE command.name = "rollback"
  <2>1. ~Untroubled /\ script = "rolling back"
    BY <1>1, <1>7, Doing, WhoRuns
  <2>2. ~Untroubled'
    BY <1>1, <2>1 DEF Untroubled
  <2>3. script' = "starting rolled back"
    BY <1>4, <2>1 DEF Then
  <2>4. Files'
    BY <2>2, <2>3 DEF Files
  <2> QED BY <1>1, <1>2, <1>4, <1>5, <2>1, <2>4, TypeParts, EndStep
<1> QED BY <1>3, <1>6, <1>7

\* Killed anywhere, a restore leaves each old file where it was or aside.
LEMMA StepKill == ASSUME IInv, Kill PROVE IInv'
<1>1. /\ command.name # "none" /\ End(FALSE)
      /\ dir' = dir /\ old' = old /\ failures' = failures
  BY DEF Kill
<1>2. web' = web
  BY DEF Kill
<1>3. kills' \in 0..MaxKills /\ kills' # 0
  <2>1. kills < MaxKills /\ kills' = kills + 1
    BY DEF Kill
  <2> QED BY <2>1, TypeParts, RestoreAssumption
<1>4. command.name \in {"restore", "rollback"} /\ command.phase \in {"apply", "undo"}
  BY <1>1, WhoRuns
<1>5. command' = NoCommand /\ script' = Then(FALSE)
  BY <1>1 DEF End
<1>6. OldFiles
  BY DEF IInv
<1>7. CASE command.name = "restore"
  <2>1. Applying \/ Undoing
    BY <1>4, <1>7, Doing
  <2>2. Survives
    BY <1>6, <2>1, ApplyingSurvives, UndoingSurvives
  <2>3. Survives'
    BY <1>1, <2>2 DEF Survives
  <2>4. script = "restoring"
    BY <1>7, WhoRuns
  <2>5. script' = "starting previous"
    BY <1>5, <2>4 DEF Then
  <2>6. Files'
    BY <1>3, <2>3, <2>5 DEF Files
  <2> QED BY <1>1, <1>2, <1>3, <1>5, <2>4, <2>6, TypeParts, EndStep
<1>8. CASE command.name = "rollback"
  <2>1. script = "rolling back"
    BY <1>8, WhoRuns
  <2>2. script' = "starting rolled back"
    BY <1>5, <2>1 DEF Then
  <2>3. ~Untroubled'
    BY <1>3 DEF Untroubled
  <2>4. Files'
    BY <2>2, <2>3 DEF Files
  <2> QED BY <1>1, <1>2, <1>3, <1>5, <2>1, <2>4, TypeParts, EndStep
<1> QED BY <1>4, <1>7, <1>8
-----------------------------------------------------------------------------
(* The theorems *)

\* More failures or kills, of whatever the files do not depend on, or a container
\* that stops when no command runs.
LEMMA OnlyCounts ==
  ASSUME IInv, dir' = dir, script' = script, command' = command, old' = old,
         web' = web \/ (web' = FALSE /\ script \in Settled),
         failures' \in 0..MaxFailures, kills' \in 0..MaxKills,
         failures' >= failures, kills' >= kills
  PROVE  IInv'
<1>1. TypeOK /\ OldFiles /\ Idle /\ Phases /\ Files
  BY DEF IInv
<1>2. WebFits'
  BY StillFits, StoppedFits, Zenon
<1>3. TypeOK'
  <2>1. script' \in Scripts /\ Owned'
    BY <1>1, TypesFit DEF Owned
  <2> QED BY <1>2, <2>1, TypeParts, TypesFitNext
<1>4. OldFiles' /\ Idle' /\ Phases'
  BY <1>1 DEF OldFiles, Idle, Phases
<1>5. /\ Untroubled' => Untroubled
      /\ failures > 0 => failures' > 0
      /\ (failures' <= 1 /\ kills' = 0) => (failures <= 1 /\ kills = 0)
  BY TypeParts, RestoreAssumption DEF Untroubled
<1>6. Files'
  <2>1. /\ NothingBeside' <=> NothingBeside
        /\ Survives' <=> Survives
        /\ RestoredIsWhole' <=> RestoredIsWhole
    BY DEF NothingBeside, Survives, RestoredIsWhole
  <2>2. \A f : /\ Past(f, 0)' <=> Past(f, 0)
               /\ Past(f, 2)' <=> Past(f, 2)
               /\ Past(f, 4)' <=> Past(f, 4)
               /\ PastDurable(f, 0)' <=> PastDurable(f, 0)
               /\ PastDurable(f, 4)' <=> PastDurable(f, 4)
    BY DEF Past, PastDurable
  <2>4. Applying' <=> Applying
    BY <2>2 DEF Applying
  <2>5. Undoing' <=> Undoing
    BY <2>2 DEF Undoing
  <2>6. ASSUME web' = web
        PROVE  (RollingForward' <=> RollingForward) /\ (RolledBack' <=> RolledBack)
    <3>1. Alone' <=> Alone
      BY <2>6, Zenon DEF Alone
    <3>2. \A f : Quiet(f)' <=> Quiet(f)
      BY <3>1 DEF Quiet
    <3>3. RollingForward' <=> RollingForward
      BY <2>2, <3>2 DEF RollingForward
    <3>4. RolledBack' <=> RolledBack
      BY <3>1 DEF RolledBack
    <3> QED BY <3>3, <3>4
  <2>7. CASE script \in {"verifying", "refused"}
    BY <1>1, <2>1, <2>7 DEF Files
  <2>8. CASE script = "restoring" /\ command.name = "none"
    BY <1>1, <2>1, <2>8, WhoRuns DEF Files
  <2>9. CASE script = "restoring" /\ command.name # "none"
    <3>1. command.phase \in {"apply", "undo"}
      BY <2>9, WhoRuns
    <3> QED BY <1>1, <1>5, <2>4, <2>5, <2>9, <3>1 DEF Files
  <2>10. CASE script \in {"starting previous", "not restored"}
    BY <1>1, <1>5, <2>1, <2>10 DEF Files
  <2>11. CASE script \in {"starting", "checking", "restored"}
    BY <1>1, <2>1, <2>11 DEF Files
  <2>12. CASE script = "rolling back" /\ command.name = "none"
    BY <1>1, <2>12, WhoRuns DEF Files
  <2>13. CASE script = "rolling back" /\ command.name # "none"
    <3>1. command.phase \in {"apply", "undo"}
      BY <2>13, WhoRuns
    <3>2. web' = web
      BY <2>13 DEF Settled
    <3>3. RollingForward' <=> RollingForward
      BY <2>6, <3>2
    <3> QED BY <1>1, <1>5, <2>13, <3>1, <3>3 DEF Files
  <2>14. CASE script = "starting rolled back"
    <3>1. web' = web
      BY <2>14 DEF Settled
    <3>2. RolledBack' <=> RolledBack
      BY <2>6, <3>1
    <3> QED BY <1>1, <1>5, <2>14, <3>2 DEF Files
  <2>15. CASE script = "rolled back"
    BY <2>15 DEF Files
  <2> QED BY <1>1, <2>7, <2>8, <2>9, <2>10, <2>11, <2>12, <2>13, <2>14, <2>15, TypesFit
             DEF Scripts, RollingBack
<1> QED BY <1>3, <1>4, <1>6, Zenon DEF IInv

LEMMA InitIsInv == ASSUME Init PROVE IInv
<1>1. /\ dir = [p \in Place |-> IF p = "live" THEN [f \in File |-> "old"] ELSE Nothing]
      /\ script = "verifying" /\ command = NoCommand /\ old = [f \in File |-> "old"]
      /\ failures = 0 /\ kills = 0
  BY DEF Init
<1>2. [f \in File |-> "old"] \in [File -> Content] /\ Nothing \in [File -> Content]
  BY ExtractedFiles DEF Content
<1>3. /\ dir \in [Place -> [File -> Content]] /\ dir["live"] = old
      /\ dir["prior"] = Nothing /\ dir["aside"] = Nothing
  BY <1>1, <1>2 DEF Place
<1>4. WebFits
  <2>1. web = TRUE /\ script \notin Exclusive
    BY DEF Init, Exclusive
  <2> QED BY <2>1, Zenon DEF WebFits
<1>5. script \in Scripts
  BY <1>1 DEF Scripts
<1>6. Owned /\ Idle /\ Phases
  BY <1>1, NoCommandType DEF Owned, Idle, Phases
<1>7. failures \in 0..MaxFailures /\ kills \in 0..MaxKills
  BY <1>1, RestoreAssumption
<1>8. TypeOK
  BY <1>1, <1>2, <1>3, <1>4, <1>5, <1>6, <1>7, NoCommandType, TypesFit
<1>9. OldFiles
  BY <1>1 DEF OldFiles, Durable, File
<1>10. Files
  BY <1>1, <1>3 DEF Files, NothingBeside
<1> QED BY <1>6, <1>8, <1>9, <1>10, Zenon DEF IInv

LEMMA StepInv == ASSUME IInv, Next PROVE IInv'
<1>1. ASSUME \/ StartWeb("starting", "checking")
             \/ StartWeb("starting previous", "not restored")
             \/ StartWeb("starting rolled back", "rolled back")
      PROVE  IInv'
  BY <1>1, StepStartWeb
<1>2. ASSUME Exited PROVE IInv'
  <2>1. /\ dir' = dir /\ script' = script /\ command' = command /\ old' = old
        /\ failures' = failures /\ kills' = kills
    BY <1>2 DEF Exited, vars
  <2>2. web' = web
    BY <1>2 DEF Exited, vars
  <2> QED BY <2>1, <2>2, TypeParts, OnlyCounts
<1>3. CASE RefuseArchive \/ StopForRestore \/ Healthy \/ StopForRollback \/ WebConnects
  BY <1>3, StepRefuseArchive, StepStopForRestore, StepHealthy, StepStopForRollback,
     StepWebConnects
<1>4. CASE BeginRestore \/ BeginRollback \/ FailEarly
  BY <1>4, StepBeginRestore, StepBeginRollback, StepFailEarly
<1>5. CASE Rename \/ Fail \/ Finish \/ Raise \/ Kill
  BY <1>5, StepRename, StepFail, StepFinish, StepRaise, StepKill
<1> QED BY <1>1, <1>2, <1>3, <1>4, <1>5, Zenon DEF Next

LEMMA Stutters == ASSUME IInv, UNCHANGED vars PROVE IInv'
<1>1. /\ dir' = dir /\ script' = script /\ command' = command /\ old' = old
      /\ failures' = failures /\ kills' = kills
  BY DEF vars
<1>2. web' = web
  BY DEF vars
<1> QED BY <1>1, <1>2, TypeParts, OnlyCounts

\* What the invariant says of each step of the script.
LEMMA InvImplies ==
  ASSUME IInv
  PROVE  /\ TypeOK
         /\ FailedRestoreKeepsOldData /\ OldDataSurvivesRestore
         /\ RestoredIsWhole /\ RollbackReturnsOldData
<1>1. TypeOK /\ OldFiles /\ Files
  BY DEF IInv
<1>2. FailedRestoreKeepsOldData
  BY <1>1 DEF Files, FailedRestoreKeepsOldData
<1>3. RestoredIsWhole
  <2>1. CASE script \in {"starting", "checking", "restored"}
    BY <1>1, <2>1 DEF Files
  <2>2. CASE script \notin {"starting", "checking", "restored"}
    BY <2>2 DEF RestoredIsWhole
  <2> QED BY <2>1, <2>2
<1>4. RollbackReturnsOldData
  <2>1. script = "starting rolled back" /\ Untroubled => RolledBack
    BY <1>1 DEF Files
  <2> QED BY <2>1, Zenon DEF RollbackReturnsOldData, Untroubled, RolledBack, Alone
<1>5. OldDataSurvivesRestore
  <2>1. SUFFICES ASSUME script \notin RollingBack PROVE Survives
    BY DEF OldDataSurvivesRestore, Survives
  <2>2. script \in Scripts
    BY <1>1, TypesFit
  <2>3. CASE script \in {"verifying", "refused"}
    BY <1>1, <2>3 DEF Files, Survives
  <2>4. CASE script = "restoring"
    <3>1. CASE command.name = "none"
      <4>1. dir["live"] = old
        BY <1>1, <2>4, <3>1, WhoRuns DEF Files
      <4> QED BY <4>1 DEF Survives
    <3>2. CASE command.name # "none"
      <4>1. command.name = "restore" /\ command.phase \in {"apply", "undo"}
        BY <2>4, <3>2, WhoRuns
      <4>2. Applying \/ Undoing
        BY <4>1, Doing
      <4> QED BY <1>1, <4>2, ApplyingSurvives, UndoingSurvives
    <3> QED BY <3>1, <3>2
  <2>5. CASE script \in {"starting previous", "not restored"}
    BY <1>1, <2>5 DEF Files
  <2>6. CASE script \in {"starting", "checking", "restored"}
    BY <1>3, <2>6 DEF RestoredIsWhole, Survives
  <2> QED BY <2>1, <2>2, <2>3, <2>4, <2>5, <2>6 DEF Scripts, RollingBack
<1> QED BY <1>1, <1>2, <1>3, <1>4, <1>5

LEMMA Invariant == Spec => []IInv
<1>1. Init => IInv
  BY InitIsInv
<1>2. IInv /\ [Next]_vars => IInv'
  BY StepInv, Stutters
<1> QED BY <1>1, <1>2, PTL DEF Spec

\* Each command runs only at its own step of restore-vps.sh, and no container runs
\* from the stop before a restore to the start after it (restore-vps.sh:40-58).
THEOREM TypeCorrect == Spec => []TypeOK
<1>1. IInv => TypeOK
  BY InvImplies
<1> QED BY <1>1, Invariant, PTL

\* However far a restore that fails once has come, its handler returns the files it
\* has moved before the web container starts again (backups.py:694-703).
THEOREM HandlerReturnsOldData == Spec => []FailedRestoreKeepsOldData
<1>1. IInv => FailedRestoreKeepsOldData
  BY InvImplies
<1> QED BY <1>1, Invariant, PTL

\* However many renames fail and however often the commands are killed, no old file
\* is lost before a rollback.
THEOREM RestoreLosesNothing == Spec => []OldDataSurvivesRestore
<1>1. IInv => OldDataSurvivesRestore
  BY InvImplies
<1> QED BY <1>1, Invariant, PTL

\* A restore reported as done has replaced every file, the WAL included, and keeps
\* the old state beside it.
THEOREM RestoreIsComplete == Spec => []RestoredIsWhole
<1>1. IInv => RestoredIsWhole
  BY InvImplies
<1> QED BY <1>1, Invariant, PTL

\* A rollback with no failure returns every old file, also beside an application
\* that could not be stopped (restore-vps.sh:60 and 68), and exactly the old state
\* if it could.
THEOREM RollbackIsComplete == Spec => []RollbackReturnsOldData
<1>1. IInv => RollbackReturnsOldData
  BY InvImplies
<1> QED BY <1>1, Invariant, PTL
-----------------------------------------------------------------------------
(* What kills and a failed stop do to a rollback *)

\* A rollback has returned what it could.
Returned == {"starting rolled back", "rolled back"}

\* The handler of a rollback runs only after a failure, and without one a rollback
\* that is killed has still lost nothing.
Kept ==
  /\ command.name = "rollback" /\ command.phase = "undo" => failures > 0
  /\ script \in Returned /\ failures = 0 => Survives

\* Cut short before its handler runs, a rollback has lost nothing.
LEMMA RollingForwardSurvives == ASSUME RollingForward PROVE Survives
<1> SUFFICES ASSUME NEW f \in File, old[f] = "old"
             PROVE  "old" \in {dir["live"][f], dir["prior"][f]}
  BY DEF Survives
<1>1. CASE Past(f, 4)
  <2>1. Past(f, 0)
    <3>1. command.next \in 1..9 /\ Turn(f) \in 1..4
      BY Turns DEF RollingForward
    <3> QED BY <1>1, <3>1 DEF Past
  <2> QED BY <1>1, <2>1 DEF RollingForward
<1>2. CASE ~Past(f, 4)
  BY <1>2 DEF RollingForward
<1> QED BY <1>1, <1>2

LEMMA FailedIsKept == ASSUME failures' > 0 PROVE Kept'
BY DEF Kept

LEMMA NotReturnedIsKept ==
  ASSUME ~(command'.name = "rollback" /\ command'.phase = "undo"), script' \notin Returned
  PROVE  Kept'
BY Zenon DEF Kept

\* Steps of the script that run no command and end none.
LEMMA ScriptKeeps ==
  ASSUME IInv, command' = command,
         script' \in {"refused", "restoring", "checking", "not restored", "restored", "rolling back"},
         script \notin {"restoring", "rolling back"}
  PROVE  Kept'
<1>1. command' = NoCommand
  BY WhoRuns
<1>2. ~(command'.name = "rollback")
  BY <1>1, NoCommandType
<1>3. script' \notin Returned
  BY DEF Returned
<1> QED BY <1>2, <1>3, NotReturnedIsKept

LEMMA BeginKeeps == ASSUME IInv, BeginRestore \/ BeginRollback PROVE Kept'
<1>1. /\ command'.phase = "apply" /\ script' = script
      /\ script \in {"restoring", "rolling back"}
  <2>1. PICK name \in {"restore", "rollback"} : Run(name)
    BY DEF BeginRestore, BeginRollback
  <2>2. command'.phase = "apply"
    BY <2>1, Zenon DEF Run, NoCommand
  <2> QED BY <2>2 DEF BeginRestore, BeginRollback
<1>2. script' \notin Returned
  BY <1>1 DEF Returned
<1> QED BY <1>1, <1>2, NotReturnedIsKept

LEMMA RenameKeeps == ASSUME IInv, Kept, Rename PROVE Kept'
<1>1. /\ command.name # "none" /\ script' = script /\ failures' = failures
  BY DEF Rename
<1>2. command'.name = command.name /\ command'.phase = command.phase
  <2>1. PICK next, moved, installed :
          command' = [command EXCEPT !.next = next, !.moved = moved, !.installed = installed]
    <3>1. CASE Due(NextMove)
      BY <3>1, Zenon DEF Rename
    <3>2. CASE ~Due(NextMove)
      <4>1. command' = [command EXCEPT !.next = @ + 1]
        BY <3>2, Zenon DEF Rename
      <4>2. command' = [command EXCEPT !.next = command.next + 1,
                                       !.moved = command.moved,
                                       !.installed = command.installed]
        BY <4>1, TypeParts DEF CommandState
      <4> QED BY <4>2
    <3> QED BY <3>1, <3>2
  <2> QED BY <2>1, TypeParts, Zenon DEF CommandState
<1>3. script' \notin Returned
  BY <1>1, WhoRuns DEF Returned
<1> QED BY <1>1, <1>2, <1>3, Zenon DEF Kept

LEMMA FailKeeps == ASSUME IInv, Kept, Fail PROVE Kept'
<1>1. /\ command.name # "none"
      /\ \/ failures' = failures + 1
         \/ ~Through /\ Due(NextMove) /\ Blocked(NextMove) /\ failures' = failures
  BY DEF Fail
<1>2. command.name \in {"restore", "rollback"} /\ command.phase \in {"apply", "undo"}
  BY <1>1, WhoRuns
<1>3. failures \in Nat
  BY TypeParts
<1>4. CASE command.phase = "apply"
  <2>1. Parts /\ OldFiles
    BY Types DEF IInv
  <2>2. ~Through => ~Blocked(NextMove)
    BY <1>2, <1>4, <2>1, Doing, ApplyingIsFree, RollingForwardIsFree
  <2>3. failures' > 0
    BY <1>1, <1>3, <2>2
  <2> QED BY <2>3, FailedIsKept
<1>5. CASE command.phase = "undo"
  <2>1. failures > 0
    BY <1>2, <1>5, Doing DEF Kept
  <2>2. failures' > 0
    BY <1>1, <1>3, <2>1
  <2> QED BY <2>2, FailedIsKept
<1> QED BY <1>2, <1>4, <1>5

\* A rollback that ends has returned every file, or has only moved them.
LEMMA FinishKeeps == ASSUME IInv, Finish PROVE Kept'
<1>1. /\ command.name \in {"restore", "rollback"} /\ command.phase = "apply" /\ Through
      /\ dir' = [p \in Place |-> IF p \in Removed THEN Nothing ELSE dir[p]]
      /\ command' = NoCommand /\ script' = Then(TRUE) /\ old' = old
  BY WhoRuns DEF Finish, End
<1>2. ~(command'.name = "rollback")
  BY <1>1, NoCommandType
<1>3. CASE command.name = "restore"
  <2>1. script' = "starting"
    BY <1>1, <1>3, WhoRuns DEF Then
  <2> QED BY <1>2, <2>1, NotReturnedIsKept DEF Returned
<1>4. CASE command.name = "rollback"
  <2>1. RollingForward
    BY <1>1, <1>4, Doing
  <2>2. command.next = 9
    <3>1. Plan = RollbackMoves
      BY <1>1, <1>4, WhichPlan
    <3>2. Len(RollbackMoves) = 8
      BY RollbackPlans DEF TwoLoopPlan
    <3> QED BY <1>1, <3>1, <3>2 DEF Through
  <2>3. \A f \in File : old[f] = "old" => dir["live"][f] = "old"
    BY <2>1, <2>2, TypeParts, RolledForwardIsOld DEF RolledBack
  <2>4. dir'["live"] = dir["live"]
    BY <1>1, <1>4 DEF Removed, Place
  <2>5. Survives'
    BY <1>1, <2>3, <2>4 DEF Survives
  <2> QED BY <1>2, <2>5, Zenon DEF Kept
<1> QED BY <1>1, <1>3, <1>4

LEMMA RaiseKeeps == ASSUME IInv, Kept, Raise PROVE Kept'
<1>1. command.name # "none" /\ command.phase = "undo" /\ failures' = failures
  BY DEF Raise
<1>2. failures' > 0
  BY <1>1, WhoRuns, Doing DEF Kept
<1> QED BY <1>2, FailedIsKept

LEMMA KillKeeps == ASSUME IInv, Kept, Kill PROVE Kept'
<1>1. /\ command.name \in {"restore", "rollback"} /\ command.phase \in {"apply", "undo"}
      /\ command' = NoCommand /\ script' = Then(FALSE)
      /\ dir' = dir /\ old' = old /\ failures' = failures
  BY WhoRuns DEF Kill, End
<1>2. ~(command'.name = "rollback")
  BY <1>1, NoCommandType
<1>3. CASE command.name = "restore"
  <2>1. script' = "starting previous"
    BY <1>1, <1>3, WhoRuns DEF Then
  <2> QED BY <1>2, <2>1, NotReturnedIsKept DEF Returned
<1>4. CASE command.name = "rollback" /\ command.phase = "apply"
  <2>1. Survives
    BY <1>4, Doing, RollingForwardSurvives
  <2>2. Survives'
    BY <1>1, <2>1 DEF Survives
  <2> QED BY <1>2, <2>2, Zenon DEF Kept
<1>5. CASE command.name = "rollback" /\ command.phase = "undo"
  <2>1. failures' > 0
    BY <1>1, <1>5 DEF Kept
  <2> QED BY <2>1, FailedIsKept
<1> QED BY <1>1, <1>3, <1>4, <1>5

\* What the application finds it leaves; it creates only what is missing.
LEMMA FilledKeeps ==
  ASSUME IInv, Kept, command' = command, old' = old, failures' = failures,
         script \in Returned,
         dir'["prior"] = dir["prior"],
         \A f \in File : dir["live"][f] = "old" => dir'["live"][f] = "old"
  PROVE  Kept'
<1>1. ~(command'.name = "rollback")
  <2>1. script \notin {"restoring", "rolling back"}
    BY DEF Returned
  <2> QED BY <2>1, WhoRuns, NoCommandType
<1>2. ASSUME failures = 0 PROVE Survives'
  <2>1. Survives
    BY <1>2 DEF Kept
  <2> QED BY <2>1 DEF Survives
<1> QED BY <1>1, <1>2, Zenon DEF Kept

LEMMA RolledBackKeeps ==
  ASSUME IInv, Kept, StartWeb("starting rolled back", "rolled back")
  PROVE  Kept'
<1>1. /\ script \in Returned /\ command' = command /\ old' = old /\ failures' = failures
  BY Zenon DEF StartWeb, Returned
<1>2. CASE dir' = dir
  BY <1>1, <1>2, FilledKeeps
<1>3. CASE dir' = [dir EXCEPT !["live"] = Started(dir["live"])]
  <2>1. dir'["live"] = Started(dir["live"]) /\ dir'["prior"] = dir["prior"]
    BY <1>3, TypeParts DEF Place
  <2>2. dir["live"] \in [File -> Content]
    BY TypeParts DEF Place
  <2>3. \A f \in File : dir["live"][f] = "old" => dir'["live"][f] = "old"
    BY <2>1, <2>2, StartedFiles
  <2> QED BY <1>1, <2>1, <2>3, FilledKeeps
<1> QED BY <1>2, <1>3, Zenon DEF StartWeb

LEMMA ConnectKeeps == ASSUME IInv, Kept, WebConnects PROVE Kept'
<1>1. /\ script' = script /\ command' = command /\ old' = old /\ failures' = failures
      /\ script \in RollingBack
  BY Zenon DEF WebConnects
<1>2. /\ dir'["prior"] = dir["prior"]
      /\ \A f \in File : dir["live"][f] # "none" => dir'["live"][f] = dir["live"][f]
  BY TypeParts, WebConnectsFiles
<1>3. CASE script \in Returned
  BY <1>1, <1>2, <1>3, FilledKeeps
<1>4. CASE script \notin Returned
  BY <1>1, <1>4, Zenon DEF Kept
<1> QED BY <1>3, <1>4

LEMMA KeptSteps == ASSUME IInv, Kept, Next PROVE Kept'
<1>1. CASE RefuseArchive \/ StopForRestore
  <2>1. /\ command' = command /\ script = "verifying"
        /\ script' \in {"refused", "restoring"}
    BY <1>1 DEF RefuseArchive, StopForRestore
  <2> QED BY <2>1, ScriptKeeps
<1>2. CASE Healthy \/ StopForRollback
  <2>1. /\ command' = command /\ script = "checking"
        /\ script' \in {"restored", "rolling back"}
    BY <1>2, Zenon DEF Healthy, StopForRollback
  <2> QED BY <2>1, ScriptKeeps
<1>3. CASE StartWeb("starting", "checking") \/ StartWeb("starting previous", "not restored")
  <2>1. /\ command' = command /\ script \in {"starting", "starting previous"}
        /\ script' \in {"checking", "not restored"}
    BY <1>3, Zenon DEF StartWeb
  <2> QED BY <2>1, ScriptKeeps
<1>4. CASE StartWeb("starting rolled back", "rolled back")
  BY <1>4, RolledBackKeeps
<1>5. CASE FailEarly
  <2>1. failures' = failures + 1 /\ failures \in Nat
    BY <1>5, TypeParts DEF FailEarly
  <2>2. failures' > 0
    BY <2>1
  <2> QED BY <2>2, FailedIsKept
<1>6. CASE Exited
  BY <1>6, Zenon DEF Exited, vars, Kept, Survives
<1>7. CASE BeginRestore \/ BeginRollback
  BY <1>7, BeginKeeps
<1>8. CASE Rename \/ Fail \/ Finish \/ Raise \/ Kill
  BY <1>8, RenameKeeps, FailKeeps, FinishKeeps, RaiseKeeps, KillKeeps
<1>9. CASE WebConnects
  BY <1>9, ConnectKeeps
<1> QED BY <1>1, <1>2, <1>3, <1>4, <1>5, <1>6, <1>7, <1>8, <1>9, Zenon DEF Next

\* The prior data is lost only where a rename of a rollback fails
\* (backups.py:279-303): without a failed rename, however often the commands are
\* killed, and though the application could not be stopped and makes files of its
\* own, each old file is in the data directory or the prior one.
THEOREM KillsKeepPriorData == Spec => [](failures = 0 => PriorDataIsKept)
<1>1. Init => Kept
  <2>1. SUFFICES ASSUME Init PROVE Kept
    OBVIOUS
  <2>2. command = NoCommand /\ script = "verifying"
    BY <2>1, Zenon DEF Init
  <2>3. ~(command.name = "rollback")
    BY <2>2, NoCommandType
  <2>4. script \notin Returned
    BY <2>2 DEF Returned
  <2> QED BY <2>3, <2>4, Zenon DEF Kept
<1>2. IInv /\ Kept /\ [Next]_vars => Kept'
  <2>1. ASSUME Kept, UNCHANGED vars PROVE Kept'
    BY <2>1, Zenon DEF vars, Kept, Survives
  <2> QED BY <2>1, KeptSteps
<1>3. IInv /\ Kept => (failures = 0 => PriorDataIsKept)
  <2>1. SUFFICES ASSUME IInv, Kept, failures = 0 PROVE Survives
    BY DEF Survives, PriorDataIsKept, Place
  <2>2. CASE script \notin RollingBack
    BY <2>1, <2>2, InvImplies DEF OldDataSurvivesRestore, Survives
  <2>3. CASE script \in Returned
    BY <2>1, <2>3 DEF Kept
  <2>4. CASE script = "rolling back" /\ command.name = "none"
    <3>1. Files
      BY <2>1 DEF IInv
    <3>2. command = NoCommand
      BY <2>1, <2>4, WhoRuns
    <3>3. dir["prior"] = old
      BY <2>4, <3>1, <3>2, NoCommandType DEF Files
    <3> QED BY <3>3 DEF Survives
  <2>5. CASE script = "rolling back" /\ command.name # "none"
    <3>1. command.name = "rollback" /\ command.phase \in {"apply", "undo"}
      BY <2>1, <2>5, WhoRuns
    <3>2. command.phase # "undo"
      BY <2>1, <3>1 DEF Kept
    <3> QED BY <2>1, <3>1, <3>2, Doing, RollingForwardSurvives
  <2> QED BY <2>2, <2>3, <2>4, <2>5 DEF RollingBack, Returned
<1> QED BY <1>1, <1>2, <1>3, Invariant, PTL DEF Spec
=============================================================================
