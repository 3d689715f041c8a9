---------------------------- MODULE BackupsProofs ----------------------------
(* Theorems about CatalogImages and Backups for every value of their constants. *)
EXTENDS Backups, TLAPS

-----------------------------------------------------------------------------
(* The inductive invariant of the requests *)

(* At most one request is past the lock. *)
LockOwned == \A r \in Request : request[r].step \in {"saved", "decided"} => lock = r

(* Updates and deletes have an item. *)
HasItem ==
  \A r \in Request :
    request[r] # Idle /\ request[r].op # "create" => request[r].item \in Item

NamesAreUsed == files \subseteq used

(* A stored upload is there and no row names it yet. *)
UploadIsUnnamed ==
  \A r \in Request :
    request[r].step = "saved" /\ request[r].fresh # NoImage =>
      request[r].fresh \in files \ Referenced

(* Before the lock nothing has been stored. *)
NothingStored == \A r \in Request : request[r].step = "waiting" => request[r].fresh = NoImage

(* The image that an update loaded may have left its item, but is in no other. *)
Holds(r) ==
  /\ request[r].step \in {"waiting", "saved"} /\ request[r].op = "update"
  /\ request[r].loaded # NoImage

LoadedIsOwn ==
  \A r \in Request : Holds(r) =>
    /\ request[r].loaded \in used
    /\ \A j \in Item : row[j] = request[r].loaded => j = request[r].item
    /\ \A q \in Request : request[q].step = "saved" => request[q].fresh # request[r].loaded

(* A delete holds the present image of its item. *)
DeleteHasLooked ==
  \A r \in Request :
    request[r].step = "saved" /\ request[r].op = "delete" =>
      request[r].loaded = row[request[r].item]

(* What is to be removed is in no row. *)
ObsoleteIsUnnamed ==
  \A r \in Request : request[r].step = "decided" => request[r].obsolete \notin Referenced

CatalogInv ==
  /\ CatalogTypeOK /\ LockOwned /\ HasItem /\ NamesAreUsed /\ UploadIsUnnamed
  /\ NothingStored /\ LoadedIsOwn /\ DeleteHasLooked /\ ObsoleteIsUnnamed
  /\ RowsHaveFiles /\ NoSharedImage

-----------------------------------------------------------------------------
(* What the handlers do to their request *)

(* The step tells whether there is a request. *)
LEMMA RequestShape ==
  ASSUME CatalogTypeOK, NEW r \in Request
  PROVE  /\ request[r].step = "idle" <=> request[r] = Idle
         /\ request[r] # Idle => request[r] \in RequestState
  <1>1. request[r] \in RequestState \cup {Idle}
    BY DEF CatalogTypeOK
  <1>2. CASE request[r] = Idle
    BY <1>2 DEF Idle
  <1>3. CASE request[r] \in RequestState
    <2>1. request[r].step \in Step
      BY <1>3, SMT DEF RequestState
    <2>2. request[r].step # "idle"
      BY <2>1 DEF Step
    <2> QED BY <2>2, <1>3 DEF Idle
  <1> QED BY <1>1, <1>2, <1>3

LEMMA Renewed ==
  ASSUME NEW r \in Request, NEW v, request \in [Request -> RequestState \cup {Idle}],
         v \in RequestState \cup {Idle}, request' = [request EXCEPT ![r] = v]
  PROVE  /\ request' \in [Request -> RequestState \cup {Idle}]
         /\ request'[r] = v
         /\ \A q \in Request : q # r => request'[q] = request[q]
  BY SMT

LEMMA StartedRequest ==
  ASSUME NEW op \in Op, NEW i \in Item \cup {0}, NEW name \in Name
  PROVE  /\ Waiting(op, i, name) \in RequestState
         /\ Waiting(op, i, name).step = "waiting"
         /\ Waiting(op, i, name).op = op
         /\ Waiting(op, i, name).item = i
         /\ Waiting(op, i, name).loaded = name
         /\ Waiting(op, i, name).fresh = NoImage
  BY SMT DEF Waiting, RequestState, Step, Name

(* Single fields of a request. *)
LEMMA SetStep ==
  ASSUME NEW c \in RequestState, NEW v \in Step, NEW d, d = [c EXCEPT !.step = v]
  PROVE  /\ d \in RequestState /\ d.step = v
         /\ d.op = c.op /\ d.item = c.item /\ d.loaded = c.loaded
         /\ d.fresh = c.fresh /\ d.remove = c.remove /\ d.obsolete = c.obsolete
  BY Zenon DEF RequestState

LEMMA SetFresh ==
  ASSUME NEW c \in RequestState, NEW v \in Name, NEW d, d = [c EXCEPT !.fresh = v]
  PROVE  /\ d \in RequestState /\ d.fresh = v
         /\ d.step = c.step /\ d.op = c.op /\ d.item = c.item
         /\ d.loaded = c.loaded /\ d.remove = c.remove /\ d.obsolete = c.obsolete
  BY Zenon DEF RequestState

LEMMA SetRemove ==
  ASSUME NEW c \in RequestState, NEW v \in BOOLEAN, NEW d, d = [c EXCEPT !.remove = v]
  PROVE  /\ d \in RequestState /\ d.remove = v
         /\ d.step = c.step /\ d.op = c.op /\ d.item = c.item
         /\ d.loaded = c.loaded /\ d.fresh = c.fresh /\ d.obsolete = c.obsolete
  BY Zenon DEF RequestState

LEMMA SetLoaded ==
  ASSUME NEW c \in RequestState, NEW v \in Name, NEW d, d = [c EXCEPT !.loaded = v]
  PROVE  /\ d \in RequestState /\ d.loaded = v
         /\ d.step = c.step /\ d.op = c.op /\ d.item = c.item
         /\ d.fresh = c.fresh /\ d.remove = c.remove /\ d.obsolete = c.obsolete
  BY Zenon DEF RequestState

LEMMA SetObsolete ==
  ASSUME NEW c \in RequestState, NEW v \in Name, NEW d, d = [c EXCEPT !.obsolete = v]
  PROVE  /\ d \in RequestState /\ d.obsolete = v
         /\ d.step = c.step /\ d.op = c.op /\ d.item = c.item
         /\ d.loaded = c.loaded /\ d.fresh = c.fresh /\ d.remove = c.remove
  BY Zenon DEF RequestState

-----------------------------------------------------------------------------
(* Each handler keeps the invariant *)

LEMMA StartStep ==
  ASSUME CatalogInv, NEW r \in Request, NEW op \in Op, NEW i \in Item \cup {0}, NEW name \in Name,
         op # "create" => i \in Item,
         op = "update" => name = row[i],
         request' = [request EXCEPT ![r] = Waiting(op, i, name)],
         UNCHANGED <<row, files, lock, used>>
  PROVE  CatalogInv'
  <1> DEFINE new == Waiting(op, i, name)
  <1>1. /\ new \in RequestState /\ new.step = "waiting"
        /\ new.op = op /\ new.item = i /\ new.loaded = name /\ new.fresh = NoImage
    BY StartedRequest
  <1> HIDE DEF new
  <1>2. /\ request' \in [Request -> RequestState \cup {Idle}]
        /\ request'[r] = new
        /\ \A q \in Request : q # r => request'[q] = request[q]
    <2>1. request \in [Request -> RequestState \cup {Idle}]
      BY DEF CatalogInv, CatalogTypeOK
    <2> QED BY <2>1, <1>1, Renewed DEF new
  <1>3. CatalogTypeOK'
    BY <1>2 DEF CatalogInv, CatalogTypeOK
  <1>4. Referenced' = Referenced
    BY DEF Referenced, Existing
  <1>5. LockOwned' /\ UploadIsUnnamed' /\ DeleteHasLooked' /\ ObsoleteIsUnnamed'
    BY <1>1, <1>2, <1>4 DEF CatalogInv, LockOwned, UploadIsUnnamed, DeleteHasLooked, ObsoleteIsUnnamed
  <1>6. HasItem' /\ NothingStored'
    BY <1>1, <1>2 DEF CatalogInv, HasItem, NothingStored
  <1>7. NamesAreUsed' /\ RowsHaveFiles'
    BY <1>4 DEF CatalogInv, NamesAreUsed, RowsHaveFiles
  <1>8. NoSharedImage'
    BY DEF CatalogInv, NoSharedImage, Existing
  <1>9. LoadedIsOwn'
    <2> SUFFICES ASSUME NEW s \in Request, Holds(s)'
                 PROVE  /\ request'[s].loaded \in used
                        /\ \A j \in Item : row[j] = request'[s].loaded => j = request'[s].item
                        /\ \A q \in Request :
                             request'[q].step = "saved" => request'[q].fresh # request'[s].loaded
      BY DEF LoadedIsOwn
    <2>1. \A q \in Request : request'[q].step = "saved" => q # r /\ request'[q] = request[q]
      BY <1>1, <1>2
    <2>2. CASE s # r
      BY <2>1, <2>2, <1>2 DEF Holds, CatalogInv, LoadedIsOwn
    <2>3. CASE s = r
      <3>1. op = "update" /\ name # NoImage /\ name = row[i] /\ i \in Item
        BY <2>3, <1>1, <1>2 DEF Holds
      <3>2. name # Gone
        BY CatalogAssumption DEF Name
      <3>3. name \in Referenced
        BY <3>1, <3>2 DEF Referenced, Existing
      <3>4. \A j \in Item : row[j] = name => j = i
        BY <3>1, <3>2 DEF CatalogInv, NoSharedImage, Existing
      <3>5. name \in used
        BY <3>3 DEF CatalogInv, NamesAreUsed, RowsHaveFiles
      <3>6. \A q \in Request : request[q].step = "saved" => request[q].fresh # name
        BY <3>1, <3>3 DEF CatalogInv, UploadIsUnnamed
      <3> QED BY <2>1, <2>3, <3>4, <3>5, <3>6, <1>1, <1>2
    <2> QED BY <2>2, <2>3
  <1> QED BY <1>3, <1>5, <1>6, <1>7, <1>8, <1>9 DEF CatalogInv

(* A request ends; what it removes is in no row and is nobody's upload. *)
LEMMA LeaveStep ==
  ASSUME CatalogInv, NEW r \in Request,
         request' = [request EXCEPT ![r] = Idle],
         row' = row, used' = used, files' \subseteq files,
         files \ files' \subseteq files \ Referenced,
         \A q \in Request : q # r /\ request[q].step = "saved" => files' = files,
         lock' \in Request \cup Process \cup {Nobody},
         \A q \in Request : q # r /\ request[q].step \in {"saved", "decided"} => lock' = q
  PROVE  CatalogInv'
  <1>1. Idle.step = "idle"
    BY DEF Idle
  <1>2. /\ request' \in [Request -> RequestState \cup {Idle}]
        /\ request'[r] = Idle
        /\ \A q \in Request : q # r => request'[q] = request[q]
    <2>1. request \in [Request -> RequestState \cup {Idle}]
      BY DEF CatalogInv, CatalogTypeOK
    <2> QED BY <2>1, Renewed
  <1>3. CatalogTypeOK'
    BY <1>2 DEF CatalogInv, CatalogTypeOK
  <1>4. Referenced' = Referenced
    BY DEF Referenced, Existing
  <1>5. LockOwned' /\ HasItem' /\ NothingStored' /\ DeleteHasLooked' /\ ObsoleteIsUnnamed'
    BY <1>1, <1>2, <1>4
       DEF CatalogInv, LockOwned, HasItem, NothingStored, DeleteHasLooked, ObsoleteIsUnnamed
  <1>6. UploadIsUnnamed'
    BY <1>1, <1>2, <1>4 DEF CatalogInv, UploadIsUnnamed
  <1>7. NamesAreUsed' /\ RowsHaveFiles'
    BY <1>4 DEF CatalogInv, NamesAreUsed, RowsHaveFiles
  <1>8. NoSharedImage'
    BY DEF CatalogInv, NoSharedImage, Existing
  <1>9. LoadedIsOwn'
    <2> SUFFICES ASSUME NEW s \in Request, Holds(s)'
                 PROVE  /\ request'[s].loaded \in used
                        /\ \A j \in Item : row[j] = request'[s].loaded => j = request'[s].item
                        /\ \A q \in Request :
                             request'[q].step = "saved" => request'[q].fresh # request'[s].loaded
      BY DEF LoadedIsOwn
    <2>1. s # r /\ request'[s] = request[s] /\ Holds(s)
      BY <1>1, <1>2 DEF Holds
    <2>2. \A q \in Request : request'[q].step = "saved" => q # r /\ request'[q] = request[q]
      BY <1>1, <1>2
    <2> QED BY <2>1, <2>2 DEF CatalogInv, LoadedIsOwn
  <1> QED BY <1>3, <1>5, <1>6, <1>7, <1>8, <1>9 DEF CatalogInv

LEMMA SaveStep ==
  ASSUME CatalogInv, NEW r \in Request, NEW name \in Name, NEW remove \in BOOLEAN,
         Save(r, name, remove)
  PROVE  CatalogInv'
  <1> DEFINE new == [request[r] EXCEPT !.step = "saved", !.fresh = name, !.remove = remove]
  <1>0. request[r] \in RequestState /\ request[r] # Idle
    BY RequestShape DEF CatalogInv, Save, Enter, At, Idle
  <1>1. /\ new \in RequestState /\ new.step = "saved" /\ new.fresh = name
        /\ new.op = request[r].op /\ new.item = request[r].item /\ new.loaded = request[r].loaded
    <2> DEFINE c == request[r]
               c1 == [c EXCEPT !.step = "saved"]
               c2 == [c1 EXCEPT !.fresh = name]
    <2>1. c \in RequestState /\ "saved" \in Step
      BY <1>0 DEF Step
    <2>2. new = [c2 EXCEPT !.remove = remove]
      OBVIOUS
    <2> HIDE DEF new, c2
    <2>3. c2 = [c1 EXCEPT !.fresh = name]
      BY DEF c2
    <2> HIDE DEF c1
    <2>4. c1 = [c EXCEPT !.step = "saved"]
      BY DEF c1
    <2> HIDE DEF c
    <2>5. /\ c1 \in RequestState /\ c1.step = "saved"
          /\ c1.op = c.op /\ c1.item = c.item /\ c1.loaded = c.loaded
      BY ONLY <2>1, <2>4, SetStep
    <2>6. /\ c2 \in RequestState /\ c2.step = c1.step /\ c2.fresh = name
          /\ c2.op = c1.op /\ c2.item = c1.item /\ c2.loaded = c1.loaded
      BY ONLY <2>3, <2>5, name \in Name, SetFresh
    <2>7. /\ new \in RequestState /\ new.step = c2.step /\ new.fresh = c2.fresh
          /\ new.op = c2.op /\ new.item = c2.item /\ new.loaded = c2.loaded
      BY ONLY <2>2, <2>6, remove \in BOOLEAN, SetRemove
    <2> QED BY <2>5, <2>6, <2>7 DEF c
  <1>2. request' = [request EXCEPT ![r] = new]
    BY DEF Save
  <1> HIDE DEF new
  <1>3. /\ request' \in [Request -> RequestState \cup {Idle}]
        /\ request'[r] = new
        /\ \A q \in Request : q # r => request'[q] = request[q]
    <2>1. request \in [Request -> RequestState \cup {Idle}]
      BY DEF CatalogInv, CatalogTypeOK
    <2> QED BY <2>1, <1>1, <1>2, Renewed
  <1>4. /\ request[r].step = "waiting" /\ request[r].op \in {"create", "update"}
        /\ lock = Nobody /\ lock' = r /\ row' = row
        /\ name = NoImage \/ name \in Image \ used
        /\ files' = files \cup ({name} \ {NoImage})
        /\ used' = used \cup ({name} \ {NoImage})
    BY DEF Save, Enter, At, FreshNames
  <1>5. \A q \in Request : request[q].step \notin {"saved", "decided"}
    BY <1>4, CatalogAssumption DEF CatalogInv, LockOwned
  <1>6. Referenced' = Referenced
    BY <1>4 DEF Referenced, Existing
  <1>7. CatalogTypeOK'
    BY <1>3, <1>4 DEF CatalogInv, CatalogTypeOK
  <1>8. LockOwned' /\ DeleteHasLooked' /\ ObsoleteIsUnnamed'
    BY <1>1, <1>3, <1>4, <1>5 DEF LockOwned, DeleteHasLooked, ObsoleteIsUnnamed
  <1>9. HasItem' /\ NothingStored'
    BY <1>0, <1>1, <1>3 DEF CatalogInv, HasItem, NothingStored
  <1>10. NamesAreUsed' /\ RowsHaveFiles'
    BY <1>4, <1>6 DEF CatalogInv, NamesAreUsed, RowsHaveFiles
  <1>11. NoSharedImage'
    BY <1>4 DEF CatalogInv, NoSharedImage, Existing
  <1>12. UploadIsUnnamed'
    <2>1. name # NoImage => name \in files' \ Referenced
      BY <1>4 DEF CatalogInv, NamesAreUsed, RowsHaveFiles
    <2> QED BY <2>1, <1>1, <1>3, <1>5, <1>6 DEF UploadIsUnnamed
  <1>13. LoadedIsOwn'
    <2> SUFFICES ASSUME NEW s \in Request, Holds(s)'
                 PROVE  /\ request'[s].loaded \in used'
                        /\ \A j \in Item : row[j] = request'[s].loaded => j = request'[s].item
                        /\ \A q \in Request :
                             request'[q].step = "saved" => request'[q].fresh # request'[s].loaded
      BY <1>4 DEF LoadedIsOwn
    <2>1. /\ Holds(s)
          /\ request'[s].loaded = request[s].loaded /\ request'[s].item = request[s].item
      BY <1>1, <1>3, <1>4 DEF Holds
    <2>2. \A q \in Request : request'[q].step = "saved" => request'[q].fresh = name
      BY <1>1, <1>3, <1>5
    <2>3. name # request[s].loaded
      BY <2>1, <1>4 DEF CatalogInv, LoadedIsOwn, Holds
    <2> QED BY <2>1, <2>2, <2>3, <1>4 DEF CatalogInv, LoadedIsOwn
  <1> QED BY <1>7, <1>8, <1>9, <1>10, <1>11, <1>12, <1>13 DEF CatalogInv

LEMMA EnterDeleteStep ==
  ASSUME CatalogInv, NEW r \in Request, EnterDelete(r)
  PROVE  CatalogInv'
  <1> DEFINE name == row[request[r].item]
             new == [request[r] EXCEPT !.step = "saved", !.loaded = name]
  <1>0. request[r] \in RequestState /\ request[r] # Idle
    BY RequestShape DEF CatalogInv, EnterDelete, Enter, At, Idle
  <1>1. /\ request[r].step = "waiting" /\ request[r].op = "delete"
        /\ lock = Nobody /\ lock' = r /\ row' = row /\ files' = files /\ used' = used
        /\ name # Gone
        /\ request' = [request EXCEPT ![r] = new]
    BY DEF EnterDelete, Enter, At
  <1>2. name \in Name
    BY <1>0, <1>1 DEF CatalogInv, HasItem, CatalogTypeOK
  <1>3. /\ new \in RequestState /\ new.step = "saved" /\ new.loaded = name
        /\ new.op = "delete" /\ new.item = request[r].item /\ new.fresh = request[r].fresh
    <2> DEFINE c == request[r]
               e == [c EXCEPT !.step = "saved"]
    <2>1. c \in RequestState /\ "saved" \in Step
      BY <1>0 DEF Step
    <2>2. new = [e EXCEPT !.loaded = name]
      OBVIOUS
    <2> HIDE DEF new, e
    <2>3. e = [c EXCEPT !.step = "saved"]
      BY DEF e
    <2> HIDE DEF c, name
    <2>4. /\ e \in RequestState /\ e.step = "saved"
          /\ e.op = c.op /\ e.item = c.item /\ e.fresh = c.fresh
      BY ONLY <2>1, <2>3, SetStep
    <2>5. /\ new \in RequestState /\ new.step = e.step /\ new.loaded = name
          /\ new.op = e.op /\ new.item = e.item /\ new.fresh = e.fresh
      BY ONLY <2>2, <2>4, <1>2, SetLoaded
    <2> QED BY <2>4, <2>5, <1>1 DEF c
  <1> HIDE DEF new
  <1>4. /\ request' \in [Request -> RequestState \cup {Idle}]
        /\ request'[r] = new
        /\ \A q \in Request : q # r => request'[q] = request[q]
    <2>1. request \in [Request -> RequestState \cup {Idle}]
      BY DEF CatalogInv, CatalogTypeOK
    <2> QED BY <2>1, <1>1, <1>3, Renewed
  <1>5. \A q \in Request : request[q].step \notin {"saved", "decided"}
    BY <1>1, CatalogAssumption DEF CatalogInv, LockOwned
  <1>6. Referenced' = Referenced
    BY <1>1 DEF Referenced, Existing
  <1>7. CatalogTypeOK'
    BY <1>1, <1>4 DEF CatalogInv, CatalogTypeOK
  <1>8. LockOwned' /\ DeleteHasLooked' /\ ObsoleteIsUnnamed'
    BY <1>1, <1>3, <1>4, <1>5 DEF LockOwned, DeleteHasLooked, ObsoleteIsUnnamed
  <1>9. HasItem' /\ NothingStored'
    BY <1>0, <1>1, <1>3, <1>4 DEF CatalogInv, HasItem, NothingStored
  <1>10. NamesAreUsed' /\ RowsHaveFiles'
    BY <1>1, <1>6 DEF CatalogInv, NamesAreUsed, RowsHaveFiles
  <1>11. NoSharedImage'
    BY <1>1 DEF CatalogInv, NoSharedImage, Existing
  <1>12. request[r].fresh = NoImage
    BY <1>0, <1>1 DEF CatalogInv, NothingStored
  <1>13. UploadIsUnnamed'
    BY <1>3, <1>4, <1>5, <1>12 DEF UploadIsUnnamed
  <1>14. LoadedIsOwn'
    <2> SUFFICES ASSUME NEW s \in Request, Holds(s)'
                 PROVE  /\ request'[s].loaded \in used
                        /\ \A j \in Item : row[j] = request'[s].loaded => j = request'[s].item
                        /\ \A q \in Request :
                             request'[q].step = "saved" => request'[q].fresh # request'[s].loaded
      BY <1>1 DEF LoadedIsOwn
    <2>1. s # r /\ request'[s] = request[s] /\ Holds(s)
      BY <1>3, <1>4 DEF Holds
    <2>2. \A q \in Request : request'[q].step = "saved" => request'[q].fresh = NoImage
      BY <1>3, <1>4, <1>5, <1>12
    <2> QED BY <2>1, <2>2 DEF CatalogInv, LoadedIsOwn, Holds
  <1> QED BY <1>7, <1>8, <1>9, <1>10, <1>11, <1>13, <1>14 DEF CatalogInv

(* A transaction ends.  Row i takes the name `fresh`, which no other row has, or
   goes; what is then obsolete is in no row. *)
LEMMA DecideStep ==
  ASSUME CatalogInv, NEW r \in Request, NEW obsolete \in Name,
         request[r].step = "saved", Decide(r, obsolete),
         UNCHANGED <<files, lock, used>>,
         row' \in [Item -> Name \cup {Gone}],
         \A j \in Item : row'[j] = row[j] \/ row'[j] \in {Gone, NoImage, request[r].fresh},
         \A j, k \in Item : row'[j] # row[j] /\ row'[k] # row[k] => j = k,
         obsolete \notin Referenced'
  PROVE  CatalogInv'
  <1> DEFINE new == [request[r] EXCEPT !.step = "decided", !.obsolete = obsolete]
  <1>0. request[r] \in RequestState /\ request[r] # Idle
    BY RequestShape DEF CatalogInv, Idle
  <1>1. /\ new \in RequestState /\ new.step = "decided" /\ new.obsolete = obsolete
        /\ new.op = request[r].op /\ new.item = request[r].item
    <2> DEFINE c == request[r]
               e == [c EXCEPT !.step = "decided"]
    <2>1. c \in RequestState /\ "decided" \in Step
      BY <1>0 DEF Step
    <2>2. new = [e EXCEPT !.obsolete = obsolete]
      OBVIOUS
    <2> HIDE DEF new, e
    <2>3. e = [c EXCEPT !.step = "decided"]
      BY DEF e
    <2> HIDE DEF c
    <2>4. e \in RequestState /\ e.step = "decided" /\ e.op = c.op /\ e.item = c.item
      BY ONLY <2>1, <2>3, SetStep
    <2>5. /\ new \in RequestState /\ new.step = e.step /\ new.obsolete = obsolete
          /\ new.op = e.op /\ new.item = e.item
      BY ONLY <2>2, <2>4, obsolete \in Name, SetObsolete
    <2> QED BY <2>4, <2>5 DEF c
  <1>2. request' = [request EXCEPT ![r] = new]
    BY DEF Decide
  <1> HIDE DEF new
  <1>3. /\ request' \in [Request -> RequestState \cup {Idle}]
        /\ request'[r] = new
        /\ \A q \in Request : q # r => request'[q] = request[q]
    <2>1. request \in [Request -> RequestState \cup {Idle}]
      BY DEF CatalogInv, CatalogTypeOK
    <2> QED BY <2>1, <1>1, <1>2, Renewed
  <1>4. \A q \in Request : q # r => request[q].step \notin {"saved", "decided"}
    BY DEF CatalogInv, LockOwned
  <1>5. request[r].fresh # NoImage =>
          request[r].fresh \in files /\ \A j \in Item : row[j] # request[r].fresh
    <2>1. request[r].fresh # NoImage => request[r].fresh \in files \ Referenced
      BY DEF CatalogInv, UploadIsUnnamed
    <2>2. request[r].fresh # Gone
      BY <1>0, CatalogAssumption DEF RequestState, Name
    <2> QED BY <2>1, <2>2 DEF Referenced, Existing
  <1>6. Referenced' \subseteq Referenced \cup ({request[r].fresh} \ {NoImage})
    BY DEF Referenced, Existing
  <1>7. CatalogTypeOK'
    BY <1>3 DEF CatalogInv, CatalogTypeOK
  <1>8. LockOwned' /\ DeleteHasLooked' /\ UploadIsUnnamed'
    BY <1>1, <1>3, <1>4 DEF CatalogInv, LockOwned, DeleteHasLooked, UploadIsUnnamed
  <1>9. HasItem' /\ NothingStored'
    BY <1>0, <1>1, <1>3 DEF CatalogInv, HasItem, NothingStored
  <1>10. RowsHaveFiles' /\ NamesAreUsed'
    <2> QED BY <1>5, <1>6 DEF CatalogInv, RowsHaveFiles, NamesAreUsed
  <1>11. ObsoleteIsUnnamed'
    BY <1>1, <1>3, <1>4 DEF ObsoleteIsUnnamed
  <1>12. NoSharedImage'
    <2> SUFFICES ASSUME NEW j \in Item, NEW k \in Item, j # k, row'[j] = row'[k],
                        row'[j] # Gone, row'[j] # NoImage
                 PROVE  FALSE
      BY DEF NoSharedImage, Existing
    <2>1. CASE row'[j] = row[j] /\ row'[k] = row[k]
      BY <2>1 DEF CatalogInv, NoSharedImage, Existing
    <2>2. CASE row'[j] # row[j]
      BY <2>2, <1>5
    <2>3. CASE row'[k] # row[k]
      BY <2>3, <1>5
    <2> QED BY <2>1, <2>2, <2>3
  <1>13. LoadedIsOwn'
    <2> SUFFICES ASSUME NEW s \in Request, Holds(s)'
                 PROVE  /\ request'[s].loaded \in used
                        /\ \A j \in Item : row'[j] = request'[s].loaded => j = request'[s].item
                        /\ \A q \in Request :
                             request'[q].step = "saved" => request'[q].fresh # request'[s].loaded
      BY DEF LoadedIsOwn
    <2>1. s # r /\ request'[s] = request[s] /\ Holds(s)
      BY <1>1, <1>3 DEF Holds
    <2>2. \A q \in Request : request'[q].step # "saved"
      BY <1>1, <1>3, <1>4
    <2>3. request[s].loaded # NoImage /\ request[s].loaded # request[r].fresh
      BY <2>1 DEF CatalogInv, LoadedIsOwn, Holds
    <2>4. request[s].loaded # Gone
      <3>1. request[s] \in RequestState
        BY <2>1, RequestShape DEF CatalogInv, Holds, Idle
      <3> QED BY <3>1, CatalogAssumption DEF RequestState, Name
    <2>5. \A j \in Item : row'[j] = request[s].loaded => row[j] = request[s].loaded
      BY <2>3, <2>4
    <2> QED BY <2>1, <2>2, <2>5 DEF CatalogInv, LoadedIsOwn
  <1> QED BY <1>7, <1>8, <1>9, <1>10, <1>11, <1>12, <1>13 DEF CatalogInv

LEMMA CommitCreateStep ==
  ASSUME CatalogInv, NEW r \in Request, CommitCreate(r)
  PROVE  CatalogInv'
  <1>1. /\ request[r].step = "saved" /\ Decide(r, NoImage)
        /\ UNCHANGED <<files, lock, used>>
        /\ row' = [row EXCEPT ![NewId] = request[r].fresh]
    BY DEF CommitCreate, At
  <1>2. request[r].fresh \in Name
    BY <1>1, RequestShape DEF CatalogInv, Idle, RequestState
  <1>3. row \in [Item -> Name \cup {Gone}]
    BY DEF CatalogInv, CatalogTypeOK
  <1>4. row' \in [Item -> Name \cup {Gone}]
    BY <1>1, <1>2, <1>3
  <1>5. \A j \in Item : row'[j] = IF j = NewId THEN request[r].fresh ELSE row[j]
    BY <1>1, <1>3
  <1>6. NoImage \in Name /\ NoImage \notin Referenced'
    BY DEF Name, Referenced
  <1>7. \A j \in Item : row'[j] = row[j] \/ row'[j] \in {Gone, NoImage, request[r].fresh}
    BY <1>5
  <1>8. \A j, k \in Item : row'[j] # row[j] /\ row'[k] # row[k] => j = k
    BY <1>5
  <1> QED BY <1>1, <1>4, <1>6, <1>7, <1>8, DecideStep

LEMMA CommitUpdateStep ==
  ASSUME CatalogInv, NEW r \in Request, CommitUpdate(r)
  PROVE  CatalogInv'
  <1> DEFINE i == request[r].item
             obsolete == IF Replaces(r) THEN request[r].loaded ELSE NoImage
  <1>1. /\ request[r].step = "saved" /\ request[r].op = "update"
        /\ UNCHANGED <<files, lock, used>>
        /\ Decide(r, obsolete)
        /\ row' = IF Replaces(r) THEN [row EXCEPT ![i] = request[r].fresh] ELSE row
    BY DEF CommitUpdate, At
  <1>2. request[r].fresh \in Name /\ request[r].loaded \in Name
    BY <1>1, RequestShape DEF CatalogInv, Idle, RequestState
  <1>3. row \in [Item -> Name \cup {Gone}]
    BY DEF CatalogInv, CatalogTypeOK
  <1>4. row' \in [Item -> Name \cup {Gone}]
    BY <1>1, <1>2, <1>3
  <1>5. \A j \in Item : row'[j] = IF Replaces(r) /\ j = i THEN request[r].fresh ELSE row[j]
    BY <1>1, <1>3
  <1>6. obsolete \in Name
    BY <1>2 DEF Name
  <1>7. obsolete \notin Referenced'
    <2>1. CASE obsolete = NoImage
      BY <2>1 DEF Referenced
    <2>2. CASE obsolete # NoImage
      <3>1. Replaces(r) /\ obsolete = request[r].loaded
        BY <2>2
      <3>2. /\ \A j \in Item : row[j] = obsolete => j = i
            /\ request[r].fresh # obsolete
        BY <1>1, <2>2, <3>1 DEF CatalogInv, LoadedIsOwn, Holds
      <3>3. \A j \in Item : row'[j] # obsolete
        BY <1>5, <3>1, <3>2
      <3> QED BY <3>3 DEF Referenced, Existing
    <2> QED BY <2>1, <2>2
  <1>8. \A j \in Item : row'[j] = row[j] \/ row'[j] \in {Gone, NoImage, request[r].fresh}
    BY <1>5
  <1>9. \A j, k \in Item : row'[j] # row[j] /\ row'[k] # row[k] => j = k
    BY <1>5
  <1> HIDE DEF obsolete, i
  <1> QED BY <1>1, <1>4, <1>6, <1>7, <1>8, <1>9, DecideStep

LEMMA CommitDeleteStep ==
  ASSUME CatalogInv, NEW r \in Request, CommitDelete(r)
  PROVE  CatalogInv'
  <1> DEFINE i == request[r].item
             obsolete == request[r].loaded
  <1>1. /\ request[r].step = "saved" /\ request[r].op = "delete"
        /\ UNCHANGED <<files, lock, used>>
        /\ Decide(r, obsolete)
        /\ row' = [row EXCEPT ![i] = Gone]
    BY DEF CommitDelete, At
  <1>2. obsolete \in Name /\ obsolete # Gone
    BY <1>1, RequestShape, CatalogAssumption DEF CatalogInv, Idle, RequestState, Name
  <1>3. row \in [Item -> Name \cup {Gone}]
    BY DEF CatalogInv, CatalogTypeOK
  <1>4. row' \in [Item -> Name \cup {Gone}]
    BY <1>1, <1>3
  <1>5. \A j \in Item : row'[j] = IF j = i THEN Gone ELSE row[j]
    BY <1>1, <1>3
  <1>6. i \in Item /\ row[i] = obsolete
    BY <1>1 DEF CatalogInv, HasItem, DeleteHasLooked, Idle
  <1>7. obsolete \notin Referenced'
    <2>1. \A j \in Item : obsolete # NoImage /\ row[j] = obsolete => j = i
      BY <1>2, <1>6 DEF CatalogInv, NoSharedImage, Existing
    <2>2. obsolete # NoImage => \A j \in Item : row'[j] # obsolete
      BY <2>1, <1>2, <1>5
    <2> QED BY <2>2 DEF Referenced, Existing
  <1>8. \A j \in Item : row'[j] = row[j] \/ row'[j] \in {Gone, NoImage, request[r].fresh}
    BY <1>5
  <1>9. \A j, k \in Item : row'[j] # row[j] /\ row'[k] # row[k] => j = k
    BY <1>5
  <1> HIDE DEF obsolete, i
  <1> QED BY <1>1, <1>2, <1>4, <1>7, <1>8, <1>9, DecideStep

LEMMA CommitFailsStep ==
  ASSUME CatalogInv, NEW r \in Request, CommitFails(r)
  PROVE  CatalogInv'
  <1>1. /\ request[r].step = "saved" /\ UNCHANGED <<row, files, lock, used>>
        /\ Decide(r, request[r].fresh)
    BY DEF CommitFails, At, Undone
  <1>2. request[r].fresh \in Name
    BY <1>1, RequestShape DEF CatalogInv, Idle, RequestState
  <1>3. Referenced' = Referenced
    BY <1>1 DEF Referenced, Existing
  <1>4. request[r].fresh \notin Referenced'
    BY <1>1, <1>3 DEF CatalogInv, UploadIsUnnamed, Referenced
  <1>5. row' \in [Item -> Name \cup {Gone}]
    BY <1>1 DEF CatalogInv, CatalogTypeOK
  <1> QED BY <1>1, <1>2, <1>4, <1>5, DecideStep

(* The upload is refused, or the item of a delete is gone. *)
LEMMA RefusedStep ==
  ASSUME CatalogInv, NEW r \in Request, RejectUpload(r) \/ AlreadyDeleted(r)
  PROVE  CatalogInv'
  <1>1. /\ request' = [request EXCEPT ![r] = Idle]
        /\ UNCHANGED <<row, files, lock, used>>
    BY DEF RejectUpload, AlreadyDeleted
  <1>2. lock \in Request \cup Process \cup {Nobody}
    BY DEF CatalogInv, CatalogTypeOK
  <1>3. \A q \in Request : q # r /\ request[q].step \in {"saved", "decided"} => lock = q
    BY DEF CatalogInv, LockOwned
  <1> QED BY <1>1, <1>2, <1>3, LeaveStep

LEMMA CleanupStep ==
  ASSUME CatalogInv, NEW r \in Request, NEW removed \in BOOLEAN, Cleanup(r, removed)
  PROVE  CatalogInv'
  <1>1. /\ request[r].step = "decided" /\ lock' = Nobody
        /\ request' = [request EXCEPT ![r] = Idle]
        /\ UNCHANGED <<row, used>>
        /\ files' = files \/ files' = files \ ({request[r].obsolete} \ {NoImage})
    BY DEF Cleanup, At
  <1>2. \A q \in Request : q # r => request[q].step \notin {"saved", "decided"}
    BY <1>1 DEF CatalogInv, LockOwned
  <1>3. request[r].obsolete \notin Referenced
    BY <1>1 DEF CatalogInv, ObsoleteIsUnnamed
  <1>4. files' \subseteq files /\ files \ files' \subseteq files \ Referenced
    BY <1>1, <1>3
  <1> QED BY <1>1, <1>2, <1>4, LeaveStep

LEMMA CrashStep ==
  ASSUME CatalogInv, CrashWeb
  PROVE  CatalogInv'
  <1>1. /\ request' = [r \in Request |-> Idle]
        /\ UNCHANGED <<row, files, used>>
        /\ lock' \in {lock, Nobody}
    BY DEF CrashWeb
  <1>2. \A r \in Request : request'[r] = Idle /\ request'[r].step = "idle"
    BY <1>1 DEF Idle
  <1>3. Referenced' = Referenced
    BY <1>1 DEF Referenced, Existing
  <1>4. CatalogTypeOK'
    BY <1>1 DEF CatalogInv, CatalogTypeOK
  <1>5. LockOwned' /\ HasItem' /\ NothingStored' /\ DeleteHasLooked' /\ ObsoleteIsUnnamed'
    BY <1>2 DEF LockOwned, HasItem, NothingStored, DeleteHasLooked, ObsoleteIsUnnamed
  <1>6. UploadIsUnnamed' /\ LoadedIsOwn'
    BY <1>2 DEF UploadIsUnnamed, LoadedIsOwn, Holds
  <1>7. NamesAreUsed' /\ RowsHaveFiles'
    BY <1>1, <1>3 DEF CatalogInv, NamesAreUsed, RowsHaveFiles
  <1>8. NoSharedImage'
    BY <1>1 DEF CatalogInv, NoSharedImage, Existing
  <1> QED BY <1>4, <1>5, <1>6, <1>7, <1>8 DEF CatalogInv

LEMMA StartsStep ==
  ASSUME CatalogInv, NEW r \in Request,
         StartCreate(r) \/ \E i \in Item : StartUpdate(r, i) \/ StartDelete(r, i)
  PROVE  CatalogInv'
  <1>1. NoImage \in Name /\ Op = {"create", "update", "delete"}
    BY DEF Name, Op
  <1>2. CASE StartCreate(r)
    <2>1. /\ request' = [request EXCEPT ![r] = Waiting("create", 0, NoImage)]
          /\ UNCHANGED <<row, files, lock, used>>
      BY <1>2 DEF StartCreate
    <2> QED BY <1>1, <2>1, StartStep
  <1>3. ASSUME NEW i \in Item, StartUpdate(r, i)
        PROVE  CatalogInv'
    <2>1. /\ request' = [request EXCEPT ![r] = Waiting("update", i, row[i])]
          /\ UNCHANGED <<row, files, lock, used>>
      BY <1>3 DEF StartUpdate
    <2>2. row[i] \in Name
      BY <1>3 DEF StartUpdate, Existing, CatalogInv, CatalogTypeOK
    <2> QED BY <1>1, <2>1, <2>2, StartStep
  <1>4. ASSUME NEW i \in Item, StartDelete(r, i)
        PROVE  CatalogInv'
    <2>1. /\ request' = [request EXCEPT ![r] = Waiting("delete", i, NoImage)]
          /\ UNCHANGED <<row, files, lock, used>>
      BY <1>4 DEF StartDelete
    <2> QED BY <1>1, <2>1, StartStep
  <1> QED BY <1>2, <1>3, <1>4

-----------------------------------------------------------------------------
(* The catalog alone *)

LEMMA CatalogInvInit == CatalogInit => CatalogInv
  <1> SUFFICES ASSUME CatalogInit PROVE CatalogInv
    OBVIOUS
  <1>1. /\ row = [i \in Item |-> Gone] /\ files = {} /\ lock = Nobody /\ used = {}
        /\ request = [r \in Request |-> Idle]
    BY DEF CatalogInit
  <1>2. \A r \in Request : request[r] = Idle /\ request[r].step = "idle"
    BY <1>1 DEF Idle
  <1>3. Existing = {} /\ Referenced = {}
    BY <1>1 DEF Existing, Referenced
  <1>4. CatalogTypeOK
    BY <1>1 DEF CatalogTypeOK
  <1>5. LockOwned /\ HasItem /\ NothingStored /\ DeleteHasLooked /\ ObsoleteIsUnnamed
    BY <1>2 DEF LockOwned, HasItem, NothingStored, DeleteHasLooked, ObsoleteIsUnnamed
  <1>6. UploadIsUnnamed /\ LoadedIsOwn
    BY <1>2 DEF UploadIsUnnamed, LoadedIsOwn, Holds
  <1>7. NamesAreUsed /\ RowsHaveFiles /\ NoSharedImage
    BY <1>1, <1>3 DEF NamesAreUsed, RowsHaveFiles, NoSharedImage
  <1> QED BY <1>4, <1>5, <1>6, <1>7 DEF CatalogInv

LEMMA CatalogStep == CatalogInv /\ CatalogNext => CatalogInv'
  <1> SUFFICES ASSUME CatalogInv, CatalogNext PROVE CatalogInv'
    OBVIOUS
  <1>1. CASE CrashWeb
    BY <1>1, CrashStep
  <1>2. ASSUME NEW r \in Request,
               StartCreate(r) \/ \E i \in Item : StartUpdate(r, i) \/ StartDelete(r, i)
        PROVE  CatalogInv'
    BY <1>2, StartsStep
  <1>3. ASSUME NEW r \in Request, NEW name \in Name, NEW remove \in BOOLEAN,
               Save(r, name, remove)
        PROVE  CatalogInv'
    BY <1>3, SaveStep
  <1>4. ASSUME NEW r \in Request, RejectUpload(r) \/ AlreadyDeleted(r)
        PROVE  CatalogInv'
    BY <1>4, RefusedStep
  <1>5. ASSUME NEW r \in Request, EnterDelete(r)
        PROVE  CatalogInv'
    BY <1>5, EnterDeleteStep
  <1>6. ASSUME NEW r \in Request, CommitCreate(r) \/ CommitUpdate(r)
        PROVE  CatalogInv'
    BY <1>6, CommitCreateStep, CommitUpdateStep
  <1>7. ASSUME NEW r \in Request, CommitDelete(r) \/ CommitFails(r)
        PROVE  CatalogInv'
    BY <1>7, CommitDeleteStep, CommitFailsStep
  <1>8. ASSUME NEW r \in Request, NEW removed \in BOOLEAN, Cleanup(r, removed)
        PROVE  CatalogInv'
    BY <1>8, CleanupStep
  <1> QED BY <1>1, <1>2, <1>3, <1>4, <1>5, <1>6, <1>7, <1>8 DEF CatalogNext

(* Every part of the invariant survives a step that leaves the catalog alone. *)
LEMMA CatalogStutter == CatalogInv /\ UNCHANGED catalog => CatalogInv'
  <1> SUFFICES ASSUME CatalogInv, UNCHANGED catalog PROVE CatalogInv'
    OBVIOUS
  <1>1. row' = row /\ files' = files /\ lock' = lock /\ request' = request /\ used' = used
    BY DEF catalog
  <1>2. Referenced' = Referenced /\ Existing' = Existing
    BY <1>1 DEF Referenced, Existing
  <1>3. CatalogTypeOK' /\ LockOwned' /\ HasItem' /\ NamesAreUsed' /\ NothingStored'
    BY <1>1 DEF CatalogInv, CatalogTypeOK, LockOwned, HasItem, NamesAreUsed, NothingStored
  <1>4. UploadIsUnnamed' /\ LoadedIsOwn' /\ DeleteHasLooked' /\ ObsoleteIsUnnamed'
    BY <1>1, <1>2
       DEF CatalogInv, UploadIsUnnamed, LoadedIsOwn, Holds, DeleteHasLooked, ObsoleteIsUnnamed
  <1>5. RowsHaveFiles' /\ NoSharedImage'
    BY <1>1, <1>2 DEF CatalogInv, RowsHaveFiles, NoSharedImage
  <1> QED BY <1>3, <1>4, <1>5 DEF CatalogInv

LEMMA CatalogInvariant == CatalogSpec => []CatalogInv
  <1>1. CatalogInit => CatalogInv
    BY CatalogInvInit
  <1>2. CatalogInv /\ [CatalogNext]_catalog => CatalogInv'
    BY CatalogStep, CatalogStutter
  <1> QED BY <1>1, <1>2, PTL DEF CatalogSpec

(* Every variable of the catalog has its type: app/views/admin.py never leaves a
   request, a row or the lock in a state outside it. *)
THEOREM CatalogTypeCorrect == CatalogSpec => []CatalogTypeOK
  <1>1. CatalogInv => CatalogTypeOK
    BY DEF CatalogInv
  <1> QED BY <1>1, CatalogInvariant, PTL

(* Whatever requests interleave, fail or die with the process, every image that a
   row names is in /data/images (item_create, item_update, item_delete). *)
THEOREM RowsAlwaysHaveFiles == CatalogSpec => []RowsHaveFiles
  <1>1. CatalogInv => RowsHaveFiles
    BY DEF CatalogInv
  <1> QED BY <1>1, CatalogInvariant, PTL

(* No two items ever name the same file, so removing one item's image cannot
   break another (save_image's fresh names, the lock of item_update). *)
THEOREM ImagesAreNeverShared == CatalogSpec => []NoSharedImage
  <1>1. CatalogInv => NoSharedImage
    BY DEF CatalogInv
  <1> QED BY <1>1, CatalogInvariant, PTL

-----------------------------------------------------------------------------
(* Backups beside the requests *)

BackupStateOf(names) ==
  [step : {"waiting", "reserved", "copied", "staged", "failed"}, stamp : Time,
   name : names, refs : SUBSET Image, written : Time]

(* The backups have their fields; that _next_archive_name finds a name within
   the bound is not needed here. *)
BackupShape ==
  /\ clock \in Time
  /\ \E names : backup \in [Backup -> BackupStateOf(names) \cup {Idle}]

(* At most one backup is in the scope of the lock. *)
LockOfBackup == \A b \in Backup : backup[b].step \in {"reserved", "copied"} => lock = b

BackupInv == CatalogInv /\ BackupShape /\ LockOfBackup /\ CopyFindsItsImages

(* Only the lock changes, and it was no request's. *)
LEMMA LockStep ==
  ASSUME CatalogInv, lock \notin Request,
         UNCHANGED <<row, files, request, used>>,
         lock' \in Process \cup {Nobody}
  PROVE  CatalogInv'
  <1>1. Referenced' = Referenced /\ Existing' = Existing
    BY DEF Referenced, Existing
  <1>2. CatalogTypeOK'
    BY DEF CatalogInv, CatalogTypeOK
  <1>3. LockOwned'
    BY DEF CatalogInv, LockOwned
  <1>4. HasItem' /\ NamesAreUsed' /\ NothingStored'
    BY DEF CatalogInv, HasItem, NamesAreUsed, NothingStored
  <1>5. UploadIsUnnamed' /\ LoadedIsOwn' /\ DeleteHasLooked' /\ ObsoleteIsUnnamed'
    BY <1>1
       DEF CatalogInv, UploadIsUnnamed, LoadedIsOwn, Holds, DeleteHasLooked, ObsoleteIsUnnamed
  <1>6. RowsHaveFiles' /\ NoSharedImage'
    BY <1>1 DEF CatalogInv, RowsHaveFiles, NoSharedImage
  <1> QED BY <1>2, <1>3, <1>4, <1>5, <1>6 DEF CatalogInv

(* While another process has the lock, no request moves an image. *)
LEMMA NothingMoves ==
  ASSUME CatalogInv, CatalogNext, NEW b \in Process, lock = b
  PROVE  files' = files /\ lock' = lock /\ row' = row
  <1>1. b \notin Request /\ b # Nobody
    BY CatalogAssumption
  <1>2. \A r \in Request : request[r].step \notin {"saved", "decided"}
    BY <1>1 DEF CatalogInv, LockOwned
  <1>3. CASE CrashWeb
    BY <1>1, <1>3 DEF CrashWeb
  <1>4. ASSUME NEW r \in Request,
               \/ StartCreate(r)
               \/ \E i \in Item : StartUpdate(r, i) \/ StartDelete(r, i)
               \/ RejectUpload(r) \/ AlreadyDeleted(r)
        PROVE  files' = files /\ lock' = lock /\ row' = row
    BY <1>4 DEF StartCreate, StartUpdate, StartDelete, RejectUpload, AlreadyDeleted
  <1>5. ASSUME NEW r \in Request,
               \/ \E name \in Name, remove \in BOOLEAN : Save(r, name, remove)
               \/ EnterDelete(r)
        PROVE  FALSE
    <2>1. Enter(r)
      BY <1>5, Zenon DEF Save, EnterDelete
    <2> QED BY <1>1, <2>1 DEF Enter
  <1>6. ASSUME NEW r \in Request,
               \/ CommitCreate(r) \/ CommitUpdate(r) \/ CommitDelete(r) \/ CommitFails(r)
               \/ \E removed \in BOOLEAN : Cleanup(r, removed)
        PROVE  FALSE
    BY <1>2, <1>6 DEF CommitCreate, CommitUpdate, CommitDelete, CommitFails, Cleanup, At
  <1> QED BY <1>3, <1>4, <1>5, <1>6 DEF CatalogNext

(* Single fields of a backup. *)
LEMMA SetBackupStep ==
  ASSUME NEW names, NEW c \in BackupStateOf(names), NEW d,
         NEW v \in {"waiting", "reserved", "copied", "staged", "failed"},
         d = [c EXCEPT !.step = v]
  PROVE  /\ d \in BackupStateOf(names) /\ d.step = v /\ d.stamp = c.stamp
         /\ d.name = c.name /\ d.refs = c.refs /\ d.written = c.written
  BY Zenon DEF BackupStateOf

LEMMA SetBackupName ==
  ASSUME NEW names, NEW c \in BackupStateOf(names), NEW d, NEW v \in names,
         d = [c EXCEPT !.name = v]
  PROVE  /\ d \in BackupStateOf(names) /\ d.step = c.step /\ d.stamp = c.stamp
         /\ d.name = v /\ d.refs = c.refs /\ d.written = c.written
  BY Zenon DEF BackupStateOf

LEMMA SetBackupRefs ==
  ASSUME NEW names, NEW c \in BackupStateOf(names), NEW d, NEW v \in SUBSET Image,
         d = [c EXCEPT !.refs = v]
  PROVE  /\ d \in BackupStateOf(names) /\ d.step = c.step /\ d.stamp = c.stamp
         /\ d.name = c.name /\ d.refs = v /\ d.written = c.written
  BY Zenon DEF BackupStateOf

LEMMA SetBackupWritten ==
  ASSUME NEW names, NEW c \in BackupStateOf(names), NEW d, NEW v \in Time,
         d = [c EXCEPT !.written = v]
  PROVE  /\ d \in BackupStateOf(names) /\ d.step = c.step /\ d.stamp = c.stamp
         /\ d.name = c.name /\ d.refs = c.refs /\ d.written = v
  BY Zenon DEF BackupStateOf

LEMMA MoreNames ==
  ASSUME NEW names, NEW more, names \subseteq more
  PROVE  BackupStateOf(names) \subseteq BackupStateOf(more)
  <1> SUFFICES ASSUME NEW c \in BackupStateOf(names) PROVE c \in BackupStateOf(more)
    OBVIOUS
  <1> QED BY Zenon DEF BackupStateOf

(* A backup that is not idle has its fields. *)
LEMMA RunningBackup ==
  ASSUME BackupShape, NEW b \in Backup, backup[b].step # "idle"
  PROVE  \E names : /\ backup \in [Backup -> BackupStateOf(names) \cup {Idle}]
                    /\ backup[b] \in BackupStateOf(names)
  <1>1. PICK names : backup \in [Backup -> BackupStateOf(names) \cup {Idle}]
    BY DEF BackupShape
  <1>2. backup[b] # Idle
    BY DEF Idle
  <1> QED BY <1>1, <1>2

(* One backup's step keeps the backups' part, when its new state does. *)
LEMMA OneBackup ==
  ASSUME BackupInv, NEW b \in Backup, NEW names, NEW new \in BackupStateOf(names) \cup {Idle},
         backup \in [Backup -> BackupStateOf(names) \cup {Idle}],
         backup' = [backup EXCEPT ![b] = new],
         clock' \in Time, files' = files,
         \A c \in Backup : c # b /\ lock = c => lock' = c,
         new.step \in {"reserved", "copied"} => lock' = b,
         new.step = "copied" => new.refs \subseteq files
  PROVE  BackupShape' /\ LockOfBackup' /\ CopyFindsItsImages'
  <1>1. /\ backup' \in [Backup -> BackupStateOf(names) \cup {Idle}]
        /\ backup'[b] = new
        /\ \A c \in Backup : c # b => backup'[c] = backup[c]
    BY SMT
  <1>2. BackupShape'
    <2>1. BackupStateOf(names)' = BackupStateOf(names)
      BY DEF BackupStateOf, Time
    <2> QED BY <1>1, <2>1 DEF BackupShape
  <1>3. LockOfBackup'
    BY <1>1 DEF BackupInv, LockOfBackup
  <1>4. CopyFindsItsImages'
    BY <1>1 DEF BackupInv, CopyFindsItsImages, On
  <1> QED BY <1>2, <1>3, <1>4

LEMMA StartBackupStep ==
  ASSUME BackupInv, NEW b \in Backup, StartBackup(b)
  PROVE  BackupInv'
  <1>1. /\ backup' = [backup EXCEPT ![b] = Running("waiting", clock)]
        /\ clock' = clock /\ UNCHANGED catalog
    BY DEF StartBackup
  <1>2. UNCHANGED <<row, files, lock, request, used>>
    BY <1>1 DEF catalog
  <1>3. PICK names : backup \in [Backup -> BackupStateOf(names) \cup {Idle}]
    BY DEF BackupInv, BackupShape
  <1> DEFINE new == Running("waiting", clock)
             more == names \cup {<<clock, 1>>}
  <1>4. new \in BackupStateOf(more) /\ new.step = "waiting"
    BY DEF Running, BackupStateOf, BackupInv, BackupShape
  <1>5. BackupStateOf(names) \subseteq BackupStateOf(more)
    BY MoreNames
  <1> HIDE DEF new, more
  <1>6. backup' = [backup EXCEPT ![b] = new] /\ backup \in [Backup -> BackupStateOf(more) \cup {Idle}]
    BY <1>1, <1>3, <1>5 DEF new
  <1>7. clock' \in Time
    BY <1>1 DEF BackupInv, BackupShape
  <1>8. BackupShape' /\ LockOfBackup' /\ CopyFindsItsImages'
    BY <1>2, <1>4, <1>6, <1>7, OneBackup
  <1> QED BY <1>1, <1>8, CatalogStutter DEF BackupInv

LEMMA ReserveStep ==
  ASSUME BackupInv, NEW b \in Backup, Reserve(b)
  PROVE  BackupInv'
  <1> DEFINE c == backup[b]
             name == <<c.stamp, FirstFree(c.stamp)>>
             e == [c EXCEPT !.step = "reserved"]
             new == [c EXCEPT !.step = "reserved", !.name = name]
  <1>1. /\ c.step = "waiting" /\ lock = Nobody /\ lock' = b
        /\ backup' = [backup EXCEPT ![b] = new]
        /\ clock' = clock /\ UNCHANGED <<row, files, request, used>>
    BY DEF Reserve, On
  <1>2. PICK names : /\ backup \in [Backup -> BackupStateOf(names) \cup {Idle}]
                     /\ c \in BackupStateOf(names)
    BY <1>1, RunningBackup DEF BackupInv
  <1> DEFINE more == names \cup {name}
  <1>3. new = [e EXCEPT !.name = name]
    OBVIOUS
  <1>4. BackupStateOf(names) \subseteq BackupStateOf(more)
    BY MoreNames
  <1>5. name \in more
    OBVIOUS
  <1> HIDE DEF new, more, e
  <1>6. e = [c EXCEPT !.step = "reserved"]
    BY DEF e
  <1> HIDE DEF c, name
  <1>7. c \in BackupStateOf(more)
    BY <1>2, <1>4
  <1>8. e \in BackupStateOf(more) /\ e.step = "reserved"
    BY ONLY <1>6, <1>7, SetBackupStep
  <1>9. new \in BackupStateOf(more) /\ new.step = "reserved"
    <2>1. new \in BackupStateOf(more) /\ new.step = e.step
      BY ONLY <1>3, <1>5, <1>8, SetBackupName
    <2> QED BY <1>8, <2>1
  <1>10. backup \in [Backup -> BackupStateOf(more) \cup {Idle}]
    BY <1>2, <1>4
  <1>11. clock' \in Time
    BY <1>1 DEF BackupInv, BackupShape
  <1>12. lock \notin Request /\ Nobody \notin Backup
    BY <1>1, CatalogAssumption DEF Backup
  <1>13. BackupShape' /\ LockOfBackup' /\ CopyFindsItsImages'
    BY <1>1, <1>9, <1>10, <1>11, <1>12, OneBackup
  <1>14. CatalogInv'
    BY <1>1, <1>12, LockStep DEF BackupInv, Backup
  <1> QED BY <1>13, <1>14 DEF BackupInv

LEMMA CopyDatabaseStep ==
  ASSUME BackupInv, NEW b \in Backup, CopyDatabase(b)
  PROVE  BackupInv'
  <1> DEFINE c == backup[b]
             e == [c EXCEPT !.step = "copied"]
             new == [c EXCEPT !.step = "copied", !.refs = Referenced]
  <1>1. /\ c.step = "reserved"
        /\ backup' = [backup EXCEPT ![b] = new]
        /\ clock' = clock /\ UNCHANGED catalog
    BY DEF CopyDatabase, On, InDatabase
  <1>2. PICK names : /\ backup \in [Backup -> BackupStateOf(names) \cup {Idle}]
                     /\ c \in BackupStateOf(names)
    BY <1>1, RunningBackup DEF BackupInv
  <1>3. new = [e EXCEPT !.refs = Referenced]
    OBVIOUS
  <1> HIDE DEF new, e
  <1>4. e = [c EXCEPT !.step = "copied"]
    BY DEF e
  <1>5. UNCHANGED <<row, files, lock, request, used>>
    BY <1>1 DEF catalog
  <1>6. Referenced \subseteq files /\ files \subseteq Image
    BY DEF BackupInv, CatalogInv, RowsHaveFiles, CatalogTypeOK
  <1>7. lock = b
    BY <1>1 DEF BackupInv, LockOfBackup
  <1> HIDE DEF c
  <1>8. e \in BackupStateOf(names) /\ e.step = "copied"
    BY ONLY <1>2, <1>4, SetBackupStep
  <1>9. new \in BackupStateOf(names) /\ new.step = "copied" /\ new.refs = Referenced
    <2>1. new \in BackupStateOf(names) /\ new.step = e.step /\ new.refs = Referenced
      BY ONLY <1>3, <1>6, <1>8, SetBackupRefs
    <2> QED BY <1>8, <2>1
  <1>10. clock' \in Time
    BY <1>1 DEF BackupInv, BackupShape
  <1>11. BackupShape' /\ LockOfBackup' /\ CopyFindsItsImages'
    BY <1>1, <1>2, <1>5, <1>6, <1>7, <1>9, <1>10, OneBackup
  <1> QED BY <1>1, <1>11, CatalogStutter DEF BackupInv

LEMMA CopyImagesStep ==
  ASSUME BackupInv, NEW b \in Backup, CopyImages(b)
  PROVE  BackupInv'
  <1> DEFINE c == backup[b]
             e == [c EXCEPT !.step = "staged"]
             new == [c EXCEPT !.step = "staged", !.written = clock]
  <1>1. /\ c.step = "copied" /\ lock' = Nobody
        /\ backup' = [backup EXCEPT ![b] = new]
        /\ clock' = clock /\ UNCHANGED <<row, files, request, used>>
    BY DEF CopyImages, On
  <1>2. PICK names : /\ backup \in [Backup -> BackupStateOf(names) \cup {Idle}]
                     /\ c \in BackupStateOf(names)
    BY <1>1, RunningBackup DEF BackupInv
  <1>3. new = [e EXCEPT !.written = clock]
    OBVIOUS
  <1> HIDE DEF new, e
  <1>4. e = [c EXCEPT !.step = "staged"]
    BY DEF e
  <1>5. clock \in Time /\ clock' \in Time
    BY <1>1 DEF BackupInv, BackupShape
  <1>6. lock = b
    BY <1>1 DEF BackupInv, LockOfBackup
  <1> HIDE DEF c
  <1>7. e \in BackupStateOf(names) /\ e.step = "staged"
    BY ONLY <1>2, <1>4, SetBackupStep
  <1>8. new \in BackupStateOf(names) /\ new.step = "staged"
    <2>1. new \in BackupStateOf(names) /\ new.step = e.step
      BY ONLY <1>3, <1>5, <1>7, SetBackupWritten
    <2> QED BY <1>7, <2>1
  <1>9. BackupShape' /\ LockOfBackup' /\ CopyFindsItsImages'
    BY <1>1, <1>2, <1>5, <1>6, <1>8, OneBackup
  <1>10. CatalogInv'
    BY <1>1, <1>6, LockStep, CatalogAssumption DEF BackupInv, Backup
  <1> QED BY <1>9, <1>10 DEF BackupInv

(* A backup ends: it publishes, gives its name back or is killed. *)
LEMMA BackupEndsStep ==
  ASSUME BackupInv, NEW b \in Backup,
         backup' = [backup EXCEPT ![b] = Idle],
         clock' = clock, UNCHANGED <<row, files, request, used>>,
         lock' = lock \/ lock' = Released(b)
  PROVE  BackupInv'
  <1>1. PICK names : backup \in [Backup -> BackupStateOf(names) \cup {Idle}]
    BY DEF BackupInv, BackupShape
  <1>2. clock' \in Time
    BY DEF BackupInv, BackupShape
  <1>3. Idle \in BackupStateOf(names) \cup {Idle} /\ Idle.step = "idle"
    BY DEF Idle
  <1>4. \A c \in Backup : c # b /\ lock = c => lock' = c
    BY DEF Released
  <1> HIDE DEF Idle
  <1>5. BackupShape' /\ LockOfBackup' /\ CopyFindsItsImages'
    BY <1>1, <1>2, <1>3, <1>4, OneBackup
  <1>6. CatalogInv'
    <2>1. CASE lock' = lock
      <3>1. UNCHANGED catalog
        BY <2>1 DEF catalog
      <3> QED BY <3>1, CatalogStutter DEF BackupInv
    <2>2. CASE lock' # lock
      <3>1. lock = b /\ lock' = Nobody
        BY <2>2 DEF Released
      <3> QED BY <3>1, LockStep, CatalogAssumption DEF BackupInv, Backup
    <2> QED BY <2>1, <2>2
  <1> QED BY <1>5, <1>6 DEF BackupInv

LEMMA BackupFailsStep ==
  ASSUME BackupInv, NEW b \in Backup, BackupFails(b)
  PROVE  BackupInv'
  <1> DEFINE c == backup[b]
             new == [c EXCEPT !.step = "failed"]
  <1>1. /\ c.step # "idle" /\ lock' = Released(b)
        /\ clock' = clock /\ UNCHANGED <<row, files, request, used>>
    BY DEF BackupFails
  <1>2. CASE On(b, "waiting")
    BY <1>1, <1>2, BackupEndsStep DEF BackupFails
  <1>3. CASE ~On(b, "waiting")
    <2>1. backup' = [backup EXCEPT ![b] = new]
      BY <1>3 DEF BackupFails
    <2>2. PICK names : /\ backup \in [Backup -> BackupStateOf(names) \cup {Idle}]
                       /\ c \in BackupStateOf(names)
      BY <1>1, RunningBackup DEF BackupInv
    <2> HIDE DEF new
    <2>3. new = [c EXCEPT !.step = "failed"]
      BY DEF new
    <2> HIDE DEF c
    <2>4. new \in BackupStateOf(names) /\ new.step = "failed"
      BY ONLY <2>2, <2>3, SetBackupStep
    <2>5. clock' \in Time
      BY <1>1 DEF BackupInv, BackupShape
    <2>6. \A d \in Backup : d # b /\ lock = d => lock' = d
      BY <1>1 DEF Released
    <2>7. BackupShape' /\ LockOfBackup' /\ CopyFindsItsImages'
      BY <1>1, <2>1, <2>2, <2>4, <2>5, <2>6, OneBackup
    <2>8. CatalogInv'
      <3>1. CASE lock' = lock
        <4>1. UNCHANGED catalog
          BY <1>1, <3>1 DEF catalog
        <4> QED BY <4>1, CatalogStutter DEF BackupInv
      <3>2. CASE lock' # lock
        <4>1. lock = b /\ lock' = Nobody
          BY <1>1, <3>2 DEF Released
        <4> QED BY <1>1, <4>1, LockStep, CatalogAssumption DEF BackupInv, Backup
      <3> QED BY <3>1, <3>2
    <2> QED BY <2>7, <2>8 DEF BackupInv
  <1> QED BY <1>2, <1>3

LEMMA BackupInvInit == Init => BackupInv
  <1> SUFFICES ASSUME Init PROVE BackupInv
    OBVIOUS
  <1>1. CatalogInit /\ clock = 0 /\ backup = [b \in Backup |-> Idle]
    BY DEF Init
  <1>2. \A b \in Backup : backup[b].step = "idle"
    BY <1>1 DEF Idle
  <1>3. clock \in Time
    BY <1>1, BackupAssumption DEF Time
  <1>4. backup \in [Backup -> BackupStateOf({}) \cup {Idle}]
    BY <1>1
  <1>5. LockOfBackup /\ CopyFindsItsImages
    BY <1>2 DEF LockOfBackup, CopyFindsItsImages, On
  <1> QED BY <1>1, <1>3, <1>4, <1>5, CatalogInvInit DEF BackupInv, BackupShape

LEMMA BackupStep == BackupInv /\ [Next]_vars => BackupInv'
  <1> SUFFICES ASSUME BackupInv, [Next]_vars PROVE BackupInv'
    OBVIOUS
  <1>0. ASSUME UNCHANGED catalog, UNCHANGED backup, clock' \in Time
        PROVE  BackupInv'
    <2>1. CatalogInv' /\ lock' = lock /\ files' = files
      BY <1>0, CatalogStutter DEF BackupInv, catalog
    <2>2. PICK names : backup \in [Backup -> BackupStateOf(names) \cup {Idle}]
      BY DEF BackupInv, BackupShape
    <2>3. BackupStateOf(names)' = BackupStateOf(names)
      BY DEF BackupStateOf, Time
    <2>4. BackupShape'
      BY <1>0, <2>2, <2>3 DEF BackupShape
    <2> QED BY <1>0, <2>1, <2>4 DEF BackupInv, LockOfBackup, CopyFindsItsImages, On
  <1>1. ASSUME CatalogNext, UNCHANGED <<archives, clock, backup, started, abandoned>>
        PROVE  BackupInv'
    <2>1. CatalogInv'
      BY <1>1, CatalogStep DEF BackupInv
    <2>2. \A b \in Backup : lock = b => files' = files /\ lock' = lock
      BY <1>1, NothingMoves DEF BackupInv, Backup
    <2>3. LockOfBackup' /\ CopyFindsItsImages'
      BY <1>1, <2>2 DEF BackupInv, LockOfBackup, CopyFindsItsImages, On
    <2>4. PICK names : backup \in [Backup -> BackupStateOf(names) \cup {Idle}]
      BY DEF BackupInv, BackupShape
    <2>5. BackupStateOf(names)' = BackupStateOf(names)
      BY DEF BackupStateOf, Time
    <2>6. BackupShape'
      BY <1>1, <2>4, <2>5 DEF BackupInv, BackupShape
    <2> QED BY <2>1, <2>3, <2>6 DEF BackupInv
  <1>2. ASSUME NEW b \in Backup, StartBackup(b) \/ Reserve(b) \/ CopyDatabase(b) \/ CopyImages(b)
        PROVE  BackupInv'
    BY <1>2, StartBackupStep, ReserveStep, CopyDatabaseStep, CopyImagesStep
  <1>3. ASSUME NEW b \in Backup, Publish(b) \/ GiveBack(b) \/ KillBackup(b)
        PROVE  BackupInv'
    <2>1. /\ backup' = [backup EXCEPT ![b] = Idle] /\ clock' = clock
          /\ UNCHANGED <<row, files, request, used>>
          /\ lock' = lock \/ lock' = Released(b)
      BY <1>3 DEF Publish, GiveBack, KillBackup, catalog
    <2> QED BY <2>1, BackupEndsStep
  <1>4. ASSUME NEW b \in Backup, BackupFails(b)
        PROVE  BackupInv'
    BY <1>4, BackupFailsStep
  <1>5. ASSUME NEW name \in ArchiveName, Prune(name)
        PROVE  BackupInv'
    <2>1. UNCHANGED catalog /\ UNCHANGED backup /\ clock' \in Time
      BY <1>5 DEF Prune, BackupInv, BackupShape
    <2> QED BY <2>1, <1>0
  <1>6. CASE Tick
    <2>1. UNCHANGED catalog /\ UNCHANGED backup /\ clock' \in Time
      BY <1>6, BackupAssumption DEF Tick, BackupInv, BackupShape, Time
    <2> QED BY <2>1, <1>0
  <1>7. CASE UNCHANGED vars
    <2>1. UNCHANGED catalog /\ UNCHANGED backup /\ clock' \in Time
      BY <1>7 DEF vars, BackupInv, BackupShape
    <2> QED BY <2>1, <1>0
  <1> QED BY <1>1, <1>2, <1>3, <1>4, <1>5, <1>6, <1>7 DEF Next

LEMMA BackupInvariant == Spec => []BackupInv
  <1> QED BY BackupInvInit, BackupStep, PTL DEF Spec

(* Backups that start, fail and die beside the requests leave them as they were:
   every image that a row names is still there. *)
THEOREM RowsHaveFilesBesideBackups == Spec => []RowsHaveFiles
  <1>1. BackupInv => RowsHaveFiles
    BY DEF BackupInv, CatalogInv
  <1> QED BY <1>1, BackupInvariant, PTL

(* snapshot_lock makes a backup's copies consistent: from the copy of the database
   to the copy of the images, every image that the copy names is there. *)
THEOREM BackupsFindTheirImages == Spec => []CopyFindsItsImages
  <1>1. BackupInv => CopyFindsItsImages
    BY DEF BackupInv
  <1> QED BY <1>1, BackupInvariant, PTL
=============================================================================
