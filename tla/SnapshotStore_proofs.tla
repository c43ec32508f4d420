------------------------ MODULE SnapshotStore_proofs ------------------------
(***************************************************************************)
(* Theorems about SnapshotStore and SnapshotMending, for any collectors,   *)
(* any number of concurrent runs and any bound on the clock.               *)
(***************************************************************************)
EXTENDS SnapshotMending, TLAPS

---------------------------------------------------------------------------
(* Snapshots.                                                              *)

\* What the saves build are snapshots, and no snapshot is the absent one.
LEMMA SavedSnapshots ==
  ASSUME clock \in Nat
  PROVE  /\ NoSnapshot \notin Snapshot
         /\ \A s, items : items \in Items => Fresh(s, items) \in Snapshot
         /\ \A old \in Snapshot \cup {NoSnapshot}, at \in Nat : Marked(old, at) \in Snapshot
         /\ \A old \in Snapshot \cup {NoSnapshot} : ItemsIn(old) \in Items
<1>1. NoSnapshot \notin Snapshot
  BY StoreConstants DEF Snapshot, Items
<1>2. ASSUME NEW old \in Snapshot \cup {NoSnapshot}
      PROVE  ItemsIn(old) \in Items
  BY <1>1 DEF ItemsIn, Snapshot, Items
<1>3. ASSUME NEW old \in Snapshot \cup {NoSnapshot}, NEW at \in Nat
      PROVE  Marked(old, at) \in Snapshot
  BY <1>2 DEF Marked, Snapshot
<1>4. ASSUME NEW s, NEW items \in Items
      PROVE  Fresh(s, items) \in Snapshot
  BY DEF Fresh, LastFetch, Undated, Snapshot, Items
<1>5. QED
  BY <1>1, <1>2, <1>3, <1>4

\* A copy is the same as itself, and copies that are the same have the same items.
LEMMA SameCopies ==
  /\ \A s, a : Same(s, a, a)
  /\ \A s, a, b : Same(s, a, b) => ItemsIn(a) = ItemsIn(b)
BY DEF Same, ItemsIn

\* However late the memory copy is written, it says the same as the rows: only
\* its time can be a later one, and only where no item is dated.
LEMMA PendingLater ==
  ASSUME clock \in Nat, clock' \in Nat, clock <= clock', NEW s, NEW items \in Items,
         NEW held \in Snapshot \cup {NoSnapshot}, Same(s, Fresh(s, items), held)
  PROVE  Same(s, Fresh(s, items)', held)
<1>1. Fresh(s, items) # NoSnapshot /\ NoSnapshot \notin Snapshot
  BY SavedSnapshots
<1>2. Fresh(s, items)' \in Snapshot
  BY DEF Fresh, LastFetch, Undated, Snapshot, Items
<1>3. held # NoSnapshot /\ held.status = "ok" /\ held.items = items /\ held.fetched \in Nat
  BY <1>1 DEF Same, Fresh, Snapshot
<1>4. CASE Undated(s, items)
  <2>1. held.fetched <= clock
    BY <1>1, <1>3, <1>4 DEF Same, Fresh, LastFetch
  <2>2. held.fetched <= clock'
    BY <1>3, <2>1
  <2>3. Fresh(s, items)'.fetched = clock'
    BY <1>4 DEF Fresh, LastFetch, Undated
  <2>4. held.fetched = clock' \/ held.fetched < clock'
    BY <1>3, <2>2
  <2>5. QED
    BY <1>1, <1>2, <1>3, <1>4, <2>3, <2>4 DEF Same, Fresh
<1>5. CASE ~Undated(s, items)
  BY <1>1, <1>2, <1>3, <1>5 DEF Same, Fresh, LastFetch, Undated
<1>6. QED
  BY <1>4, <1>5

---------------------------------------------------------------------------
(* Type correctness.                                                       *)

\* The process has not been started: nothing is collected or stored.
LEMMA TypeInit == Init => TypeOK
BY StoreConstants DEF Init, TypeOK, Nothing, Items

\* No step of the process, of a run or of a save leaves the types.
LEMMA TypeStep == TypeOK /\ [Next]_vars => TypeOK'
<1> SUFFICES ASSUME TypeOK, [Next]_vars
             PROVE  TypeOK'
  OBVIOUS
<1> USE DEF TypeOK
<1>1. CASE Tick
  BY <1>1 DEF Tick, runVars
<1>2. CASE Start
  BY <1>2 DEF Start, Loaded, runVars
<1>3. CASE Serve
  BY <1>3 DEF Serve, runVars
<1>4. CASE Exit
  BY <1>4 DEF Exit, Nothing, Items
<1>5. ASSUME NEW r \in Run, NEW s \in Source, InitialRun(r, s) \/ Trigger(r, s)
      PROVE  TypeOK'
  BY <1>5, StoreConstants DEF InitialRun, Trigger, Begin
<1>6. ASSUME NEW r \in Run, RunStep(r)
      PROVE  TypeOK'
  <2>1. CASE Collect(r)
    BY <2>1 DEF Collect, Items
  <2>2. CASE CollectFails(r)
    BY <2>2 DEF CollectFails
  <2>3. CASE SaveItems(r)
    BY <2>3, SavedSnapshots DEF SaveItems
  <2>4. CASE SaveItemsFails(r) \/ SaveFailureFails(r)
    BY <2>4 DEF SaveItemsFails, SaveFailureFails, Return, Items
  <2>5. CASE CopyItems(r)
    <3>1. source[r] \in Source /\ Fresh(source[r], found[r]) \in Snapshot
      BY <2>5, SavedSnapshots DEF CopyItems
    <3>2. memory' \in [Source -> Snapshot \cup {NoSnapshot}]
      BY <2>5, <3>1 DEF CopyItems
    <3>3. QED
      BY <2>5, <3>2 DEF CopyItems, Return, Items
  <2>6. CASE SaveFailure(r)
    <3>1. source[r] \in Source /\ Marked(db[source[r]], failed[r]) \in Snapshot
      BY <2>6, SavedSnapshots DEF SaveFailure
    <3>2. QED
      BY <2>6, <3>1 DEF SaveFailure
  <2>7. CASE CopyFailure(r)
    <3>1. source[r] \in Source /\ Marked(memory[source[r]], failed[r]) \in Snapshot
      BY <2>7, SavedSnapshots DEF CopyFailure
    <3>2. memory' \in [Source -> Snapshot \cup {NoSnapshot}]
      BY <2>7, <3>1 DEF CopyFailure
    <3>3. QED
      BY <2>7, <3>2 DEF CopyFailure, Return, Items
  <2>8. QED
    BY <1>6, <2>1, <2>2, <2>3, <2>4, <2>5, <2>6, <2>7 DEF RunStep
<1>7. CASE UNCHANGED vars
  BY <1>7 DEF vars, runVars
<1>8. QED
  BY <1>1, <1>2, <1>3, <1>4, <1>5, <1>6, <1>7 DEF Next

\* Every reachable state of the store and its runs is well typed, whether runs
\* of one collector overlap or not.
THEOREM SnapshotsTyped == Spec => []TypeOK
BY TypeInit, TypeStep, PTL DEF Spec

---------------------------------------------------------------------------
(* Runs that do not overlap.                                               *)

\* Nothing runs and both copies are empty.
LEMMA OneRunInit == Init => StoreInv
<1> SUFFICES ASSUME Init PROVE StoreInv
  OBVIOUS
<1>1. TypeOK
  BY TypeInit
<1>2. OneRunEach /\ CopyPending /\ Persisted /\ InOrder
  BY DEF Init, Nothing, OneRunEach, CopyPending, Persisted, InOrder, ItemsIn
<1>3. QED
  BY <1>1, <1>2 DEF StoreInv

\* A run begins only for a collector that has none.
LEMMA OneRunStep ==
  ASSUME Overlap = FALSE, TypeOK, OneRunEach, [Next]_vars
  PROVE  OneRunEach'
<1> USE DEF TypeOK, OneRunEach
<1>1. CASE Tick \/ UNCHANGED vars
  BY <1>1 DEF Tick, vars, runVars
<1>2. CASE Start
  BY <1>2, StoreConstants DEF Start, runVars
<1>3. CASE Serve
  BY <1>3 DEF Serve, runVars
<1>4. CASE Exit
  BY <1>4 DEF Exit
<1>5. ASSUME NEW r \in Run, NEW s \in Source, InitialRun(r, s) \/ Trigger(r, s)
      PROVE  OneRunEach'
  <2>1. \A q \in Run : source[q] # s
    BY <1>5 DEF InitialRun, Trigger
  <2>2. source' = [source EXCEPT ![r] = s] /\ step' = [step EXCEPT ![r] = "collect"]
    BY <1>5 DEF InitialRun, Trigger, Begin
  <2>3. s \notin awaited' /\ awaited' \subseteq awaited /\ stage' = stage /\ stage # "down"
    BY <1>5 DEF InitialRun, Trigger, Begin
  <2>4. QED
    BY <2>1, <2>2, <2>3
<1>6. ASSUME NEW r \in Run, RunStep(r)
      PROVE  OneRunEach'
  <2>1. stage' = stage /\ awaited' = awaited /\ stage # "down"
    BY <1>6 DEF RunStep, Collect, CollectFails, SaveItems, SaveItemsFails, CopyItems,
                SaveFailure, SaveFailureFails, CopyFailure
  <2>2. source' = source \/ source' = [source EXCEPT ![r] = NoSource]
    BY <1>6 DEF RunStep, Collect, CollectFails, SaveItems, SaveItemsFails, CopyItems,
                SaveFailure, SaveFailureFails, CopyFailure, Return
  <2>3. NoSource \notin awaited
    BY StoreConstants
  <2>4. QED
    BY <2>1, <2>2, <2>3
<1>7. QED
  BY <1>1, <1>2, <1>3, <1>4, <1>5, <1>6 DEF Next

\* The two copies, step by step.
LEMMA CopiesStep ==
  ASSUME TypeOK, TypeOK', OneRunEach, CopyPending, Persisted, [Next]_vars
  PROVE  CopyPending' /\ Persisted'
<1> USE DEF TypeOK, Copying, CopyingFor
<1>1. CASE Tick \/ UNCHANGED vars
  <2>1. UNCHANGED <<stage, step, source, found, failed, db, memory>>
    BY <1>1 DEF Tick, vars, runVars
  <2>2. Persisted'
    BY <2>1 DEF Persisted, Same
  <2>3. CopyPending'
    <3> SUFFICES ASSUME NEW q \in Run
                 PROVE  /\ step[q] = "copy" => Same(source[q], Fresh(source[q], found[q])', db[source[q]])
                        /\ step[q] = "copyFailure" =>
                             Same(source[q], Marked(memory[source[q]], failed[q]), db[source[q]])
      BY <2>1 DEF CopyPending, Marked, ItemsIn, Fresh, LastFetch
    <3>1. step[q] = "copy" => Same(source[q], Fresh(source[q], found[q]), db[source[q]])
      BY DEF CopyPending
    <3>2. step[q] = "copy" => Same(source[q], Fresh(source[q], found[q])', db[source[q]])
      <4>1. clock' \in {clock, clock + 1}
        BY <1>1 DEF Tick, vars
      <4>2. clock' \in Nat /\ clock <= clock'
        BY <4>1
      <4>3. ASSUME step[q] = "copy"
            PROVE  Same(source[q], Fresh(source[q], found[q])', db[source[q]])
        <5>1. source[q] \in Source /\ db[source[q]] \in Snapshot \cup {NoSnapshot}
          BY <4>3
        <5>2. found[q] \in Items /\ Same(source[q], Fresh(source[q], found[q]), db[source[q]])
          BY <3>1, <4>3
        <5>3. QED
          BY <2>1, <4>2, <5>1, <5>2, PendingLater
      <4>4. QED
        BY <4>3
    <3>3. QED
      BY <3>2 DEF CopyPending
  <2>4. QED
    BY <2>2, <2>3
<1>2. CASE Start
  <2>1. memory' = db /\ db' = db /\ \A r \in Run : step'[r] = "idle"
    BY <1>2 DEF Start, Loaded, runVars, OneRunEach
  <2>2. QED
    BY <2>1, SameCopies DEF Persisted, CopyPending
<1>3. CASE Serve
  BY <1>3 DEF Serve, runVars, Persisted, CopyPending, Fresh, LastFetch
<1>4. CASE Exit
  BY <1>4 DEF Exit, Persisted, CopyPending
<1>5. ASSUME NEW r \in Run, NEW s \in Source, InitialRun(r, s) \/ Trigger(r, s)
      PROVE  CopyPending' /\ Persisted'
  <2>1. /\ step[r] = "idle" /\ UNCHANGED <<clock, stage, found, failed, db, memory>>
        /\ source' = [source EXCEPT ![r] = s] /\ step' = [step EXCEPT ![r] = "collect"]
    BY <1>5 DEF InitialRun, Trigger, Begin
  <2>2. \A x \in Source : CopyingFor(x)' = CopyingFor(x)
    BY <2>1
  <2>3. Persisted'
    BY <2>1, <2>2 DEF Persisted
  <2>4. CopyPending'
    BY <2>1 DEF CopyPending, Fresh, LastFetch
  <2>5. QED
    BY <2>3, <2>4
<1>6. ASSUME NEW r \in Run,
             Collect(r) \/ CollectFails(r) \/ SaveItemsFails(r) \/ SaveFailureFails(r)
      PROVE  CopyPending' /\ Persisted'
  <2>1. ~Copying(r) /\ ~Copying(r)' /\ UNCHANGED <<clock, stage, db, memory>>
    BY <1>6 DEF Collect, CollectFails, SaveItemsFails, SaveFailureFails, Return
  <2>2. \A q \in Run \ {r} : /\ step'[q] = step[q] /\ source'[q] = source[q]
                             /\ found'[q] = found[q] /\ failed'[q] = failed[q]
    BY <1>6 DEF Collect, CollectFails, SaveItemsFails, SaveFailureFails, Return
  <2>3. \A x \in Source : CopyingFor(x)' = CopyingFor(x)
    BY <2>1, <2>2
  <2>4. Persisted'
    BY <2>1, <2>3 DEF Persisted
  <2>5. CopyPending'
    BY <2>1, <2>2 DEF CopyPending, Fresh, LastFetch
  <2>6. QED
    BY <2>4, <2>5
<1>7. ASSUME NEW r \in Run, SaveItems(r) \/ SaveFailure(r)
      PROVE  CopyPending' /\ Persisted'
  <2> DEFINE s == source[r]
             new == IF step[r] = "save" THEN Fresh(source[r], found[r]) ELSE Marked(db[s], failed[r])
  <2>1. /\ step[r] \in {"save", "fail"} /\ s \in Source
        /\ UNCHANGED <<clock, stage, source, found, failed, memory>>
        /\ step' = [step EXCEPT ![r] = IF step[r] = "save" THEN "copy" ELSE "copyFailure"]
        /\ db' = [db EXCEPT ![s] = new]
    BY <1>7 DEF SaveItems, SaveFailure
  <2>2. stage # "down" /\ CopyingFor(s) = {}
    BY <2>1, StoreConstants DEF OneRunEach
  <2>3. Same(s, memory[s], db[s])
    BY <2>1, <2>2 DEF Persisted
  <2>4. new \in Snapshot /\ Same(s, new, new)
    BY <2>1, SavedSnapshots, SameCopies
  <2>5. Same(s, Marked(memory[s], failed[r]), Marked(db[s], failed[r]))
    <3>1. ItemsIn(memory[s]) = ItemsIn(db[s])
      BY <2>3, SameCopies
    <3>2. Marked(memory[s], failed[r]) = Marked(db[s], failed[r])
      BY <3>1 DEF Marked
    <3>3. Marked(db[s], failed[r]) \in Snapshot
      BY <2>1, SavedSnapshots
    <3>4. QED
      BY <3>2, <3>3, SameCopies
  <2>6. Persisted'
    <3> SUFFICES ASSUME NEW x \in Source, stage' # "down", CopyingFor(x)' = {}
                 PROVE  Same(x, memory'[x], db'[x])
      BY DEF Persisted
    <3>1. x # s
      BY <2>1
    <3>2. CopyingFor(x) = {} /\ db'[x] = db[x] /\ memory'[x] = memory[x] /\ stage # "down"
      BY <2>1, <2>2, <3>1
    <3>3. QED
      BY <3>2 DEF Persisted
  <2>7. CopyPending'
    <3> SUFFICES ASSUME NEW q \in Run
                 PROVE  /\ step'[q] = "copy" => Same(source'[q], Fresh(source[q], found[q])', db'[source'[q]])
                        /\ step'[q] = "copyFailure" =>
                             Same(source'[q], Marked(memory'[source'[q]], failed'[q]), db'[source'[q]])
      BY DEF CopyPending, Marked, ItemsIn, Fresh, LastFetch
    <3>1. CASE q = r
      <4>1. db'[s] = new /\ source'[r] = s
        BY <2>1
      <4>2. CASE step[r] = "save"
        BY <2>1, <2>4, <3>1, <4>1, <4>2 DEF Fresh, LastFetch
      <4>3. CASE step[r] = "fail"
        BY <2>1, <2>5, <3>1, <4>1, <4>3 DEF Fresh, LastFetch
      <4>4. QED
        BY <2>1, <4>2, <4>3
    <3>2. CASE q # r /\ Copying(q)
      <4>1. source[q] # s
        BY <2>2, <3>2
      <4>2. QED
        BY <2>1, <3>2, <4>1 DEF CopyPending, Fresh, LastFetch
    <3>3. CASE q # r /\ ~Copying(q)
      BY <2>1, <3>3
    <3>4. QED
      BY <3>1, <3>2, <3>3
  <2>8. QED
    BY <2>6, <2>7
<1>8. ASSUME NEW r \in Run, CopyItems(r) \/ CopyFailure(r)
      PROVE  CopyPending' /\ Persisted'
  <2> DEFINE s == source[r]
             new == IF step[r] = "copy" THEN Fresh(source[r], found[r]) ELSE Marked(memory[s], failed[r])
  <2>1. /\ step[r] \in {"copy", "copyFailure"} /\ s \in Source
        /\ UNCHANGED <<clock, stage, db>> /\ Return(r)
        /\ memory' = [memory EXCEPT ![s] = new]
    BY <1>8 DEF CopyItems, CopyFailure
  <2>2. Same(s, new, db[s])
    BY <2>1 DEF CopyPending
  <2>3. \A q \in Run \ {r} : source[q] # s
    BY <2>1, StoreConstants DEF OneRunEach
  <2>4. Persisted'
    <3> SUFFICES ASSUME NEW x \in Source, stage' # "down", CopyingFor(x)' = {}
                 PROVE  Same(x, memory'[x], db'[x])
      BY DEF Persisted
    <3>1. CASE x = s
      BY <2>1, <2>2, <3>1
    <3>2. CASE x # s
      <4>1. CopyingFor(x) = {} /\ memory'[x] = memory[x]
        BY <2>1, <3>2 DEF Return
      <4>2. QED
        BY <2>1, <4>1 DEF Persisted
    <3>3. QED
      BY <3>1, <3>2
  <2>5. CopyPending'
    <3> SUFFICES ASSUME NEW q \in Run
                 PROVE  /\ step'[q] = "copy" => Same(source'[q], Fresh(source[q], found[q])', db'[source'[q]])
                        /\ step'[q] = "copyFailure" =>
                             Same(source'[q], Marked(memory'[source'[q]], failed'[q]), db'[source'[q]])
      BY DEF CopyPending, Marked, ItemsIn, Fresh, LastFetch
    <3>1. CASE q = r
      BY <2>1, <3>1 DEF Return
    <3>2. CASE q # r /\ Copying(q)
      <4>1. memory'[source[q]] = memory[source[q]]
        BY <2>1, <2>3, <3>2
      <4>2. QED
        BY <2>1, <3>2, <4>1 DEF CopyPending, Return, Fresh, LastFetch
    <3>3. CASE q # r /\ ~Copying(q)
      BY <2>1, <3>3 DEF Return
    <3>4. QED
      BY <3>1, <3>2, <3>3
  <2>6. QED
    BY <2>4, <2>5
<1>9. QED
  BY <1>1, <1>2, <1>3, <1>4, <1>5, <1>6, <1>7, <1>8 DEF Next, RunStep

\* A success brings its items, a failure keeps those that are there.
LEMMA SavedItems ==
  ASSUME clock \in Nat
  PROVE  /\ \A s, items : items \in Items => ItemsIn(Fresh(s, items)) = items
         /\ \A old \in Snapshot \cup {NoSnapshot}, at \in Nat :
              ItemsIn(Marked(old, at)) = ItemsIn(old)
<1>1. ASSUME NEW s, NEW items \in Items
      PROVE  ItemsIn(Fresh(s, items)) = items
  <2>1. Fresh(s, items) # NoSnapshot
    BY SavedSnapshots
  <2>2. QED
    BY <2>1 DEF ItemsIn, Fresh
<1>2. ASSUME NEW old \in Snapshot \cup {NoSnapshot}, NEW at \in Nat
      PROVE  ItemsIn(Marked(old, at)) = ItemsIn(old)
  <2>1. Marked(old, at) # NoSnapshot
    BY SavedSnapshots
  <2>2. Marked(old, at).items = ItemsIn(old)
    BY DEF Marked
  <2>3. QED
    BY <2>1, <2>2 DEF ItemsIn
<1>3. QED
  BY <1>1, <1>2

\* Time does not run backwards through the two copies.
LEMMA InOrderStep ==
  ASSUME TypeOK, TypeOK', OneRunEach, InOrder, [Next]_vars
  PROVE  InOrder'
<1> USE DEF TypeOK, Latest!NotOlder
<1> DEFINE Held(s) == {ItemsIn(db[s]), ItemsIn(memory[s])}
<1>0. /\ \A s \in Source : Held(s) \subseteq Items
      /\ \A s \in Source : \A items \in Held(s) : items # NoItems => items <= clock
  BY SavedSnapshots DEF InOrder
<1>1. CASE Tick \/ Serve \/ UNCHANGED vars
  <2>1. /\ UNCHANGED <<step, source, found, db, memory>>
        /\ clock' \in {clock, clock + 1}
    BY <1>1 DEF Tick, Serve, vars, runVars
  <2>2. \A s \in Source : UNCHANGED <<ItemsIn(db[s]), ItemsIn(memory[s])>>
    BY <2>1 DEF ItemsIn
  <2>3. ASSUME NEW s \in Source, NEW items \in Held(s)', items # NoItems
        PROVE  items <= clock'
    <3>1. items \in Held(s)
      BY <2>2
    <3>2. items \in Nat /\ items <= clock
      BY <1>0, <2>3, <3>1 DEF Items
    <3>3. QED
      BY <2>1, <3>2
  <2>4. ASSUME NEW r \in Run, step[r] \in {"save", "copy"}, found[r] # NoItems
        PROVE  found[r] <= clock'
    BY <2>1, <2>4 DEF InOrder, Items
  <2>5. QED
    BY <2>1, <2>2, <2>3, <2>4, StoreConstants DEF InOrder, ItemsIn
<1>2. CASE Start \/ Exit
  <2>1. \A r \in Run : step'[r] = "idle"
    BY <1>2 DEF Start, Exit, runVars, OneRunEach
  <2>2. db' = db /\ clock' = clock /\ (memory' = db \/ memory' = Nothing)
    BY <1>2 DEF Start, Exit, Loaded
  <2>3. \A s \in Source : Held(s)' \subseteq Held(s) \cup {NoItems}
    BY <2>2 DEF ItemsIn, Nothing
  <2>4. QED
    BY <1>0, <2>1, <2>2, <2>3 DEF InOrder
<1>3. ASSUME NEW r \in Run, NEW s \in Source, InitialRun(r, s) \/ Trigger(r, s)
      PROVE  InOrder'
  BY <1>3 DEF InitialRun, Trigger, Begin, InOrder, ItemsIn
<1>4. ASSUME NEW r \in Run,
             CollectFails(r) \/ SaveItemsFails(r) \/ SaveFailureFails(r)
      PROVE  InOrder'
  BY <1>4 DEF CollectFails, SaveItemsFails, SaveFailureFails, Return, InOrder, ItemsIn
<1>5. ASSUME NEW r \in Run, Collect(r)
      PROVE  InOrder'
  <2>1. /\ step' = [step EXCEPT ![r] = "save"] /\ UNCHANGED <<clock, source, db, memory>>
        /\ found'[r] \in {clock, NoItems} /\ \A q \in Run \ {r} : found'[q] = found[q]
        /\ source[r] \in Source
    BY <1>5 DEF Collect
  <2>2. \A s \in Source : UNCHANGED <<ItemsIn(db[s]), ItemsIn(memory[s])>>
    BY <2>1 DEF ItemsIn
  <2>3. QED
    BY <1>0, <2>1, <2>2 DEF InOrder, Items
<1>6. ASSUME NEW r \in Run,
             SaveItems(r) \/ CopyItems(r) \/ SaveFailure(r) \/ CopyFailure(r)
      PROVE  InOrder'
  <2>1. PICK s \in Source : s = source[r] /\ clock' = clock
    BY <1>6 DEF SaveItems, CopyItems, SaveFailure, CopyFailure
  <2>2. \A x \in Source \ {s} : UNCHANGED <<ItemsIn(db[x]), ItemsIn(memory[x])>>
    <3>1. \A x \in Source \ {s} : db'[x] = db[x] /\ memory'[x] = memory[x]
      BY <1>6, <2>1 DEF SaveItems, CopyItems, SaveFailure, CopyFailure
    <3>2. QED
      BY <3>1 DEF ItemsIn
  <2>3. \A q \in Run \ {r} : /\ source[q] # s /\ step'[q] = step[q]
                             /\ source'[q] = source[q] /\ found'[q] = found[q]
    BY <1>6, <2>1, StoreConstants
       DEF OneRunEach, SaveItems, CopyItems, SaveFailure, CopyFailure, Return
  <2>4. CASE SaveItems(r) \/ CopyItems(r)
    <3>1. step[r] \in {"save", "copy"}
      BY <2>4 DEF SaveItems, CopyItems
    <3>2. \A items \in Held(s)' : items \in Held(s) \/ items = found[r]
      <4>1. /\ db'[s] = db[s] \/ db'[s] = Fresh(source[r], found[r])
            /\ memory'[s] = memory[s] \/ memory'[s] = Fresh(source[r], found[r])
        BY <2>1, <2>4 DEF SaveItems, CopyItems
      <4>2. /\ ItemsIn(db'[s]) \in {ItemsIn(db[s]), found[r]}
            /\ ItemsIn(memory'[s]) \in {ItemsIn(memory[s]), found[r]}
        BY <4>1, SavedItems
      <4>3. QED
        BY <4>2
    <3>3. found[r] # NoItems => found[r] <= clock /\ found[r] \in Nat
      BY <3>1 DEF InOrder, Items
    <3>4. \A items \in Held(s) : Latest!NotOlder(found[r], items)
      BY <2>1, <3>1 DEF InOrder
    <3>5. \A items \in Held(s)' : Latest!NotOlder(found[r], items)
      BY <3>2, <3>3, <3>4
    <3>6. step'[r] \in {"save", "copy"} => found'[r] = found[r] /\ source'[r] = s
      BY <2>1, <2>4 DEF SaveItems, CopyItems, Return
    <3>7. ASSUME NEW x \in Source, NEW items \in Held(x)', items # NoItems
          PROVE  items <= clock'
      BY <1>0, <2>1, <2>2, <3>2, <3>3, <3>7
    <3>8. ASSUME NEW q \in Run, step'[q] \in {"save", "copy"}, found'[q] # NoItems,
                 NEW x \in Source, x = source'[q]
          PROVE  /\ found'[q] <= clock'
                 /\ \A items \in Held(x)' : Latest!NotOlder(found'[q], items)
      <4>1. CASE q = r
        BY <2>1, <3>1, <3>3, <3>5, <3>6, <3>8, <4>1
      <4>2. CASE q # r
        <5>1. source[q] \in Source \ {s} /\ step[q] = step'[q] /\ found[q] = found'[q]
          BY <2>3, <3>8, <4>2
        <5>2. x = source[q] /\ Held(x)' = Held(x)
          BY <2>2, <2>3, <3>8, <4>2, <5>1
        <5>3. found[q] <= clock /\ \A items \in Held(x) : Latest!NotOlder(found[q], items)
          BY <3>8, <5>1, <5>2 DEF InOrder
        <5>4. QED
          BY <2>1, <5>1, <5>2, <5>3
      <4>3. QED
        BY <4>1, <4>2
    <3>9. \A q \in Run : step'[q] \in {"save", "copy"} => source'[q] \in Source
      BY <2>1, <2>3, <3>1, <3>6
    <3>10. QED
      BY <3>7, <3>8, <3>9 DEF InOrder
  <2>5. CASE SaveFailure(r) \/ CopyFailure(r)
    <3>1. UNCHANGED <<ItemsIn(db[s]), ItemsIn(memory[s])>>
      <4>1. /\ db'[s] = db[s] \/ db'[s] = Marked(db[s], failed[r])
            /\ memory'[s] = memory[s] \/ memory'[s] = Marked(memory[s], failed[r])
        BY <2>1, <2>5 DEF SaveFailure, CopyFailure
      <4>2. QED
        BY <4>1, SavedItems
    <3>2. step'[r] \notin {"save", "copy"}
      BY <2>5 DEF SaveFailure, CopyFailure, Return
    <3>3. \A x \in Source : UNCHANGED <<ItemsIn(db[x]), ItemsIn(memory[x])>>
      BY <2>2, <3>1
    <3>4. QED
      BY <1>0, <2>1, <2>3, <3>2, <3>3 DEF InOrder
  <2>6. QED
    BY <1>6, <2>4, <2>5
<1>7. QED
  BY <1>1, <1>2, <1>3, <1>4, <1>5, <1>6 DEF Next, RunStep

\* The invariant is inductive while runs of one collector do not overlap.
LEMMA StoreStep ==
  ASSUME Overlap = FALSE, StoreInv, [Next]_vars
  PROVE  StoreInv'
<1> USE DEF StoreInv
<1>1. TypeOK'
  BY TypeStep
<1>2. OneRunEach'
  BY OneRunStep
<1>3. CopyPending' /\ Persisted'
  BY <1>1, CopiesStep
<1>4. InOrder'
  BY <1>1, InOrderStep
<1>5. QED
  BY <1>1, <1>2, <1>3, <1>4

\* While the runs of a collector do not overlap, the invariant holds.
THEOREM StoreInvHolds ==
  ASSUME Overlap = FALSE
  PROVE  Spec => []StoreInv
BY OneRunInit, StoreStep, PTL DEF Spec

\* While the runs of a collector do not overlap, the two copies of a snapshot
\* say the same whenever no run stands between its two writes: the same status,
\* items and time, but that a success without a dated item may be served with a
\* later second than is persisted.
THEOREM CopiesPersisted ==
  ASSUME Overlap = FALSE
  PROVE  Spec => []Persisted
<1>1. StoreInv => Persisted
  BY DEF StoreInv
<1>2. QED
  BY <1>1, StoreInvHolds, PTL

---------------------------------------------------------------------------
(* The refinement of LatestSnapshot.                                       *)

\* One step, seen at one source.
LEMMA ShownStep ==
  ASSUME StoreInv, StoreInv', [Next]_vars, NEW s \in Source,
         NEW old, old = Shown(s), NEW new, new = Shown(s)'
  PROVE  \/ new = old
         \/ /\ new # NoSnapshot /\ new.status = "ok"
            /\ Latest!NotOlder(new.items, ItemsIn(old))
         \/ /\ new # NoSnapshot /\ new.status = "error"
            /\ new.items = ItemsIn(old)
<1> USE DEF StoreInv, TypeOK, Latest!NotOlder
<1>0. /\ db[s] \in Snapshot \cup {NoSnapshot} /\ memory[s] \in Snapshot \cup {NoSnapshot}
      /\ NoSnapshot \notin Snapshot
      /\ ItemsIn(db[s]) \in Items /\ ItemsIn(memory[s]) \in Items
  BY SavedSnapshots
<1>1. CASE Exit
  <2>1. old = memory[s] /\ new = db[s]
    BY <1>1 DEF Exit, Shown
  <2>2. CASE CopyingFor(s) = {}
    <3>1. Same(s, memory[s], db[s])
      BY <1>1, <2>2 DEF Exit, Persisted
    <3>2. QED
      BY <1>0, <2>1, <3>1 DEF Same, ItemsIn, Snapshot, Items
  <2>3. ASSUME NEW r \in Run, source[r] = s, step[r] = "copy"
        PROVE  /\ db[s] # NoSnapshot /\ db[s].status = "ok"
               /\ Latest!NotOlder(db[s].items, ItemsIn(memory[s]))
    <3>1. Same(s, Fresh(s, found[r]), db[s]) /\ Fresh(s, found[r]) # NoSnapshot
      BY <2>3, SavedSnapshots DEF CopyPending
    <3>2. db[s] # NoSnapshot /\ db[s].status = "ok" /\ db[s].items = found[r]
      BY <3>1 DEF Same, Fresh
    <3>3. found[r] # NoItems => Latest!NotOlder(found[r], ItemsIn(memory[s]))
      BY <2>3 DEF InOrder
    <3>4. QED
      BY <3>2, <3>3
  <2>4. ASSUME NEW r \in Run, source[r] = s, step[r] = "copyFailure"
        PROVE  db[s] # NoSnapshot /\ db[s].status = "error" /\ db[s].items = ItemsIn(memory[s])
    <3>1. Same(s, Marked(memory[s], failed[r]), db[s])
      BY <2>4 DEF CopyPending
    <3>2. Marked(memory[s], failed[r]) # NoSnapshot
      BY <1>0, SavedSnapshots
    <3>3. QED
      BY <3>1, <3>2 DEF Same, Marked
  <2>5. QED
    BY <2>1, <2>2, <2>3, <2>4 DEF CopyingFor, Copying
<1>2. ASSUME NEW r \in Run, CopyItems(r)
      PROVE  \/ new = old
             \/ /\ new # NoSnapshot /\ new.status = "ok"
                /\ Latest!NotOlder(new.items, ItemsIn(old))
  <2>1. old = memory[s] /\ new = memory'[s] /\ step[r] = "copy"
    BY <1>2 DEF CopyItems, Shown, OneRunEach
  <2>2. CASE source[r] = s
    <3>1. new = Fresh(source[r], found[r]) /\ Fresh(source[r], found[r]) # NoSnapshot
      BY <1>2, <2>1, <2>2, SavedSnapshots DEF CopyItems
    <3>2. found[r] # NoItems => Latest!NotOlder(found[r], ItemsIn(memory[s]))
      BY <2>1, <2>2 DEF InOrder
    <3>3. new.status = "ok" /\ new.items = found[r]
      BY <3>1 DEF Fresh
    <3>4. QED
      BY <2>1, <3>1, <3>2, <3>3
  <2>3. CASE source[r] # s
    BY <1>2, <2>1, <2>3 DEF CopyItems
  <2>4. QED
    BY <2>2, <2>3
<1>3. ASSUME NEW r \in Run, CopyFailure(r)
      PROVE  \/ new = old
             \/ /\ new # NoSnapshot /\ new.status = "error"
                /\ new.items = ItemsIn(old)
  <2>1. old = memory[s] /\ new = memory'[s] /\ step[r] = "copyFailure"
    BY <1>3 DEF CopyFailure, Shown, OneRunEach
  <2>2. CASE source[r] = s
    <3>1. new = Marked(memory[s], failed[r])
      BY <1>3, <2>1, <2>2 DEF CopyFailure
    <3>2. Marked(memory[s], failed[r]) # NoSnapshot
      BY <1>0, SavedSnapshots
    <3>3. QED
      BY <2>1, <3>1, <3>2 DEF Marked
  <2>3. CASE source[r] # s
    BY <1>3, <2>1, <2>3 DEF CopyFailure
  <2>4. QED
    BY <2>2, <2>3
<1>4. CASE Start
  BY <1>4 DEF Start, Loaded, Shown
<1>5. CASE Tick \/ Serve \/ UNCHANGED vars
  BY <1>5 DEF Tick, Serve, Shown, vars, runVars
<1>6. ASSUME NEW r \in Run, NEW x \in Source, InitialRun(r, x) \/ Trigger(r, x)
      PROVE  new = old
  BY <1>6 DEF InitialRun, Trigger, Begin, Shown
<1>7. ASSUME NEW r \in Run,
             \/ Collect(r) \/ CollectFails(r) \/ SaveItems(r) \/ SaveItemsFails(r)
             \/ SaveFailure(r) \/ SaveFailureFails(r)
      PROVE  new = old
  <2>1. stage # "down" /\ stage' = stage /\ memory' = memory
    BY <1>7 DEF OneRunEach, Collect, CollectFails, SaveItems, SaveItemsFails,
                SaveFailure, SaveFailureFails
  <2>2. QED
    BY <2>1 DEF Shown
<1>8. QED
  BY <1>1, <1>2, <1>3, <1>4, <1>5, <1>6, <1>7 DEF Next, RunStep

\* While the runs of a collector do not overlap, the store implements
\* LatestSnapshot: whatever fails, and wherever the process ends, each source
\* shows its latest items or newer ones.
THEOREM ImplementsLatest ==
  ASSUME Overlap = FALSE
  PROVE  Spec => KeepsLatest
<1>1. Init => Latest!Init
  BY DEF Init, Nothing, Latest!Init, Shown
<1>2. ASSUME StoreInv, StoreInv', [Next]_vars
      PROVE  [Latest!Next]_([s \in Source |-> Shown(s)])
  <2>1. ASSUME NEW s \in Source
        PROVE  \/ Shown(s)' = Shown(s)
               \/ /\ Shown(s)' # NoSnapshot /\ Shown(s)'.status = "ok"
                  /\ Latest!NotOlder(Shown(s)'.items, ItemsIn(Shown(s)))
               \/ /\ Shown(s)' # NoSnapshot /\ Shown(s)'.status = "error"
                  /\ Shown(s)'.items = ItemsIn(Shown(s))
    BY <1>2, ShownStep
  <2>2. QED
    BY <2>1 DEF Latest!Next, Latest!Replace, Latest!Mark, Latest!ItemsOf, ItemsIn
<1>3. QED
  BY <1>1, <1>2, StoreInvHolds, PTL DEF Spec, KeepsLatest, Latest!Spec

---------------------------------------------------------------------------
(* Runs that may overlap.                                                  *)

\* At first no run is disturbed and no source split.
LEMMA WatchStarts == WatchInit => WatchInv
<1> SUFFICES ASSUME WatchInit PROVE WatchInv
  OBVIOUS
<1>1. TypeOK
  BY TypeInit DEF WatchInit
<1>2. stage = "down" /\ disturbed = {} /\ split = {} /\ \A r \in Run : step[r] = "idle"
  BY DEF WatchInit, Init
<1>3. QED
  BY <1>1, <1>2 DEF WatchInv, Mended, Copying, CopyingFor

\* Every step of the watched store is one of the store.
LEMMA WatchedIsStore == [WatchNext]_<<vars, watchVars>> => [Next]_vars
BY DEF WatchNext, WatchStart, WatchExit, WatchCommit, WatchCopyItems, WatchCopyFailure,
       Elsewhere, Next, RunStep

\* The invariant for overlapping runs is inductive.
LEMMA WatchStep ==
  ASSUME WatchInv, [WatchNext]_<<vars, watchVars>>
  PROVE  WatchInv'
<1> USE DEF WatchInv, TypeOK, Copying, CopyingFor, Beside
<1>0. TypeOK'
  BY TypeStep, WatchedIsStore
<1>1. SUFFICES
        /\ Mended'
        /\ disturbed' \subseteq {r \in Run : Copying(r)' /\ source'[r] \in split'}
        /\ split' \subseteq Source
        /\ stage' = "down" => \A r \in Run : step'[r] = "idle"
        /\ \A r \in Run : Copying(r)' /\ Beside(r)' # {} => r \in disturbed'
        /\ \A q \in Run \ disturbed' :
             /\ step'[q] = "copy" => Same(source'[q], Fresh(source[q], found[q])', db'[source'[q]])
             /\ step'[q] = "copyFailure" /\ source'[q] \notin split' =>
                  Same(source'[q], Marked(memory'[source'[q]], failed'[q]), db'[source'[q]])
  BY <1>0 DEF Marked, ItemsIn
<1>2. CASE ((Tick \/ Serve) /\ UNCHANGED watchVars) \/ UNCHANGED <<vars, watchVars>>
  <2>1. /\ UNCHANGED <<step, source, found, failed, db, memory, disturbed, split>>
        /\ stage # "down" <=> stage' # "down"
    BY <1>2 DEF Tick, Serve, vars, runVars, watchVars
  <2>2. \A q \in Run \ disturbed' :
          /\ step'[q] = "copy" => Same(source'[q], Fresh(source[q], found[q])', db'[source'[q]])
          /\ step'[q] = "copyFailure" /\ source'[q] \notin split' =>
               Same(source'[q], Marked(memory'[source'[q]], failed'[q]), db'[source'[q]])
    <3>1. clock' \in {clock, clock + 1}
      BY <1>2 DEF Tick, Serve, vars
    <3>2. clock' \in Nat /\ clock <= clock'
      BY <3>1
    <3> SUFFICES ASSUME NEW q \in Run \ disturbed, step[q] = "copy"
                 PROVE  Same(source[q], Fresh(source[q], found[q])', db[source[q]])
      BY <2>1
    <3>3. source[q] \in Source /\ found[q] \in Items
      OBVIOUS
    <3>4. /\ db[source[q]] \in Snapshot \cup {NoSnapshot}
          /\ Same(source[q], Fresh(source[q], found[q]), db[source[q]])
      BY <3>3
    <3>5. QED
      BY <2>1, <3>2, <3>3, <3>4, PendingLater
  <2>3. Mended'
    BY <2>1 DEF Mended
  <2>4. QED
    BY <2>1, <2>2, <2>3
<1>3. CASE WatchStart
  <2>1. /\ \A r \in Run : step'[r] = "idle"
        /\ disturbed' = {} /\ split' = {} /\ db' = db /\ memory' = db
    BY <1>3 DEF WatchStart, Start, Loaded, runVars
  <2>2. QED
    BY <2>1, SameCopies DEF Mended
<1>4. CASE WatchExit
  <2>1. /\ \A r \in Run : step'[r] = "idle"
        /\ disturbed' = {} /\ split' = split /\ stage' = "down"
    BY <1>4 DEF WatchExit, Exit
  <2>2. QED
    BY <2>1 DEF Mended
<1>5. ASSUME NEW r \in Run, UNCHANGED watchVars,
             \/ Collect(r) \/ CollectFails(r) \/ SaveItemsFails(r) \/ SaveFailureFails(r)
             \/ \E s \in Source : InitialRun(r, s) \/ Trigger(r, s)
      PROVE  WatchInv'
  <2>1. /\ ~Copying(r) /\ ~Copying(r)' /\ UNCHANGED <<clock, db, memory, disturbed, split>>
        /\ stage' = stage /\ stage # "down"
    BY <1>5 DEF Collect, CollectFails, SaveItemsFails, SaveFailureFails, InitialRun, Trigger,
                Begin, Return, watchVars
  <2>2. \A q \in Run \ {r} : /\ step'[q] = step[q] /\ source'[q] = source[q]
                             /\ found'[q] = found[q] /\ failed'[q] = failed[q]
    BY <1>5 DEF Collect, CollectFails, SaveItemsFails, SaveFailureFails, InitialRun, Trigger,
                Begin, Return
  <2>3. \A x \in Source : CopyingFor(x)' = CopyingFor(x)
    BY <2>1, <2>2
  <2>4. Mended'
    BY <2>1, <2>3 DEF Mended
  <2>5. disturbed' \subseteq {q \in Run : Copying(q)' /\ source'[q] \in split'}
    BY <2>1, <2>2
  <2>6. \A q \in Run : Copying(q)' /\ Beside(q)' # {} => q \in disturbed'
    <3> SUFFICES ASSUME NEW q \in Run, Copying(q)', Beside(q)' # {}
                 PROVE  q \in disturbed
      BY <2>1
    <3>1. q # r
      BY <2>1
    <3>2. QED
      BY <2>1, <2>2, <3>1
  <2>7. \A q \in Run \ disturbed' :
          /\ step'[q] = "copy" => Same(source'[q], Fresh(source[q], found[q])', db'[source'[q]])
          /\ step'[q] = "copyFailure" /\ source'[q] \notin split' =>
               Same(source'[q], Marked(memory'[source'[q]], failed'[q]), db'[source'[q]])
    BY <2>1, <2>2 DEF Fresh, LastFetch
  <2>8. QED
    BY <1>0, <1>1, <2>1, <2>4, <2>5, <2>6, <2>7
<1>6. ASSUME NEW r \in Run, WatchCommit(r)
      PROVE  WatchInv'
  <2>1. PICK s \in Source : s = source[r] /\ step[r] \in {"save", "fail"}
    BY <1>6 DEF WatchCommit, SaveItems, SaveFailure
  <2> DEFINE new == IF step[r] = "save" THEN Fresh(source[r], found[r]) ELSE Marked(db[s], failed[r])
             others == CopyingFor(s)
  <2>2. /\ UNCHANGED <<clock, stage, source, found, failed, memory>> /\ stage # "down"
        /\ step' = [step EXCEPT ![r] = IF step[r] = "save" THEN "copy" ELSE "copyFailure"]
        /\ db' = [db EXCEPT ![s] = new]
    BY <1>6, <2>1 DEF WatchCommit, SaveItems, SaveFailure
  <2>3. /\ disturbed' = IF others = {} THEN disturbed ELSE disturbed \cup others \cup {r}
        /\ split' = IF others = {} THEN split ELSE split \cup {s}
    <3>1. Beside(r) = others
      BY <2>1
    <3>2. QED
      BY <1>6, <2>1, <3>1 DEF WatchCommit
  <2>4. Mended'
    <3> SUFFICES ASSUME NEW x \in Source \ split', CopyingFor(x)' = {}
                 PROVE  Same(x, memory'[x], db'[x])
      BY DEF Mended
    <3>1. x # s /\ x \notin split
      BY <2>1, <2>2, <2>3
    <3>2. CopyingFor(x) = {} /\ db'[x] = db[x] /\ memory'[x] = memory[x]
      BY <2>1, <2>2, <3>1
    <3>3. QED
      BY <2>2, <3>1, <3>2 DEF Mended
  <2>5. disturbed' \subseteq {q \in Run : Copying(q)' /\ source'[q] \in split'}
    BY <2>1, <2>2, <2>3
  <2>6. \A q \in Run : Copying(q)' /\ Beside(q)' # {} => q \in disturbed'
    <3> SUFFICES ASSUME NEW q \in Run, Copying(q)',
                        NEW p \in Run \ {q}, Copying(p)', source[p] = source[q]
                 PROVE  q \in disturbed'
      BY <2>2
    <3>1. CASE q = r \/ p = r
      <4>1. others # {} /\ q \in others \cup {r}
        BY <2>1, <2>2, <3>1
      <4>2. QED
        BY <2>3, <4>1
    <3>2. CASE q # r /\ p # r
      <4>1. Copying(q) /\ Copying(p)
        BY <2>2, <3>2
      <4>2. QED
        BY <2>3, <4>1
    <3>3. QED
      BY <3>1, <3>2
  <2>7. ASSUME NEW q \in Run \ disturbed'
        PROVE  /\ step'[q] = "copy" => Same(source'[q], Fresh(source[q], found[q])', db'[source'[q]])
               /\ step'[q] = "copyFailure" /\ source'[q] \notin split' =>
                    Same(source'[q], Marked(memory'[source'[q]], failed'[q]), db'[source'[q]])
    <3>1. CASE q = r
      <4>1. others = {}
        BY <2>3, <3>1
      <4>2. new \in Snapshot /\ Same(s, new, new)
        <5>1. found[r] \in Items /\ failed[r] \in Nat /\ db[s] \in Snapshot \cup {NoSnapshot}
          OBVIOUS
        <5>2. Fresh(source[r], found[r]) \in Snapshot /\ Marked(db[s], failed[r]) \in Snapshot
          BY <5>1, SavedSnapshots
        <5>3. QED
          BY <5>2, SameCopies
      <4>3. CASE step[r] = "save"
        BY <2>1, <2>2, <3>1, <4>2, <4>3 DEF Fresh, LastFetch
      <4>4. CASE step[r] = "fail" /\ s \notin split
        <5>1. ItemsIn(memory[s]) = ItemsIn(db[s])
          BY <2>2, <4>1, <4>4, SameCopies DEF Mended
        <5>2. Marked(memory[s], failed[r]) = new
          BY <4>4, <5>1 DEF Marked
        <5>3. QED
          BY <2>1, <2>2, <3>1, <4>2, <4>4, <5>2
      <4>5. QED
        BY <2>1, <2>2, <2>3, <3>1, <4>1, <4>3, <4>4
    <3>2. CASE q # r /\ Copying(q)
      <4>1. source[q] # s /\ q \notin disturbed
        BY <2>3, <3>2
      <4>2. (source[q] \notin split' => source[q] \notin split) /\ source[q] \in Source
        BY <2>3, <3>2, StoreConstants
      <4>3. Fresh(source[q], found[q])' = Fresh(source[q], found[q])
        BY <2>2 DEF Fresh, LastFetch
      <4>4. QED
        BY <2>2, <3>2, <4>1, <4>2, <4>3
    <3>3. CASE q # r /\ ~Copying(q)
      BY <2>2, <3>3
    <3>4. QED
      BY <3>1, <3>2, <3>3
  <2>8. QED
    BY <1>0, <1>1, <2>1, <2>2, <2>3, <2>4, <2>5, <2>6, <2>7
<1>7. ASSUME NEW r \in Run, WatchCopyItems(r) \/ WatchCopyFailure(r)
      PROVE  WatchInv'
  <2>1. PICK s \in Source : s = source[r] /\ step[r] \in {"copy", "copyFailure"}
    BY <1>7 DEF WatchCopyItems, WatchCopyFailure, CopyItems, CopyFailure
  <2> DEFINE new == IF step[r] = "copy" THEN Fresh(source[r], found[r]) ELSE Marked(memory[s], failed[r])
  <2>2. /\ UNCHANGED <<clock, stage, db>> /\ stage # "down" /\ step'[r] = "idle"
        /\ memory' = [memory EXCEPT ![s] = new]
        /\ \A q \in Run \ {r} : /\ step'[q] = step[q] /\ source'[q] = source[q]
                                /\ found'[q] = found[q] /\ failed'[q] = failed[q]
    BY <1>7, <2>1 DEF WatchCopyItems, WatchCopyFailure, CopyItems, CopyFailure, Return
  <2>3. /\ disturbed' = disturbed \ {r} /\ split' \in {split, split \ {s}}
        /\ split' # split => r \notin disturbed /\ step[r] = "copy"
        /\ r \notin disturbed /\ step[r] = "copy" => s \notin split'
    BY <1>7, <2>1 DEF WatchCopyItems, WatchCopyFailure, CopyItems, CopyFailure
  <2>4. \A q \in CopyingFor(s) \ {r} : r \in disturbed /\ q \in disturbed
    <3> SUFFICES ASSUME NEW q \in Run \ {r}, Copying(q), source[q] = s
                 PROVE  r \in disturbed /\ q \in disturbed
      OBVIOUS
    <3>1. q \in Beside(r) /\ r \in Beside(q)
      BY <2>1
    <3>2. QED
      BY <2>1, <3>1
  <2>5. Mended'
    <3> SUFFICES ASSUME NEW x \in Source \ split', CopyingFor(x)' = {}
                 PROVE  Same(x, memory'[x], db'[x])
      BY DEF Mended
    <3>1. CASE x = s
      <4>1. r \notin disturbed
        BY <2>1, <2>3, <3>1
      <4>2. Same(s, new, db[s])
        BY <2>1, <2>3, <3>1, <4>1
      <4>3. QED
        BY <2>2, <3>1, <4>2
    <3>2. CASE x # s
      <4>1. CopyingFor(x) = {} /\ memory'[x] = memory[x] /\ x \notin split
        BY <2>1, <2>2, <2>3, <3>2
      <4>2. QED
        BY <2>2, <4>1 DEF Mended
    <3>3. QED
      BY <3>1, <3>2
  <2>6. disturbed' \subseteq {q \in Run : Copying(q)' /\ source'[q] \in split'}
    <3> SUFFICES ASSUME NEW q \in disturbed'
                 PROVE  q \in Run /\ Copying(q)' /\ source'[q] \in split'
      OBVIOUS
    <3>1. q \in Run \ {r} /\ Copying(q) /\ source[q] \in split
      BY <2>3
    <3>2. source[q] \in split'
      BY <2>3, <2>4, <3>1
    <3>3. QED
      BY <2>2, <3>1, <3>2
  <2>7. \A q \in Run : Copying(q)' /\ Beside(q)' # {} => q \in disturbed'
    <3> SUFFICES ASSUME NEW q \in Run, Copying(q)',
                        NEW p \in Run \ {q}, Copying(p)', source'[p] = source'[q]
                 PROVE  q \in disturbed'
      OBVIOUS
    <3>1. q # r /\ p # r
      BY <2>2
    <3>2. Copying(q) /\ p \in Beside(q)
      BY <2>2, <3>1
    <3>3. QED
      BY <2>3, <3>1, <3>2
  <2>8. ASSUME NEW q \in Run \ disturbed'
        PROVE  /\ step'[q] = "copy" => Same(source'[q], Fresh(source[q], found[q])', db'[source'[q]])
               /\ step'[q] = "copyFailure" /\ source'[q] \notin split' =>
                    Same(source'[q], Marked(memory'[source'[q]], failed'[q]), db'[source'[q]])
    <3>1. CASE q = r
      BY <2>2, <3>1
    <3>2. CASE q # r /\ Copying(q)
      <4>1. q \notin disturbed /\ source[q] # s
        BY <2>3, <2>4, <3>2
      <4>2. (source[q] \notin split' => source[q] \notin split) /\ source[q] \in Source
        BY <2>3, <3>2, <4>1, StoreConstants
      <4>3. Fresh(source[q], found[q])' = Fresh(source[q], found[q])
        BY <2>2, <3>2 DEF Fresh, LastFetch
      <4>4. QED
        BY <2>2, <3>2, <4>1, <4>2, <4>3
    <3>3. CASE q # r /\ ~Copying(q)
      BY <2>2, <3>3
    <3>4. QED
      BY <3>1, <3>2, <3>3
  <2>9. QED
    BY <1>0, <1>1, <2>2, <2>3, <2>5, <2>6, <2>7, <2>8
<1>8. QED
  BY <1>2, <1>3, <1>4, <1>5, <1>6, <1>7 DEF WatchNext, Elsewhere

\* Whether runs of one collector overlap or not: the two copies of a source can
\* differ, beyond the second an undated success may be served with, only after two
\* of its runs stood between their writes together, and say the same again after a
\* success that no other run stood beside, and after a restart.
THEOREM CopiesMend == WatchSpec => []Mended
<1>1. WatchInv /\ [WatchNext]_<<vars, watchVars>> => WatchInv'
  BY WatchStep
<1>2. WatchInv => Mended
  BY DEF WatchInv
<1>3. QED
  BY <1>1, <1>2, WatchStarts, PTL DEF WatchSpec
=============================================================================
