---------------------------- MODULE SnapshotStore ----------------------------
(***************************************************************************)
(* infohub: the scheduler runs collectors and stores what they find; the   *)
(* API and the dashboards read it.                                         *)
(*                                                                         *)
(* SQLiteStore keeps two copies of every source's snapshot, the rows of    *)
(* source_state and source_items and a MemoryStore, and answers reads from *)
(* the second.  Save and SaveFailure commit the rows and then write the    *)
(* memory copy; nothing holds both together, and nothing keeps two runs of *)
(* one collector apart: a cron job, a POST to the collect endpoint and the *)
(* refresh after an ingest each start one.                                 *)
(***************************************************************************)
EXTENDS Integers

CONSTANTS
  Source,      \* the registered collectors
  Dated,       \* those whose items carry a FetchedAt: all but CPA and Antigravity
  Run,         \* goroutines that may be inside runCollector at once
  NoItems,     \* a collect that found nothing, or a source that has no items
  NoSnapshot,  \* a source never collected
  NoSource,    \* a goroutine that is in no run
  Overlap,     \* whether two runs of one collector can be under way at once
  MaxTime      \* bound: seconds

ASSUME StoreConstants ==
  /\ MaxTime \in Nat /\ Overlap \in BOOLEAN /\ Dated \subseteq Source
  /\ NoItems \notin Nat
  /\ NoSource \notin Source
  /\ NoSnapshot \notin [status : {"ok", "error"}, fetched : Nat, items : Nat \cup {NoItems}]

VARIABLES
  clock,     \* time.Now, in seconds
  stage,     \* the process: down, initial (RunAllNow) or serving
  awaited,   \* collectors RunAllNow has still to start
  step,      \* where a run stands: idle, collect, save, copy, fail or copyFailure
  source,    \* the collector it runs
  found,     \* the items it collected
  failed,    \* when its collect failed
  db,        \* source_state and source_items
  memory     \* the MemoryStore

runVars == <<step, source, found, failed>>
vars == <<clock, stage, awaited, runVars, db, memory>>

\* The items of one collect are told from older ones by the second it was made
\* in.  The items of a Dated collector carry it, as their FetchedAt.
Items == Nat \cup {NoItems}
Snapshot == [status : {"ok", "error"}, fetched : Nat, items : Items]

Nothing == [s \in Source |-> NoSnapshot]

Init ==
  /\ clock = 0
  /\ stage = "down" /\ awaited = {}
  /\ step = [r \in Run |-> "idle"] /\ source = [r \in Run |-> NoSource]
  /\ found = [r \in Run |-> NoItems] /\ failed = [r \in Run |-> 0]
  /\ db = Nothing /\ memory = Nothing

Tick ==
  /\ clock < MaxTime /\ clock' = clock + 1
  /\ UNCHANGED <<stage, awaited, runVars, db, memory>>

---------------------------------------------------------------------------
(* The process.                                                            *)

\* Mutated form: the items of a source that is failing are not loaded.
Loaded_DropsFailing ==
  [s \in Source |-> IF db[s] # NoSnapshot /\ db[s].status = "error"
                    THEN [db[s] EXCEPT !.items = NoItems] ELSE db[s]]

\* loadSnapshots
Loaded == db

\* NewSQLiteStore, then RunAllNow.
Start ==
  /\ stage = "down"
  /\ stage' = "initial" /\ awaited' = Source /\ memory' = Loaded
  /\ UNCHANGED <<clock, runVars, db>>

\* RunAllNow has waited for its runs; cron and the HTTP server start.
Serve ==
  /\ stage = "initial" /\ awaited = {} /\ \A r \in Run : step[r] = "idle"
  /\ stage' = "serving"
  /\ UNCHANGED <<clock, awaited, runVars, db, memory>>

\* The process ends or is killed; the scheduler waits five seconds for its runs
\* and the HTTP server for its requests, then they are cut off.
Exit ==
  /\ stage # "down"
  /\ stage' = "down" /\ awaited' = {} /\ memory' = Nothing
  /\ step' = [r \in Run |-> "idle"] /\ source' = [r \in Run |-> NoSource]
  /\ found' = [r \in Run |-> NoItems] /\ failed' = [r \in Run |-> 0]
  /\ UNCHANGED <<clock, db>>

---------------------------------------------------------------------------
(* runCollector.                                                           *)

Begin(r, s) ==
  /\ step[r] = "idle"
  /\ step' = [step EXCEPT ![r] = "collect"] /\ source' = [source EXCEPT ![r] = s]
  /\ UNCHANGED <<clock, stage, found, failed, db, memory>>

\* The run is over, whatever became of it.
Return(r) ==
  /\ step' = [step EXCEPT ![r] = "idle"] /\ source' = [source EXCEPT ![r] = NoSource]
  /\ found' = [found EXCEPT ![r] = NoItems] /\ failed' = [failed EXCEPT ![r] = 0]

InitialRun(r, s) ==
  /\ stage = "initial" /\ s \in awaited
  /\ Begin(r, s) /\ awaited' = awaited \ {s}

\* A cron job, the collect endpoint, or the refresh after an ingest.
Trigger(r, s) ==
  /\ stage = "serving"
  /\ Overlap \/ \A q \in Run : source[q] # s
  /\ Begin(r, s) /\ UNCHANGED awaited

Collect(r) ==
  /\ step[r] = "collect"
  /\ \E items \in {clock, NoItems} : found' = [found EXCEPT ![r] = items]
  /\ step' = [step EXCEPT ![r] = "save"]
  /\ UNCHANGED <<clock, stage, awaited, source, failed, db, memory>>

\* The upstream failed, or the run's time was over.
CollectFails(r) ==
  /\ step[r] = "collect"
  /\ failed' = [failed EXCEPT ![r] = clock]
  /\ step' = [step EXCEPT ![r] = "fail"]
  /\ UNCHANGED <<clock, stage, awaited, source, found, db, memory>>

---------------------------------------------------------------------------
(* Save and SaveFailure.                                                   *)

\* No item says when it was fetched.
Undated(s, items) == items = NoItems \/ s \notin Dated

\* resolveLastFetch; when no item is dated the clock is read, by each copy for
\* itself.
LastFetch(s, items) == IF Undated(s, items) THEN clock ELSE items

\* Mutated form: a success does not set the status.
Fresh_KeepsStatus(s, items) == [status |-> "", fetched |-> LastFetch(s, items), items |-> items]

Fresh(s, items) == [status |-> "ok", fetched |-> LastFetch(s, items), items |-> items]

\* Mutated form: a failure leaves no items.
Marked_DropsItems(old, at) == [status |-> "error", fetched |-> at, items |-> NoItems]

ItemsIn(snap) == IF snap = NoSnapshot THEN NoItems ELSE snap.items

\* A failure keeps the items that are there.
Marked(old, at) == [status |-> "error", fetched |-> at, items |-> ItemsIn(old)]

\* Save's transaction.
SaveItems(r) ==
  /\ step[r] = "save"
  /\ db' = [db EXCEPT ![source[r]] = Fresh(source[r], found[r])]
  /\ step' = [step EXCEPT ![r] = "copy"]
  /\ UNCHANGED <<clock, stage, awaited, source, found, failed, memory>>

\* Mutated form: a run whose transaction failed still writes the memory copy.
SaveItemsFails_Copies(r) ==
  /\ step[r] = "save"
  /\ memory' = [memory EXCEPT ![source[r]] = Fresh(source[r], found[r])]
  /\ Return(r)
  /\ UNCHANGED <<clock, stage, awaited, db>>

\* The transaction could not be begun, filled or committed: nothing is recorded.
SaveItemsFails(r) ==
  /\ step[r] = "save"
  /\ Return(r)
  /\ UNCHANGED <<clock, stage, awaited, db, memory>>

CopyItems(r) ==
  /\ step[r] = "copy"
  /\ memory' = [memory EXCEPT ![source[r]] = Fresh(source[r], found[r])]
  /\ Return(r)
  /\ UNCHANGED <<clock, stage, awaited, db>>

SaveFailure(r) ==
  /\ step[r] = "fail"
  /\ db' = [db EXCEPT ![source[r]] = Marked(db[source[r]], failed[r])]
  /\ step' = [step EXCEPT ![r] = "copyFailure"]
  /\ UNCHANGED <<clock, stage, awaited, source, found, failed, memory>>

SaveFailureFails(r) ==
  /\ step[r] = "fail"
  /\ Return(r)
  /\ UNCHANGED <<clock, stage, awaited, db, memory>>

CopyFailure(r) ==
  /\ step[r] = "copyFailure"
  /\ memory' = [memory EXCEPT ![source[r]] = Marked(memory[source[r]], failed[r])]
  /\ Return(r)
  /\ UNCHANGED <<clock, stage, awaited, db>>

---------------------------------------------------------------------------
RunStep(r) ==
  \/ Collect(r) \/ CollectFails(r)
  \/ SaveItems(r) \/ SaveItemsFails(r) \/ CopyItems(r)
  \/ SaveFailure(r) \/ SaveFailureFails(r) \/ CopyFailure(r)

Next ==
  \/ Tick \/ Start \/ Serve \/ Exit
  \/ \E r \in Run : RunStep(r) \/ \E s \in Source : InitialRun(r, s) \/ Trigger(r, s)

Spec == Init /\ [][Next]_vars

---------------------------------------------------------------------------
(* Properties.                                                             *)

\* Every variable is well typed; a run has a collector exactly while it is under
\* way.
TypeOK ==
  /\ clock \in Nat
  /\ stage \in {"down", "initial", "serving"}
  /\ awaited \subseteq Source
  /\ step \in [Run -> {"idle", "collect", "save", "copy", "fail", "copyFailure"}]
  /\ source \in [Run -> Source \cup {NoSource}]
  /\ \A r \in Run : source[r] = NoSource <=> step[r] = "idle"
  /\ found \in [Run -> Items] /\ failed \in [Run -> Nat]
  /\ db \in [Source -> Snapshot \cup {NoSnapshot}]
  /\ memory \in [Source -> Snapshot \cup {NoSnapshot}]

\* A run that has committed and not yet written the memory copy.
Copying(r) == step[r] \in {"copy", "copyFailure"}
CopyingFor(s) == {r \in Run : source[r] = s /\ Copying(r)}

\* The copy that is served and the one that is persisted say the same of s: the
\* same status and items, and the same time.  Only of a success without a dated
\* item the served copy, written second, can name a later second.
Same(s, served, persisted) ==
  \/ served = NoSnapshot /\ persisted = NoSnapshot
  \/ /\ served # NoSnapshot /\ persisted # NoSnapshot
     /\ served.status = persisted.status /\ served.items = persisted.items
     /\ \/ served.fetched = persisted.fetched
        \/ /\ served.status = "ok" /\ Undated(s, served.items)
           /\ persisted.fetched < served.fetched

\* What is served is what is persisted, whenever no run stands between its two
\* writes: after a restart the same snapshots are shown, those without a dated
\* item perhaps with an earlier time, never with a later one.
Persisted ==
  \A s \in Source : stage # "down" /\ CopyingFor(s) = {} => Same(s, memory[s], db[s])

\* What a reader sees, or will see after the restart.
Shown(s) == IF stage = "down" THEN db[s] ELSE memory[s]

Latest == INSTANCE LatestSnapshot WITH snapshot <- [s \in Source |-> Shown(s)]

\* The two copies, their one-after-the-other writes and the loading at start
\* implement one snapshot per source that survives restarts, keeps its items
\* while the source fails and never goes back to older ones.
KeepsLatest == Latest!Spec

---------------------------------------------------------------------------
(* The inductive invariant, for collectors whose runs do not overlap.      *)

\* A source has one run at a time; the initial runs are over before others start.
OneRunEach ==
  /\ \A r, q \in Run : source[r] = source[q] /\ source[r] # NoSource => r = q
  /\ \A r \in Run : source[r] \notin awaited
  /\ stage # "initial" => awaited = {}
  /\ stage = "down" => \A r \in Run : step[r] = "idle"

\* The write a run has still to make to memory is the one it made to the database.
CopyPending ==
  \A r \in Run :
    /\ step[r] = "copy" => Same(source[r], Fresh(source[r], found[r]), db[source[r]])
    /\ step[r] = "copyFailure" =>
         Same(source[r], Marked(memory[source[r]], failed[r]), db[source[r]])

\* Nothing is from the future, and what a run brings is not older than what is
\* there.
InOrder ==
  /\ \A s \in Source : \A items \in {ItemsIn(db[s]), ItemsIn(memory[s])} :
       items # NoItems => items <= clock
  /\ \A r \in Run : step[r] \in {"save", "copy"} /\ found[r] # NoItems =>
       /\ found[r] <= clock
       /\ Latest!NotOlder(found[r], ItemsIn(db[source[r]]))
       /\ Latest!NotOlder(found[r], ItemsIn(memory[source[r]]))

\* What one run at a time guarantees at every step of runCollector and of a
\* restart.
StoreInv == TypeOK /\ OneRunEach /\ CopyPending /\ Persisted /\ InOrder
=============================================================================
