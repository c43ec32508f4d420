--------------------------- MODULE SnapshotMending ---------------------------
(***************************************************************************)
(* SnapshotStore with a record of the runs that stood between their two    *)
(* writes at the same time as another run of their collector: what holds   *)
(* although nothing keeps the runs of one collector apart.                 *)
(***************************************************************************)
EXTENDS SnapshotStore

VARIABLES
  disturbed,   \* runs between their writes that another run wrote beside
  split        \* sources whose copies may differ because of that

watchVars == <<disturbed, split>>

WatchInit ==
  /\ Init
  /\ disturbed = {} /\ split = {}

Beside(r) == CopyingFor(source[r]) \ {r}

\* The first write: it disturbs, and is disturbed by, the runs between theirs.
WatchCommit(r) ==
  /\ SaveItems(r) \/ SaveFailure(r)
  /\ disturbed' = IF Beside(r) = {} THEN disturbed ELSE disturbed \cup Beside(r) \cup {r}
  /\ split' = IF Beside(r) = {} THEN split ELSE split \cup {source[r]}

\* The second: an undisturbed success makes the copies equal again.
WatchCopyItems(r) ==
  /\ CopyItems(r)
  /\ disturbed' = disturbed \ {r}
  /\ split' = IF r \in disturbed THEN split ELSE split \ {source[r]}

WatchCopyFailure(r) ==
  /\ CopyFailure(r)
  /\ disturbed' = disturbed \ {r}
  /\ UNCHANGED split

WatchStart ==
  /\ Start
  /\ split' = {}
  /\ UNCHANGED disturbed

WatchExit == Exit /\ disturbed' = {} /\ UNCHANGED split

Elsewhere ==
  \/ Tick \/ Serve
  \/ \E r \in Run :
       \/ Collect(r) \/ CollectFails(r) \/ SaveItemsFails(r) \/ SaveFailureFails(r)
       \/ \E s \in Source : InitialRun(r, s) \/ Trigger(r, s)

WatchNext ==
  \/ WatchStart \/ WatchExit
  \/ \E r \in Run : WatchCommit(r) \/ WatchCopyItems(r) \/ WatchCopyFailure(r)
  \/ Elsewhere /\ UNCHANGED watchVars

WatchSpec == WatchInit /\ [][WatchNext]_<<vars, watchVars>>

---------------------------------------------------------------------------
(* Properties.                                                             *)

\* The two copies differ, but for the later second that a success without a dated
\* item may be served with, only when two runs of the source stood between their
\* writes together, and then until a success with no other run beside it, or a
\* restart.
Mended ==
  \A s \in Source \ split :
    stage # "down" /\ CopyingFor(s) = {} => Same(s, memory[s], db[s])

\* The inductive invariant for Mended: runs between their writes together have
\* disturbed each other; what an undisturbed one has still to write to memory is
\* what the database has.
WatchInv ==
  /\ TypeOK /\ Mended
  /\ disturbed \subseteq {r \in Run : Copying(r) /\ source[r] \in split}
  /\ split \subseteq Source
  /\ stage = "down" => \A r \in Run : step[r] = "idle"
  /\ \A r \in Run : Copying(r) /\ Beside(r) # {} => r \in disturbed
  /\ \A r \in Run \ disturbed :
       /\ step[r] = "copy" => Same(source[r], Fresh(source[r], found[r]), db[source[r]])
       /\ step[r] = "copyFailure" /\ source[r] \notin split =>
            Same(source[r], Marked(memory[source[r]], failed[r]), db[source[r]])
=============================================================================
