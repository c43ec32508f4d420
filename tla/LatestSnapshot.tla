--------------------------- MODULE LatestSnapshot ---------------------------
(***************************************************************************)
(* What the snapshot store promises: for each source one snapshot, the     *)
(* latest, which survives restarts.  A successful collect replaces its     *)
(* items by newer ones, or by none; a failed one marks it and keeps them.  *)
(***************************************************************************)
EXTENDS Integers

CONSTANTS
  Source,
  NoItems,     \* a collect that found nothing, or a source that has no items
  NoSnapshot   \* a source never collected

VARIABLE snapshot   \* what is shown of each source, or would be after a restart

\* Items are compared by the time they were collected at.
NotOlder(new, old) == new = NoItems \/ old = NoItems \/ old <= new

ItemsOf(s) == IF snapshot[s] = NoSnapshot THEN NoItems ELSE snapshot[s].items

Init == \A s \in Source : snapshot[s] = NoSnapshot

Replace(s) ==
  /\ snapshot'[s] # NoSnapshot /\ snapshot'[s].status = "ok"
  /\ NotOlder(snapshot'[s].items, ItemsOf(s))

Mark(s) ==
  /\ snapshot'[s] # NoSnapshot /\ snapshot'[s].status = "error"
  /\ snapshot'[s].items = ItemsOf(s)

Next == \A s \in Source : snapshot'[s] = snapshot[s] \/ Replace(s) \/ Mark(s)

Spec == Init /\ [][Next]_snapshot
=============================================================================
