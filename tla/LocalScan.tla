----------------------------- MODULE LocalScan -----------------------------
(***************************************************************************)
(* What one incremental pass of localscan.Scanner reads from one JSONL     *)
(* file.  The scanner is stateless: the agent (AgentSync) and the server's *)
(* own local collectors keep the parse states and call it.                 *)
(*                                                                         *)
(* A file is a sequence of lines, each W = 3 units long: two units of JSON *)
(* text and one for the newline.  A byte offset is a number of units, so   *)
(* an offset can fall at the start of a line, inside its text, or between  *)
(* its text and its newline; that is all the offset arithmetic of the      *)
(* scanner tells apart.                                                    *)
(***************************************************************************)
EXTENDS Integers, Sequences

CONSTANTS
  Usage,      \* the token counts a line can report
  NoUsage,    \* a line that reports none (a prompt, a turn context, junk)
  Model,      \* the model names a line can carry
  NoModel,    \* a line, or a record, without a model name
  NoRow,      \* no row stored under a (file, line) key
  NoState     \* a file without a parse state

ASSUME ScanMarkers ==
  /\ NoUsage \notin Usage
  /\ NoModel \notin Model
  /\ NoRow \notin [usage : Usage, model : Model \cup {NoModel}, parser : Nat]
  /\ NoState \notin [offset : Nat, mtime : Nat, parser : Nat]

Line == [usage : Usage \cup {NoUsage}, model : Model \cup {NoModel}]

\* One row of local_usage_events.  Two parser versions read different values
\* from the same line, so a row records the version that produced it.
Row == [usage : Usage, model : Model \cup {NoModel}, parser : Nat]

ParseState == [offset : Nat, mtime : Nat, parser : Nat]

W == 3

\* A file: the units of its last line written so far are `cut`; an empty file
\* has cut = W, which makes its size 0.
Log == {log \in [exists : BOOLEAN, lines : Seq(Line), cut : 1..W, mtime : Nat] :
          Len(log.lines) = 0 => log.cut = W}

EmptyLog == [exists |-> TRUE, lines |-> <<>>, cut |-> W, mtime |-> 0]
NoLog == [exists |-> FALSE, lines |-> <<>>, cut |-> W, mtime |-> 0]

Size(log) == W * (Len(log.lines) - 1) + log.cut

LineStart(k) == W * (k - 1)

\* The offset just after the JSON text of line k, before its newline.
TextEnd(k) == LineStart(k) + W - 1

---------------------------------------------------------------------------
\* A parse state that no longer describes its file: the file shrank below the
\* offset, its mtime went backwards, or another parser version wrote the state.
NeedsReset(ps, log, version) ==
  \/ Size(log) < ps.offset
  \/ log.mtime < ps.mtime
  \/ ps.parser # version

\* A line that a read starting at `offset` sees from its first byte to the end
\* of its JSON text.  The rest of a line entered in the middle, and text cut
\* short by the end of the file, do not decode and yield nothing.
Seen(log, offset, k) ==
  /\ k \in 1..Len(log.lines)
  /\ offset <= LineStart(k)
  /\ TextEnd(k) <= Size(log)

\* The model a codex event without one of its own takes: the last model named
\* by a line of this read.  Every read starts with none.
InheritedModel(log, offset, k) ==
  LET Names(j)  == Seen(log, offset, j) /\ log.lines[j].model # NoModel
      IsLast(j) == Names(j) /\ \A i \in (j + 1)..k : ~Names(i)
  IN  IF \E j \in 1..k : IsLast(j)
      THEN log.lines[CHOOSE j \in 1..k : IsLast(j)].model
      ELSE NoModel

ModelOf(log, offset, k, inherits) ==
  IF inherits /\ log.lines[k].model = NoModel
  THEN InheritedModel(log, offset, k)
  ELSE log.lines[k].model

RowOf(log, offset, k, inherits, version) ==
  [usage  |-> log.lines[k].usage,
   model  |-> ModelOf(log, offset, k, inherits),
   parser |-> version]

\* Mutated form: the scanner ignores that ExtractEvent found no usage.
UsageLines_AnyLine(log, offset) ==
  {k \in 1..Len(log.lines) : Seen(log, offset, k)}

\* The lines of which a read from `offset` makes a record.
UsageLines(log, offset) ==
  {k \in 1..Len(log.lines) : Seen(log, offset, k) /\ log.lines[k].usage # NoUsage}

\* Mutated form: a newline is counted for the last line whether it has one or not.
NextOffset_CountsNewline(log, offset) ==
  IF Size(log) > offset THEN Size(log) + 1 ELSE offset

\* The read runs to the end of the file and returns the position it stopped at,
\* whatever the last line decoded to.  Seeking past the end reads nothing.
NextOffset(log, offset) ==
  IF Size(log) > offset THEN Size(log) ELSE offset
=============================================================================
