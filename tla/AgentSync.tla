----------------------------- MODULE AgentSync -----------------------------
(***************************************************************************)
(* infohub-agent: Runner.RunOnce scans the JSONL files of each enabled     *)
(* source, pushes the new records in chunks to the server's ingest         *)
(* endpoint, and saves its parse states once every source is done.         *)
(*                                                                         *)
(* The model covers one machine (every statement of the ingest store is    *)
(* keyed by the machine): its log files and their writers, the agent with  *)
(* its in-memory and saved parse states, the requests in flight, and the   *)
(* machine's rows of local_usage_events.                                   *)
(***************************************************************************)
EXTENDS LocalScan, FiniteSets

CONSTANTS
  File,         \* the JSONL files of the machine
  WalkOrder,    \* the order in which WalkDir visits them
  SourceOrder,  \* the enabled sources, in the order RunOnce takes them
  SourceOf,     \* the source whose directory a file lies in
  Codex,        \* the source whose records inherit their model
  ChunkSize,    \* pushChunkSize
  Unruly,       \* what writers and the network may do beyond the assumptions
  MaxLines,     \* bound: lines per file
  MaxMTime,     \* bound: modification times
  MaxParser     \* bound: parser versions

\* The conditions the code relies on and does not establish; a member of
\* Unruly lifts one of them.
\*   "torn"    a scan can meet a last line whose JSON text is half written
\*   "regrow"  a truncated or replaced file can grow past the old offset
\*             before the agent has dealt with the truncation
\*   "unsaved" a file can be truncated or replaced while the agent reads it, or
\*             while rows of it are stored or on their way, and no parse state
\*             of it is saved
\*   "lose"    the state file can be lost while a file is due for a reset
\*   "late"    a request that timed out can reach the database after the
\*             agent's next run has begun
Excess == {"torn", "regrow", "unsaved", "lose", "late"}

ASSUME AgentConstants ==
  /\ MaxLines \in Nat /\ MaxMTime \in Nat
  /\ ChunkSize \in Nat \ {0} /\ MaxParser \in Nat \ {0}
  /\ SourceOrder \in Seq(STRING) /\ Len(SourceOrder) > 0
  /\ \A i, j \in 1..Len(SourceOrder) : SourceOrder[i] = SourceOrder[j] => i = j
  /\ SourceOf \in [File -> {SourceOrder[i] : i \in 1..Len(SourceOrder)}]
  /\ WalkOrder \in [File -> Nat]
  /\ Unruly \subseteq Excess

VARIABLES
  logs,        \* the files
  parser,      \* the parser version compiled into the agent
  saved,       \* the agent's state file
  phase,       \* where RunOnce stands: idle, scan, read, push or save
  source,      \* the position in SourceOrder of the source being run
  state,       \* the stateFile in memory
  todo,        \* files of the source the walk has still to visit
  stat,        \* the walk's decision on the file it is reading
  nextStates,  \* ScanIncremental's new parse states
  resetFiles,  \* files to push in reset_files
  records,     \* records of the scan that no acknowledged chunk carried
  first,       \* whether the next chunk is the first of its push
  dirty,       \* whether some source has succeeded in this run
  events,      \* the server's local_usage_events, by file and line
  late         \* requests the agent gave up on that the server may still run

agentVars == <<phase, source, state, todo, stat, nextStates, resetFiles, records, first, dirty>>
vars == <<logs, parser, saved, agentVars, events, late>>

LineNo == 1..MaxLines
NoStates == [f \in File |-> NoState]
Record == [file : File, line : LineNo, row : Row]
Request == [resets : SUBSET File, records : SUBSET Record]

FilesOf(i) == {f \in File : SourceOf[f] = SourceOrder[i]}

\* What has been flushed of a line when a scan can meet it.
Cuts == IF "torn" \in Unruly THEN 1..W ELSE {W - 1, W}

Due(ps, log) == ps # NoState /\ NeedsReset(ps, log, parser)

\* The parse states that describe file f now or may come to be saved.
StatesOf(f) == {saved[f], state[f], nextStates[f]} \ {NoState}

---------------------------------------------------------------------------
Init ==
  /\ logs = [f \in File |-> EmptyLog]
  /\ parser = 1
  /\ saved = NoStates
  /\ phase = "idle" /\ source = 1 /\ state = NoStates
  /\ todo = {} /\ stat = NoState
  /\ nextStates = NoStates /\ resetFiles = {} /\ records = {}
  /\ first = TRUE /\ dirty = FALSE
  /\ events = [f \in File |-> [k \in LineNo |-> NoRow]]
  /\ late = {}

---------------------------------------------------------------------------
(* The writers of the log files: Claude Code and Codex, outside InfoHub.   *)

\* A write that would hide from every parse state that the file is due for a
\* reset is excluded unless "regrow" is allowed.
KeepsDue(f, log) ==
  "regrow" \in Unruly \/ \A ps \in StatesOf(f) : Due(ps, logs[f]) => Due(ps, log)

WriteLog(f, log) ==
  /\ logs' = [logs EXCEPT ![f] = log]
  /\ UNCHANGED <<parser, saved, agentVars, events, late>>

AppendLine(f) ==
  /\ logs[f].exists /\ logs[f].cut = W /\ Len(logs[f].lines) < MaxLines
  /\ \E line \in Line, cut \in Cuts, t \in logs[f].mtime..MaxMTime :
       LET log == [exists |-> TRUE, lines |-> Append(logs[f].lines, line), cut |-> cut, mtime |-> t]
       IN  KeepsDue(f, log) /\ WriteLog(f, log)

ContinueLine(f) ==
  /\ logs[f].exists
  /\ \E cut \in Cuts, t \in logs[f].mtime..MaxMTime :
       LET log == [exists |-> TRUE, lines |-> logs[f].lines, cut |-> cut, mtime |-> t]
       IN  cut > logs[f].cut /\ KeepsDue(f, log) /\ WriteLog(f, log)

\* Nothing of file f has been read that a run still holds, or the server has.
Unread(f) ==
  /\ StatesOf(f) = {} /\ ~(phase = "read" /\ stat.file = f)
  /\ \A k \in LineNo : events[f][k] = NoRow
  /\ \A req \in late : f \notin req.resets /\ \A r \in req.records : r.file # f

\* Truncation, replacement by another file, a restored older copy, a file that
\* comes back after its removal.  Unless "regrow" is allowed every parse state
\* of the file notices it; unless "unsaved" is, there is a saved one to notice
\* it or nothing that could go wrong without one.
ReplaceLog(f) ==
  \E n \in 0..MaxLines : \E lines \in [1..n -> Line], cut \in Cuts, t \in 0..MaxMTime :
    LET log == [exists |-> TRUE, lines |-> lines, cut |-> IF n = 0 THEN W ELSE cut, mtime |-> t]
    IN  /\ "regrow" \in Unruly \/ \A ps \in StatesOf(f) : Due(ps, log)
        /\ "unsaved" \in Unruly \/ saved[f] # NoState \/ Unread(f)
        /\ WriteLog(f, log)

RemoveLog(f) ==
  /\ logs[f].exists
  /\ WriteLog(f, NoLog)

---------------------------------------------------------------------------
(* RunOnce.                                                                *)

\* The variables of one source's scan and push, as they are at its start.
FreshSource(i) ==
  /\ source' = i /\ todo' = FilesOf(i) /\ stat' = NoState
  /\ nextStates' = NoStates /\ resetFiles' = {} /\ records' = {} /\ first' = TRUE

Idle ==
  /\ phase' = "idle" /\ source' = 1 /\ todo' = {} /\ stat' = NoState
  /\ nextStates' = NoStates /\ resetFiles' = {} /\ records' = {} /\ first' = TRUE
  /\ dirty' = FALSE

\* runSource returned: the loop takes the next source, or the run ends with a
\* save if some source succeeded.
EndSource(succeeded, newState) ==
  IF source < Len(SourceOrder)
  THEN /\ phase' = "scan" /\ FreshSource(source + 1)
       /\ dirty' = (dirty \/ succeeded) /\ state' = newState
  ELSE IF dirty \/ succeeded
  THEN /\ phase' = "save" /\ todo' = {} /\ stat' = NoState
       /\ nextStates' = NoStates /\ resetFiles' = {} /\ records' = {} /\ first' = TRUE
       /\ dirty' = TRUE /\ state' = newState /\ UNCHANGED source
  ELSE Idle /\ state' = saved

\* loadState, at the head of every run.
StartRun ==
  /\ phase = "idle"
  /\ "late" \in Unruly \/ late = {}
  /\ phase' = "scan" /\ FreshSource(1) /\ state' = saved /\ dirty' = FALSE
  /\ UNCHANGED <<logs, parser, saved, events, late>>

\* WalkDir reached f: the decision to skip it, continue it or re-read it is
\* made on the directory entry, before the file is opened.
StatFile(f) ==
  /\ phase = "scan" /\ f \in todo /\ \A g \in todo : WalkOrder[f] <= WalkOrder[g]
  /\ LET ps     == state[f]
         reset  == Due(ps, logs[f])
         offset == IF ps = NoState \/ reset THEN 0 ELSE ps.offset
     IN  IF ~logs[f].exists \/ (Size(logs[f]) = offset /\ ~reset)
         THEN todo' = todo \ {f} /\ UNCHANGED <<phase, stat>>
         ELSE /\ stat' = [file |-> f, offset |-> offset, reset |-> reset, mtime |-> logs[f].mtime]
              /\ phase' = "read" /\ UNCHANGED todo
  /\ UNCHANGED <<logs, parser, saved, source, state, nextStates, resetFiles, records, first, dirty, events, late>>

\* parseJSONLRecords on the file that was stat'ed.
ReadFile ==
  /\ phase = "read"
  /\ LET f        == stat.file
         inherits == SourceOf[f] = Codex
     IN  /\ logs[f].exists
         /\ records' = records \cup
              {[file |-> f, line |-> k, row |-> RowOf(logs[f], stat.offset, k, inherits, parser)]
                 : k \in UsageLines(logs[f], stat.offset)}
         /\ nextStates' = [nextStates EXCEPT ![f] =
              [offset |-> NextOffset(logs[f], stat.offset), mtime |-> stat.mtime, parser |-> parser]]
         /\ resetFiles' = IF stat.reset THEN resetFiles \cup {f} ELSE resetFiles
         /\ todo' = todo \ {f}
  /\ stat' = NoState /\ phase' = "scan"
  /\ UNCHANGED <<logs, parser, saved, source, state, first, dirty, events, late>>

\* The file cannot be opened or read to its end: the walk leaves it out.
SkipFile ==
  /\ phase = "read"
  /\ todo' = todo \ {stat.file} /\ stat' = NoState /\ phase' = "scan"
  /\ UNCHANGED <<logs, parser, saved, source, state, nextStates, resetFiles, records, first, dirty, events, late>>

ReadMissing == SkipFile /\ ~logs[stat.file].exists

ReadError == SkipFile /\ logs[stat.file].exists

\* The source's directory cannot be listed, or the run is being cancelled.
ScanFails ==
  /\ phase = "scan"
  /\ EndSource(FALSE, state)
  /\ UNCHANGED <<logs, parser, saved, events, late>>

\* Mutated form: resets alone are not pushed.
ScanDone_ForgetsResets ==
  /\ phase = "scan" /\ todo = {}
  /\ \E quota \in BOOLEAN :
       IF records = {} /\ ~quota
       THEN EndSource(TRUE, state)
       ELSE /\ phase' = "push"
            /\ UNCHANGED <<source, state, todo, stat, nextStates, resetFiles, records, first, dirty>>
  /\ UNCHANGED <<logs, parser, saved, events, late>>

\* The walk is over.  Without records, resets or a quota observation nothing is
\* pushed and the new parse states are dropped; otherwise the push begins.
ScanDone ==
  /\ phase = "scan" /\ todo = {}
  /\ \E quota \in BOOLEAN :
       IF records = {} /\ resetFiles = {} /\ ~quota
       THEN EndSource(TRUE, state)
       ELSE /\ phase' = "push"
            /\ UNCHANGED <<source, state, todo, stat, nextStates, resetFiles, records, first, dirty>>
  /\ UNCHANGED <<logs, parser, saved, events, late>>

---------------------------------------------------------------------------
(* One chunk of the push, and what becomes of its request.                 *)

Before(r, q) ==
  \/ WalkOrder[r.file] < WalkOrder[q.file]
  \/ r.file = q.file /\ r.line < q.line

\* The first ChunkSize records not yet acknowledged, in scan order.
Chunk == {r \in records : Cardinality({q \in records : Before(q, r)}) < ChunkSize}

\* Mutated form: every chunk carries reset_files.
CurrentRequest_ResetsAgain == [resets |-> resetFiles, records |-> Chunk]

\* The first chunk carries reset_files.
CurrentRequest == [resets |-> IF first THEN resetFiles ELSE {}, records |-> Chunk]

\* Mutated forms: the reset files are not deleted, or deleted last.
Ingested_WithoutDelete(req) ==
  [f \in File |-> [k \in LineNo |->
     LET here == {r \in req.records : r.file = f /\ r.line = k}
     IN  IF here # {} THEN (CHOOSE r \in here : TRUE).row ELSE events[f][k]]]

Ingested_DeletesLast(req) ==
  [f \in File |-> [k \in LineNo |->
     LET here == {r \in req.records : r.file = f /\ r.line = k}
     IN  IF f \in req.resets THEN NoRow
         ELSE IF here # {} THEN (CHOOSE r \in here : TRUE).row ELSE events[f][k]]]

\* SaveIngestedUsage: one transaction deletes the rows of the reset files and
\* upserts the records by (machine, source, file_path, byte_offset).
Ingested(req) ==
  [f \in File |-> [k \in LineNo |->
     LET here == {r \in req.records : r.file = f /\ r.line = k}
     IN  IF here # {} THEN (CHOOSE r \in here : TRUE).row
         ELSE IF f \in req.resets THEN NoRow ELSE events[f][k]]]

\* state.apply: the scan's parse states replace those of the files it read.
Applied == [f \in File |-> IF nextStates[f] = NoState THEN state[f] ELSE nextStates[f]]

PushAccepted ==
  /\ phase = "push"
  /\ events' = Ingested(CurrentRequest)
  /\ IF records \subseteq Chunk
     THEN EndSource(TRUE, Applied)
     ELSE /\ records' = records \ Chunk /\ first' = FALSE
          /\ UNCHANGED <<phase, source, state, todo, stat, nextStates, resetFiles, dirty>>
  /\ UNCHANGED <<logs, parser, saved, late>>

\* Mutated form: the parse states are applied although the push failed.
PushRefused_Applies ==
  /\ phase = "push"
  /\ EndSource(FALSE, Applied)
  /\ UNCHANGED <<logs, parser, saved, events, late>>

\* The server answered with an error before its transaction committed, or the
\* request never arrived.
PushRefused ==
  /\ phase = "push"
  /\ EndSource(FALSE, state)
  /\ UNCHANGED <<logs, parser, saved, events, late>>

\* The records were stored and the agent was told otherwise: the quota could not
\* be saved after them, or the refresh outlasted the server's write timeout.
PushStoredButFailed ==
  /\ phase = "push"
  /\ events' = Ingested(CurrentRequest)
  /\ EndSource(FALSE, state)
  /\ UNCHANGED <<logs, parser, saved, late>>

\* The client timed out; the handler does not watch for that and may go on.
PushTimesOut ==
  /\ phase = "push"
  /\ late' = late \cup {CurrentRequest}
  /\ EndSource(FALSE, state)
  /\ UNCHANGED <<logs, parser, saved, events>>

LateStored ==
  \E req \in late :
    /\ events' = Ingested(req) /\ late' = late \ {req}
    /\ UNCHANGED <<logs, parser, saved, agentVars>>

LateDropped ==
  \E req \in late :
    /\ late' = late \ {req}
    /\ UNCHANGED <<logs, parser, saved, agentVars, events>>

---------------------------------------------------------------------------
(* The end of a run, and what can happen to the agent between two steps.   *)

\* state.save writes a temporary file and renames it.
SaveState ==
  /\ phase = "save"
  /\ saved' = state /\ Idle /\ UNCHANGED state
  /\ UNCHANGED <<logs, parser, events, late>>

SaveFails ==
  /\ phase = "save"
  /\ Idle /\ state' = saved
  /\ UNCHANGED <<logs, parser, saved, events, late>>

\* The process dies; a request it had sent may still be served.
Crash ==
  /\ phase # "idle"
  /\ late' = late \/ (phase = "push" /\ late' = late \cup {CurrentRequest})
  /\ Idle /\ state' = saved
  /\ UNCHANGED <<logs, parser, saved, events>>

\* The agent is replaced by one with a newer parser.
Upgrade ==
  /\ phase = "idle" /\ parser < MaxParser
  /\ parser' = parser + 1
  /\ UNCHANGED <<logs, saved, agentVars, events, late>>

\* A missing or corrupt state file loads as an empty one.
LoseState ==
  /\ phase = "idle"
  /\ "lose" \in Unruly \/ \A f \in File : ~Due(saved[f], logs[f])
  /\ saved' = NoStates /\ state' = NoStates
  /\ UNCHANGED <<logs, parser, phase, source, todo, stat, nextStates, resetFiles, records, first, dirty, events, late>>

---------------------------------------------------------------------------
Writer == \E f \in File : AppendLine(f) \/ ContinueLine(f) \/ ReplaceLog(f) \/ RemoveLog(f)

\* What the agent and the server do when nothing goes wrong.
Progress ==
  \/ StartRun \/ (\E f \in File : StatFile(f)) \/ ReadFile \/ ReadMissing
  \/ ScanDone \/ PushAccepted \/ SaveState

Settle == LateStored \/ LateDropped

Fault ==
  \/ ReadError \/ ScanFails \/ PushRefused \/ PushStoredButFailed \/ PushTimesOut
  \/ SaveFails \/ Crash \/ LoseState

Next == Writer \/ Progress \/ Settle \/ Fault \/ Upgrade

Spec == Init /\ [][Next]_vars

---------------------------------------------------------------------------
(* Properties.                                                             *)

TypeOK ==
  /\ logs \in [File -> Log] /\ \A f \in File : Len(logs[f].lines) <= MaxLines
  /\ parser \in Nat
  /\ saved \in [File -> ParseState \cup {NoState}]
  /\ state \in [File -> ParseState \cup {NoState}]
  /\ nextStates \in [File -> ParseState \cup {NoState}]
  /\ phase \in {"idle", "scan", "read", "push", "save"}
  /\ source \in 1..Len(SourceOrder)
  /\ todo \subseteq File /\ resetFiles \subseteq File
  /\ phase = "read" =>
       stat \in [file : File, offset : Nat, reset : BOOLEAN, mtime : Nat]
  /\ records \subseteq Record /\ late \subseteq Request
  /\ first \in BOOLEAN /\ dirty \in BOOLEAN
  /\ events \in [File -> [LineNo -> Row \cup {NoRow}]]

\* The row under line k of f is what the current parser reads from that line.
Stored(f, k) ==
  /\ events[f][k] # NoRow
  /\ events[f][k].usage = logs[f].lines[k].usage
  /\ events[f][k].parser = parser

HasUsage(f, k) == k \in 1..Len(logs[f].lines) /\ logs[f].lines[k].usage # NoUsage

\* Line k is there with all its text.
Legible(f, k) == k \in 1..Len(logs[f].lines) /\ TextEnd(k) <= Size(logs[f])

\* A saved parse state that the next scan will build on instead of resetting.
Trusted(f) == logs[f].exists /\ saved[f] # NoState /\ ~Due(saved[f], logs[f])

\* Nothing below a saved offset is missing on the server: the offset is saved
\* only after every chunk was acknowledged, and no failed, repeated, late or
\* half-done push since has removed what it covers.  A line counts once all its
\* text is there.
NothingLost ==
  \A f \in File : Trusted(f) =>
    \A k \in LineNo :
      HasUsage(f, k) /\ Legible(f, k) /\ LineStart(k) < saved[f].offset => Stored(f, k)

\* The server counts nothing twice and nothing that is gone: every row of a file
\* with a trusted parse state stands for a line of the file as it is now.
NothingExtra ==
  \A f \in File : Trusted(f) =>
    \A k \in LineNo : events[f][k] # NoRow => HasUsage(f, k) /\ Stored(f, k)

\* A row names the model that a full scan of the file, as `infohub-agent -print`
\* makes it, gives its line.
ModelsInherited ==
  \A f \in File : Trusted(f) =>
    \A k \in LineNo : events[f][k] # NoRow /\ HasUsage(f, k) =>
      events[f][k].model = ModelOf(logs[f], 0, k, SourceOf[f] = Codex)

\* The ledger the agent keeps: line by line, what a file reads as, what the
\* server has, and how far the agent answers for it.
Reading(f, k) ==
  IF HasUsage(f, k) /\ TextEnd(k) <= Size(logs[f]) THEN logs[f].lines[k].usage ELSE NoUsage

Ledger == INSTANCE UsageLedger WITH
  NoReading <- NoUsage,
  NoMark    <- -1,
  text <- [f \in File |-> [k \in LineNo |-> Reading(f, k)]],
  rows <- [f \in File |-> [k \in LineNo |-> IF events[f][k] = NoRow THEN NoUsage ELSE events[f][k].usage]],
  mark <- [f \in File |-> IF Trusted(f) THEN (saved[f].offset + 1) \div W ELSE -1]

\* The agent and the ingest store implement the ledger: while the agent answers
\* for a file its rows are only added to, each as its line reads, and no retry,
\* reset, late request or crash takes one back or moves the saved offset back.
KeepsLedger == Ledger!Spec

---------------------------------------------------------------------------
(* The inductive invariant behind NothingLost and NothingExtra when Unruly *)
(* is empty.                                                               *)

InRun == phase \in {"scan", "read", "push"}

\* The row under line k, whatever parser version it comes from.
Matches(f, k) == Legible(f, k) /\ events[f][k].usage = logs[f].lines[k].usage

Faithful(r) ==
  Legible(r.file, r.line) /\ r.row.usage = logs[r.file].lines[r.line].usage

\* A parse state the next scan would build on, and what makes that right.
Current(f, ps) == logs[f].exists /\ ps # NoState /\ ~Due(ps, logs[f])

Covers(f, ps) ==
  \A k \in LineNo :
    /\ HasUsage(f, k) /\ TextEnd(k) <= ps.offset => Stored(f, k)
    /\ events[f][k] # NoRow => Matches(f, k) /\ events[f][k].parser = parser

\* Books: which parts of the agent's state can differ from the saved state, and
\* how far the run has come when they do.
Books ==
  /\ phase = "idle" => state = saved
  /\ \A f \in File : state[f] = NoState => saved[f] = NoState
  /\ InRun => \A f \in File : \A i \in source..Len(SourceOrder) :
                SourceOf[f] = SourceOrder[i] => state[f] = saved[f]
  /\ \A f \in File : nextStates[f] # NoState =>
       InRun /\ SourceOf[f] = SourceOrder[source] /\ nextStates[f].parser = parser
  /\ \A f \in resetFiles : nextStates[f] # NoState
  /\ \A r \in records : nextStates[r.file] # NoState /\ r.row.parser = parser
  /\ \A f \in todo : InRun /\ SourceOf[f] = SourceOrder[source] /\ nextStates[f] = NoState
  /\ phase = "read" => stat.file \in todo
  /\ phase # "push" => first
  /\ \A f \in File : saved[f] # NoState => saved[f].parser <= parser
  /\ \A f \in File : state[f] # NoState => state[f].parser <= parser

\* No scan ever stopped inside the text of a line.
WholeText ==
  \A f \in File :
    /\ logs[f].cut # 1
    /\ \A ps \in StatesOf(f) : \A k \in LineNo : ps.offset # LineStart(k) + 1

\* Between the stat of a file and its read.
StatHolds ==
  phase = "read" =>
    LET f == stat.file IN
    /\ stat.reset => stat.offset = 0 /\ Due(state[f], logs[f])
    /\ state[f] = NoState => stat.offset = 0
    /\ state[f] # NoState /\ ~stat.reset =>
         /\ stat.offset = state[f].offset
         /\ state[f].mtime <= stat.mtime
         /\ state[f].parser = parser
    /\ logs[f].exists /\ (logs[f].mtime < stat.mtime \/ Size(logs[f]) < stat.offset)
         => Due(state[f], logs[f])

Waiting(f, k) == \E r \in records : r.file = f /\ r.line = k

Wiped(f) == first /\ f \in resetFiles

\* What the server lacks of a file that was read is what is waiting to be sent.
Pending(f) ==
  /\ \A r \in records : r.file = f => Faithful(r)
  /\ \A k \in LineNo :
       /\ HasUsage(f, k) /\ TextEnd(k) <= nextStates[f].offset
            => Waiting(f, k) \/ (Stored(f, k) /\ ~Wiped(f))
       /\ events[f][k] # NoRow /\ ~Wiped(f)
            => Matches(f, k) /\ (events[f][k].parser = parser \/ Waiting(f, k))

ReadHolds ==
  \A f \in File : nextStates[f] # NoState =>
    /\ logs[f].exists /\ Due(nextStates[f], logs[f]) => Due(state[f], logs[f])
    /\ f \in resetFiles => Due(state[f], logs[f])
    /\ Current(f, nextStates[f]) => Pending(f)

\* A file whose content has only grown since the first row of it was sent.
Intact(f) == logs[f].exists /\ ~Due(saved[f], logs[f])

RowsHold ==
  \A f \in File :
    /\ Intact(f) => \A k \in LineNo : events[f][k] # NoRow => Matches(f, k)
    /\ Current(f, saved[f]) => Covers(f, saved[f])
    /\ Current(f, state[f]) => Covers(f, state[f])

\* A request left behind only carries what the files still say, or concerns
\* files that are due for a reset; it belongs to a source that has failed.
LateHolds ==
  \A req \in late :
    /\ \A f \in File : f \in req.resets \/ (\E r \in req.records : r.file = f) =>
         /\ state[f] = saved[f]
         /\ InRun => \A i \in source..Len(SourceOrder) : SourceOf[f] # SourceOrder[i]
    /\ \A f \in req.resets : Due(saved[f], logs[f])
    /\ \A r \in req.records : Intact(r.file) =>
         /\ Faithful(r)
         /\ phase # "idle" \/ saved[r.file] # NoState => r.row.parser = parser

Agreement ==
  /\ TypeOK /\ Books /\ WholeText /\ StatHolds /\ ReadHolds /\ RowsHold /\ LateHolds

\* Of two parse states that both describe the file the newer one reaches further.
OffsetsGrow ==
  \A f \in File :
    /\ Current(f, saved[f]) /\ Current(f, state[f]) => saved[f].offset <= state[f].offset
    /\ Current(f, state[f]) /\ Current(f, nextStates[f]) => state[f].offset <= nextStates[f].offset

IInv == Agreement /\ OffsetsGrow
=============================================================================
