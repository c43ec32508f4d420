-------------------------- MODULE AgentSync_proofs --------------------------
(***************************************************************************)
(* Proofs about AgentSync.  For every instance: its type invariant.  For   *)
(* every instance in which writers and the network stay within the         *)
(* assumptions (Unruly = {}): the inductive invariant IInv, NothingLost,   *)
(* NothingExtra, and the refinement of UsageLedger.                        *)
(***************************************************************************)
EXTENDS AgentSync, TLAPS

USE DEF W

LEMMA LineType == ASSUME NEW log \in Log, NEW k \in 1..Len(log.lines)
                  PROVE  log.lines[k] \in Line
BY DEF Log

LEMMA SizeType == ASSUME NEW log \in Log
                  PROVE  Size(log) \in Nat /\ Len(log.lines) \in Nat /\ log.mtime \in Nat
BY DEF Log, Size

LEMMA EmptyLogType == /\ EmptyLog \in Log /\ NoLog \in Log
                      /\ MaxLines \in Nat => Len(EmptyLog.lines) <= MaxLines /\ Len(NoLog.lines) <= MaxLines
BY DEF EmptyLog, NoLog, Log

LEMMA NextOffsetType == ASSUME NEW log \in Log, NEW offset \in Nat
                        PROVE  NextOffset(log, offset) \in Nat
BY SizeType DEF NextOffset

\* A record of a usage line is a Row: inheritance yields a model name or none.
LEMMA RowType ==
  ASSUME NEW log \in Log, NEW offset \in Nat, NEW k \in UsageLines(log, offset),
         NEW inherits \in BOOLEAN, NEW version \in Nat
  PROVE  RowOf(log, offset, k, inherits, version) \in Row
<1>1. k \in 1..Len(log.lines) /\ log.lines[k] \in Line /\ log.lines[k].usage \in Usage
  BY LineType DEF UsageLines, Line
<1>2. InheritedModel(log, offset, k) \in Model \cup {NoModel}
  <2> DEFINE Names(j)  == Seen(log, offset, j) /\ log.lines[j].model # NoModel
             IsLast(j) == Names(j) /\ \A i \in (j + 1)..k : ~Names(i)
  <2>1. CASE \E j \in 1..k : IsLast(j)
    <3> DEFINE j == CHOOSE i \in 1..k : IsLast(i)
    <3>1. IsLast(j)
      BY <2>1
    <3>2. log.lines[j] \in Line
      <4>1. j \in 1..Len(log.lines)
        BY <3>1 DEF Seen
      <4> HIDE DEF j
      <4>2. QED BY <4>1, LineType
    <3>3. InheritedModel(log, offset, k) = log.lines[j].model
      BY <2>1 DEF InheritedModel
    <3>4. QED BY <3>2, <3>3 DEF Line
  <2>2. CASE ~ \E j \in 1..k : IsLast(j)
    BY <2>2 DEF InheritedModel
  <2>3. QED BY <2>1, <2>2
<1>3. ModelOf(log, offset, k, inherits) \in Model \cup {NoModel}
  BY <1>1, <1>2 DEF ModelOf, Line
<1>4. QED BY <1>1, <1>3 DEF RowOf, Row

---------------------------------------------------------------------------
(* Type correctness.                                                       *)

\* What every way out of a source's scan or push leaves behind.
LEMMA EndSourceEffect ==
  ASSUME NEW ok \in BOOLEAN, NEW newState, EndSource(ok, newState), source \in 1..Len(SourceOrder)
  PROVE  /\ source' \in 1..Len(SourceOrder) /\ phase' \in {"idle", "scan", "save"}
         /\ phase' = "scan" => source' = source + 1 /\ todo' = FilesOf(source')
         /\ phase' # "scan" => todo' = {}
         /\ nextStates' = NoStates /\ resetFiles' = {} /\ records' = {} /\ first' = TRUE
         /\ stat' = NoState
         /\ state' = IF phase' = "idle" THEN saved ELSE newState
         /\ dirty \in BOOLEAN => dirty' \in BOOLEAN
<1>1. CASE source < Len(SourceOrder)
  <2>1. /\ phase' = "scan" /\ FreshSource(source + 1)
        /\ dirty' = (dirty \/ ok) /\ state' = newState
    BY <1>1 DEF EndSource
  <2>2. source + 1 \in 1..Len(SourceOrder)
    BY <1>1, AgentConstants
  <2>3. dirty' \in BOOLEAN
    BY <2>1, Zenon
  <2>4. QED BY <2>1, <2>2, <2>3 DEF FreshSource
<1>2. CASE ~(source < Len(SourceOrder)) /\ (dirty \/ ok)
  BY <1>2 DEF EndSource
<1>3. CASE ~(source < Len(SourceOrder)) /\ ~(dirty \/ ok)
  <2>1. Idle /\ state' = saved
    BY <1>3 DEF EndSource
  <2>2. 1 \in 1..Len(SourceOrder)
    BY AgentConstants
  <2>3. QED BY <2>1, <2>2 DEF Idle
<1>4. QED BY <1>1, <1>2, <1>3

LEMMA IngestedType ==
  ASSUME TypeOK, NEW req \in Request
  PROVE  Ingested(req) \in [File -> [LineNo -> Row \cup {NoRow}]]
<1> DEFINE Here(f, k) == {r \in req.records : r.file = f /\ r.line = k}
           Cell(f, k) == IF Here(f, k) # {} THEN (CHOOSE r \in Here(f, k) : TRUE).row
                         ELSE IF f \in req.resets THEN NoRow ELSE events[f][k]
<1>1. ASSUME NEW f \in File, NEW k \in LineNo
      PROVE  Cell(f, k) \in Row \cup {NoRow}
  <2>1. CASE Here(f, k) # {}
    <3>1. (CHOOSE r \in Here(f, k) : TRUE) \in Here(f, k)
      BY <2>1
    <3>2. Here(f, k) \subseteq Record
      BY DEF Request
    <3>3. QED BY <2>1, <3>1, <3>2 DEF Record
  <2>2. CASE Here(f, k) = {}
    BY <2>2 DEF TypeOK
  <2>3. QED BY <2>1, <2>2
<1>2. Ingested(req) = [f \in File |-> [k \in LineNo |-> Cell(f, k)]]
  BY DEF Ingested
<1> HIDE DEF Cell
<1>3. QED BY <1>1, <1>2

LEMMA CurrentRequestType == ASSUME TypeOK PROVE CurrentRequest \in Request
BY DEF TypeOK, CurrentRequest, Request, Chunk

LEMMA AppliedType == ASSUME TypeOK PROVE Applied \in [File -> ParseState \cup {NoState}]
BY DEF TypeOK, Applied

LEMMA NoStatesType == NoStates \in [File -> ParseState \cup {NoState}]
BY DEF NoStates

\* The files a step writes keep their type.
LEMMA WriterType ==
  ASSUME TypeOK, NEW f \in File, AppendLine(f) \/ ContinueLine(f) \/ ReplaceLog(f) \/ RemoveLog(f)
  PROVE  /\ logs' \in [File -> Log] /\ \A g \in File : Len(logs'[g].lines) <= MaxLines
         /\ UNCHANGED <<parser, saved, agentVars, events, late>>
<1> USE AgentConstants
<1>1. logs \in [File -> Log] /\ logs[f] \in Log /\ logs[f].lines \in Seq(Line) /\ logs[f].mtime \in Nat
  BY DEF TypeOK, Log
<1>2. Cuts \subseteq 1..W
  BY DEF Cuts
<1>3. ASSUME NEW log \in Log, Len(log.lines) <= MaxLines, WriteLog(f, log)
      PROVE  /\ logs' \in [File -> Log] /\ \A g \in File : Len(logs'[g].lines) <= MaxLines
             /\ UNCHANGED <<parser, saved, agentVars, events, late>>
  BY <1>1, <1>3 DEF WriteLog, TypeOK
<1>4. CASE AppendLine(f)
  <2>1. PICK line \in Line, cut \in Cuts, t \in logs[f].mtime..MaxMTime :
          WriteLog(f, [exists |-> TRUE, lines |-> Append(logs[f].lines, line), cut |-> cut, mtime |-> t])
    BY <1>4 DEF AppendLine
  <2>2. Len(logs[f].lines) \in Nat /\ Len(logs[f].lines) < MaxLines
    BY <1>4, <1>1, SizeType DEF AppendLine
  <2>3. Append(logs[f].lines, line) \in Seq(Line) /\ Len(Append(logs[f].lines, line)) <= MaxLines
    BY <1>1, <2>2
  <2>4. [exists |-> TRUE, lines |-> Append(logs[f].lines, line), cut |-> cut, mtime |-> t] \in Log
    BY <1>1, <1>2, <2>3 DEF Log
  <2>5. QED BY <1>3, <2>1, <2>3, <2>4
<1>5. CASE ContinueLine(f)
  <2>1. PICK cut \in Cuts, t \in logs[f].mtime..MaxMTime :
          /\ cut > logs[f].cut
          /\ WriteLog(f, [exists |-> TRUE, lines |-> logs[f].lines, cut |-> cut, mtime |-> t])
    BY <1>5 DEF ContinueLine
  <2>2. [exists |-> TRUE, lines |-> logs[f].lines, cut |-> cut, mtime |-> t] \in Log
    BY <1>1, <1>2, <2>1 DEF Log
  <2>3. QED BY <1>3, <2>1, <2>2 DEF TypeOK
<1>6. CASE ReplaceLog(f)
  <2>a. PICK n \in 0..MaxLines : \E lines \in [1..n -> Line], cut \in Cuts, t \in 0..MaxMTime :
          WriteLog(f, [exists |-> TRUE, lines |-> lines, cut |-> IF n = 0 THEN W ELSE cut, mtime |-> t])
    BY <1>6 DEF ReplaceLog
  <2>1. PICK lines \in [1..n -> Line], cut \in Cuts, t \in 0..MaxMTime :
          WriteLog(f, [exists |-> TRUE, lines |-> lines, cut |-> IF n = 0 THEN W ELSE cut, mtime |-> t])
    BY <2>a
  <2>2. lines \in Seq(Line) /\ Len(lines) = n
    OBVIOUS
  <2>3. [exists |-> TRUE, lines |-> lines, cut |-> IF n = 0 THEN W ELSE cut, mtime |-> t] \in Log
    BY <1>2, <2>2 DEF Log
  <2>4. QED BY <1>3, <2>1, <2>2, <2>3
<1>7. CASE RemoveLog(f)
  <2>1. NoLog \in Log /\ Len(NoLog.lines) <= MaxLines
    BY EmptyLogType
  <2>2. QED BY <1>3, <1>7, <2>1 DEF RemoveLog
<1>8. QED BY <1>4, <1>5, <1>6, <1>7

LEMMA TypeStep == TypeOK /\ [Next]_vars => TypeOK'
<1> SUFFICES ASSUME TypeOK, [Next]_vars PROVE TypeOK'
  OBVIOUS
<1> USE AgentConstants
<1>a. /\ logs \in [File -> Log] /\ parser \in Nat
      /\ saved \in [File -> ParseState \cup {NoState}] /\ state \in [File -> ParseState \cup {NoState}]
      /\ source \in 1..Len(SourceOrder) /\ dirty \in BOOLEAN
  BY DEF TypeOK
<1>c. 1 \in 1..Len(SourceOrder)
  OBVIOUS
<1>b. ASSUME NEW ok \in BOOLEAN, NEW newState \in [File -> ParseState \cup {NoState}], EndSource(ok, newState)
      PROVE  /\ state' \in [File -> ParseState \cup {NoState}]
             /\ nextStates' \in [File -> ParseState \cup {NoState}]
             /\ phase' \in {"idle", "scan", "read", "push", "save"} /\ phase' # "read"
             /\ source' \in 1..Len(SourceOrder)
             /\ todo' \subseteq File /\ resetFiles' \subseteq File /\ records' \subseteq Record
             /\ first' \in BOOLEAN /\ dirty' \in BOOLEAN
  BY <1>a, <1>b, EndSourceEffect, NoStatesType DEF FilesOf
<1>1. CASE Writer
  BY <1>1, WriterType DEF Writer, TypeOK, agentVars
<1>2. CASE StartRun
  BY <1>2, <1>a, <1>c, NoStatesType DEF StartRun, FreshSource, FilesOf, TypeOK
<1>3. ASSUME NEW f \in File, StatFile(f) PROVE TypeOK'
  <2>1. logs[f].mtime \in Nat
    BY <1>a, SizeType
  <2>2. state[f] # NoState => state[f].offset \in Nat
    BY <1>a DEF ParseState
  <2>3. Due(state[f], logs[f]) \in BOOLEAN
    BY DEF Due, NeedsReset
  <2>4. QED BY <1>3, <2>1, <2>2, <2>3 DEF StatFile, TypeOK
<1>4. CASE ReadFile
  <2>1. /\ stat.file \in File /\ stat.offset \in Nat /\ stat.mtime \in Nat
        /\ logs[stat.file] \in Log /\ (SourceOf[stat.file] = Codex) \in BOOLEAN
    BY <1>4, <1>a DEF ReadFile, TypeOK
  <2>2. ASSUME NEW k \in UsageLines(logs[stat.file], stat.offset)
        PROVE  [file |-> stat.file, line |-> k,
                row |-> RowOf(logs[stat.file], stat.offset, k, SourceOf[stat.file] = Codex, parser)] \in Record
    <3>1. k \in LineNo
      BY <2>1 DEF UsageLines, LineNo, TypeOK
    <3>2. RowOf(logs[stat.file], stat.offset, k, SourceOf[stat.file] = Codex, parser) \in Row
      BY <1>a, <2>1, RowType
    <3>3. QED BY <2>1, <3>1, <3>2 DEF Record
  <2>3. records' \subseteq Record
    BY <1>4, <2>2 DEF ReadFile, TypeOK
  <2>4. [offset |-> NextOffset(logs[stat.file], stat.offset), mtime |-> stat.mtime, parser |-> parser] \in ParseState
    BY <1>a, <2>1, NextOffsetType DEF ParseState
  <2>5. nextStates' \in [File -> ParseState \cup {NoState}]
    BY <1>4, <2>4 DEF ReadFile, TypeOK
  <2>6. QED BY <1>4, <2>1, <2>3, <2>5 DEF ReadFile, TypeOK
<1>5. CASE SkipFile
  BY <1>5 DEF SkipFile, TypeOK
<1>6. CASE ScanFails
  BY <1>6, <1>a, <1>b DEF ScanFails, TypeOK
<1>7. CASE ScanDone
  BY <1>7, <1>a, <1>b DEF ScanDone, TypeOK
<1>8. CASE PushAccepted
  <2>1. events' \in [File -> [LineNo -> Row \cup {NoRow}]]
    BY <1>8, IngestedType, CurrentRequestType DEF PushAccepted
  <2>2. CASE records \subseteq Chunk
    BY <1>8, <1>a, <1>b, <2>1, <2>2, AppliedType DEF PushAccepted, TypeOK
  <2>3. CASE ~(records \subseteq Chunk)
    BY <1>8, <2>1, <2>3 DEF PushAccepted, TypeOK
  <2>4. QED BY <2>2, <2>3
<1>9. CASE PushRefused
  BY <1>9, <1>a, <1>b DEF PushRefused, TypeOK
<1>10. CASE PushStoredButFailed
  <2>1. events' \in [File -> [LineNo -> Row \cup {NoRow}]]
    BY <1>10, IngestedType, CurrentRequestType DEF PushStoredButFailed
  <2>2. QED BY <1>10, <1>a, <1>b, <2>1 DEF PushStoredButFailed, TypeOK
<1>11. CASE PushTimesOut
  BY <1>11, <1>a, <1>b, CurrentRequestType DEF PushTimesOut, TypeOK
<1>12. CASE LateStored
  <2>1. PICK req \in late : events' = Ingested(req) /\ late' = late \ {req}
    BY <1>12 DEF LateStored
  <2>2. events' \in [File -> [LineNo -> Row \cup {NoRow}]]
    BY <2>1, IngestedType DEF TypeOK
  <2>3. QED BY <1>12, <2>1, <2>2 DEF LateStored, TypeOK, agentVars
<1>13. CASE LateDropped
  BY <1>13 DEF LateDropped, TypeOK, agentVars
<1>14. CASE SaveState
  BY <1>14, <1>a, <1>c, NoStatesType DEF SaveState, Idle, TypeOK
<1>15. CASE SaveFails
  BY <1>15, <1>a, <1>c, NoStatesType DEF SaveFails, Idle, TypeOK
<1>16. CASE Crash
  BY <1>16, <1>a, <1>c, NoStatesType, CurrentRequestType DEF Crash, Idle, TypeOK
<1>17. CASE Upgrade
  BY <1>17 DEF Upgrade, TypeOK, agentVars
<1>18. CASE LoseState
  BY <1>18, NoStatesType DEF LoseState, TypeOK
<1>19. CASE UNCHANGED vars
  BY <1>19 DEF vars, agentVars, TypeOK
<1>20. QED
  BY <1>1, <1>2, <1>3, <1>4, <1>5, <1>6, <1>7, <1>8, <1>9, <1>10, <1>11, <1>12, <1>13,
     <1>14, <1>15, <1>16, <1>17, <1>18, <1>19
     DEF Next, Progress, Settle, Fault, ReadMissing, ReadError

LEMMA TypeInit == Init => TypeOK
<1> SUFFICES ASSUME Init PROVE TypeOK
  OBVIOUS
<1>1. logs \in [File -> Log] /\ \A f \in File : Len(logs[f].lines) <= MaxLines
  BY AgentConstants, EmptyLogType DEF Init
<1>2. events \in [File -> [LineNo -> Row \cup {NoRow}]]
  BY DEF Init
<1>3. 1 \in 1..Len(SourceOrder)
  BY AgentConstants
<1>4. QED BY <1>1, <1>2, <1>3, NoStatesType DEF Init, TypeOK

\* Every reachable state is well typed, whatever writers and network do.
THEOREM TypeCorrect == Spec => []TypeOK
<1>1. QED BY TypeInit, TypeStep, PTL DEF Spec

---------------------------------------------------------------------------
(* The inductive invariant: what the writers do to it.                     *)

\* A file only gained content between two of its states.
Grows(old, new) ==
  /\ old.exists /\ new.exists
  /\ Size(old) <= Size(new) /\ old.mtime <= new.mtime
  /\ Len(old.lines) <= Len(new.lines)
  /\ \A k \in 1..Len(old.lines) : new.lines[k] = old.lines[k]

LEMMA TextInside ==
  ASSUME NEW log \in Log, NEW k \in Nat, TextEnd(k) <= Size(log)
  PROVE  k <= Len(log.lines)
BY SizeType DEF TextEnd, LineStart, Size, Log

LEMMA WriterEffect ==
  ASSUME TypeOK, WholeText, Unruly = {},
         NEW f \in File, AppendLine(f) \/ ContinueLine(f) \/ ReplaceLog(f) \/ RemoveLog(f)
  PROVE  /\ \A g \in File : g # f => logs'[g] = logs[g]
         /\ logs'[f].cut # 1
         /\ \A ps \in StatesOf(f) : Due(ps, logs[f]) => Due(ps, logs'[f])
         /\ \/ Grows(logs[f], logs'[f])
            \/ ~logs'[f].exists
            \/ saved[f] # NoState /\ \A ps \in StatesOf(f) : Due(ps, logs'[f])
            \/ Unread(f)
<1>1. logs \in [File -> Log] /\ logs[f] \in Log
  BY DEF TypeOK
<1>2. /\ Len(logs[f].lines) \in Nat /\ logs[f].lines \in Seq(Line) /\ logs[f].mtime \in Nat
      /\ logs[f].cut \in 1..3
  BY <1>1 DEF Log
<1>3. Cuts = {2, 3}
  BY DEF Cuts
<1>4. ASSUME NEW log, WriteLog(f, log)
      PROVE  logs'[f] = log /\ \A g \in File : g # f => logs'[g] = logs[g]
  BY <1>1, <1>4 DEF WriteLog
<1>5. CASE AppendLine(f)
  <2>1. PICK line \in Line, cut \in Cuts, t \in logs[f].mtime..MaxMTime :
          LET log == [exists |-> TRUE, lines |-> Append(logs[f].lines, line), cut |-> cut, mtime |-> t]
          IN  KeepsDue(f, log) /\ WriteLog(f, log)
    BY <1>5 DEF AppendLine
  <2> DEFINE log == [exists |-> TRUE, lines |-> Append(logs[f].lines, line), cut |-> cut, mtime |-> t]
  <2>2. logs[f].exists /\ logs[f].cut = 3
    BY <1>5 DEF AppendLine
  <2>3. /\ Len(log.lines) = Len(logs[f].lines) + 1
        /\ \A k \in 1..Len(logs[f].lines) : log.lines[k] = logs[f].lines[k]
    BY <1>2
  <2>4. Grows(logs[f], log)
    BY <1>2, <1>3, <2>2, <2>3 DEF Grows, Size
  <2>5. \A ps \in StatesOf(f) : Due(ps, logs[f]) => Due(ps, log)
    BY <2>1 DEF KeepsDue
  <2>6. log.cut # 1
    BY <1>3
  <2>7. logs'[f] = log /\ \A g \in File : g # f => logs'[g] = logs[g]
    BY <1>4, <2>1
  <2> HIDE DEF log
  <2>8. QED BY <2>4, <2>5, <2>6, <2>7
<1>6. CASE ContinueLine(f)
  <2>1. PICK cut \in Cuts, t \in logs[f].mtime..MaxMTime :
          LET log == [exists |-> TRUE, lines |-> logs[f].lines, cut |-> cut, mtime |-> t]
          IN  cut > logs[f].cut /\ KeepsDue(f, log) /\ WriteLog(f, log)
    BY <1>6 DEF ContinueLine
  <2> DEFINE log == [exists |-> TRUE, lines |-> logs[f].lines, cut |-> cut, mtime |-> t]
  <2>2. logs[f].exists
    BY <1>6 DEF ContinueLine
  <2>4. Grows(logs[f], log)
    BY <1>2, <1>3, <2>1, <2>2 DEF Grows, Size
  <2>5. \A ps \in StatesOf(f) : Due(ps, logs[f]) => Due(ps, log)
    BY <2>1 DEF KeepsDue
  <2>6. log.cut # 1
    BY <1>3
  <2>7. logs'[f] = log /\ \A g \in File : g # f => logs'[g] = logs[g]
    BY <1>4, <2>1
  <2> HIDE DEF log
  <2>8. QED BY <2>4, <2>5, <2>6, <2>7
<1>7. CASE ReplaceLog(f)
  <2>a. PICK n \in 0..MaxLines : \E lines \in [1..n -> Line], cut \in Cuts, t \in 0..MaxMTime :
          LET log == [exists |-> TRUE, lines |-> lines, cut |-> IF n = 0 THEN W ELSE cut, mtime |-> t]
          IN  /\ "regrow" \in Unruly \/ \A ps \in StatesOf(f) : Due(ps, log)
              /\ "unsaved" \in Unruly \/ saved[f] # NoState \/ Unread(f)
              /\ WriteLog(f, log)
    BY <1>7 DEF ReplaceLog
  <2>1. PICK lines \in [1..n -> Line], cut \in Cuts, t \in 0..MaxMTime :
          LET log == [exists |-> TRUE, lines |-> lines, cut |-> IF n = 0 THEN W ELSE cut, mtime |-> t]
          IN  /\ "regrow" \in Unruly \/ \A ps \in StatesOf(f) : Due(ps, log)
              /\ "unsaved" \in Unruly \/ saved[f] # NoState \/ Unread(f)
              /\ WriteLog(f, log)
    BY <2>a
  <2> DEFINE log == [exists |-> TRUE, lines |-> lines, cut |-> IF n = 0 THEN W ELSE cut, mtime |-> t]
  <2>2. /\ \A ps \in StatesOf(f) : Due(ps, log)
        /\ saved[f] # NoState \/ Unread(f)
    BY <2>1
  <2>3. log.cut # 1
    BY <1>3
  <2>4. logs'[f] = log /\ \A g \in File : g # f => logs'[g] = logs[g]
    BY <1>4, <2>1
  <2> HIDE DEF log
  <2>5. QED BY <2>2, <2>3, <2>4
<1>8. CASE RemoveLog(f)
  <2>1. logs'[f] = NoLog /\ \A g \in File : g # f => logs'[g] = logs[g]
    BY <1>4, <1>8 DEF RemoveLog
  <2>2. ASSUME NEW ps \in StatesOf(f), Due(ps, logs[f]) PROVE Due(ps, NoLog)
    <3>1. ps \in ParseState
      BY <2>2 DEF StatesOf, TypeOK
    <3>2. Size(logs[f]) \in Int /\ Size(logs[f]) >= 0 - 2 /\ Size(NoLog) = 0 /\ NoLog.mtime = 0
      BY <1>2 DEF Size, NoLog
    <3>3. CASE ps.offset > 0
      BY <2>2, <3>1, <3>2, <3>3 DEF Due, NeedsReset, ParseState
    <3>4. CASE ps.offset = 0
      BY <1>1, <1>2, <2>2, <3>1, <3>2, <3>4, SizeType DEF Due, NeedsReset, ParseState
    <3>5. QED BY <3>1, <3>3, <3>4 DEF ParseState
  <2>3. ~NoLog.exists /\ NoLog.cut # 1
    BY DEF NoLog
  <2>4. QED BY <2>1, <2>2, <2>3
<1>9. QED BY <1>5, <1>6, <1>7, <1>8

\* When a file only grows, its rows and the records read from it stay right,
\* and a parse state that described it covers no line that is new.
LEMMA GrowthKeeps ==
  ASSUME TypeOK, NEW f \in File, Grows(logs[f], logs'[f]), logs'[f] \in Log,
         UNCHANGED <<parser, saved, agentVars, events, late>>
  PROVE  /\ \A ps \in StatesOf(f) : Due(ps, logs'[f]) => Due(ps, logs[f])
         /\ \A k \in LineNo : Legible(f, k) => Legible(f, k)' /\ logs'[f].lines[k] = logs[f].lines[k]
         /\ \A k \in LineNo : Matches(f, k) => Matches(f, k)'
         /\ \A r \in Record : r.file = f /\ Faithful(r) => Faithful(r)'
         /\ \A k \in LineNo, ps \in StatesOf(f) :
              ~Due(ps, logs[f]) /\ HasUsage(f, k)' /\ TextEnd(k) <= ps.offset
                => HasUsage(f, k) /\ logs'[f].lines[k] = logs[f].lines[k]
<1>1. /\ logs[f] \in Log /\ Size(logs[f]) \in Nat /\ Size(logs'[f]) \in Nat
      /\ Len(logs[f].lines) \in Nat /\ Len(logs'[f].lines) \in Nat
      /\ logs[f].mtime \in Nat /\ logs'[f].mtime \in Nat
  BY SizeType DEF TypeOK
<1>2. \A ps \in StatesOf(f) : ps \in ParseState /\ ps # NoState
  BY DEF StatesOf, TypeOK
<1>3. \A ps \in StatesOf(f) : Due(ps, logs'[f]) => Due(ps, logs[f])
  BY <1>1, <1>2 DEF Due, NeedsReset, Grows, ParseState
<1>4. \A k \in LineNo : Legible(f, k) => Legible(f, k)' /\ logs'[f].lines[k] = logs[f].lines[k]
  <2> SUFFICES ASSUME NEW k \in LineNo, Legible(f, k)
               PROVE  Legible(f, k)' /\ logs'[f].lines[k] = logs[f].lines[k]
    OBVIOUS
  <2>1. k \in Nat /\ TextEnd(k) \in Int
    BY AgentConstants DEF LineNo, TextEnd, LineStart
  <2>2. k \in 1..Len(logs[f].lines) /\ TextEnd(k) <= Size(logs[f])
    BY DEF Legible
  <2>3. k \in 1..Len(logs'[f].lines) /\ TextEnd(k) <= Size(logs'[f])
    BY <1>1, <2>1, <2>2 DEF Grows
  <2>4. QED BY <2>2, <2>3 DEF Legible, Grows
<1>5. \A k \in LineNo : Matches(f, k) => Matches(f, k)'
  BY <1>4 DEF Matches
<1>6. \A r \in Record : r.file = f /\ Faithful(r) => Faithful(r)'
  BY <1>4 DEF Faithful, Record
<1>7. ASSUME NEW k \in LineNo, NEW ps \in StatesOf(f),
             ~Due(ps, logs[f]), HasUsage(f, k)', TextEnd(k) <= ps.offset
      PROVE  HasUsage(f, k) /\ logs'[f].lines[k] = logs[f].lines[k]
  <2>1. k \in Nat /\ k >= 1 /\ TextEnd(k) \in Int
    BY AgentConstants DEF LineNo, TextEnd, LineStart
  <2>2. ps.offset <= Size(logs[f])
    BY <1>1, <1>2, <1>7 DEF Due, NeedsReset, ParseState
  <2>3. k <= Len(logs[f].lines)
    <3>1. TextEnd(k) <= Size(logs[f])
      BY <1>1, <1>2, <1>7, <2>1, <2>2 DEF ParseState
    <3>2. QED BY <1>1, <2>1, <3>1, TextInside
  <2>4. k \in 1..Len(logs[f].lines)
    BY <1>1, <2>1, <2>3
  <2>5. QED BY <1>7, <2>4 DEF HasUsage, Grows
<1>8. QED BY <1>3, <1>4, <1>5, <1>6, <1>7

LEMMA GrowthKeepsCovers ==
  ASSUME TypeOK, NEW f \in File, Grows(logs[f], logs'[f]), logs'[f] \in Log,
         UNCHANGED <<parser, saved, agentVars, events, late>>,
         NEW ps \in StatesOf(f), ~Due(ps, logs[f]), Covers(f, ps)
  PROVE  Covers(f, ps)'
<1> USE GrowthKeeps
<1> SUFFICES ASSUME NEW k \in LineNo
             PROVE  /\ HasUsage(f, k)' /\ TextEnd(k) <= ps.offset => Stored(f, k)'
                    /\ events[f][k] # NoRow => Matches(f, k)' /\ events[f][k].parser = parser
  BY DEF Covers
<1>1. HasUsage(f, k)' /\ TextEnd(k) <= ps.offset => Stored(f, k)'
  BY DEF Covers, Stored
<1>2. events[f][k] # NoRow => Matches(f, k)' /\ events[f][k].parser = parser
  BY DEF Covers
<1>3. QED BY <1>1, <1>2

LEMMA GrowthKeepsPending ==
  ASSUME TypeOK, NEW f \in File, Grows(logs[f], logs'[f]), logs'[f] \in Log,
         UNCHANGED <<parser, saved, agentVars, events, late>>,
         nextStates[f] # NoState, ~Due(nextStates[f], logs[f]), Pending(f)
  PROVE  Pending(f)'
<1> USE GrowthKeeps
<1>0. nextStates[f] \in StatesOf(f) /\ UNCHANGED <<records, first, resetFiles, nextStates>>
  BY DEF StatesOf, agentVars
<1>1. \A r \in records : r.file = f => Faithful(r)'
  BY DEF Pending, TypeOK
<1>2. ASSUME NEW k \in LineNo, HasUsage(f, k)', TextEnd(k) <= nextStates[f].offset
      PROVE  Waiting(f, k)' \/ (Stored(f, k)' /\ ~Wiped(f)')
  BY <1>0, <1>2 DEF Pending, Stored, Waiting, Wiped
<1>3. ASSUME NEW k \in LineNo, events[f][k] # NoRow, ~Wiped(f)'
      PROVE  Matches(f, k)' /\ (events[f][k].parser = parser \/ Waiting(f, k)')
  BY <1>0, <1>3 DEF Pending, Waiting, Wiped
<1>4. QED BY <1>0, <1>1, <1>2, <1>3 DEF Pending

LEMMA WriterStep == Agreement /\ Unruly = {} /\ Writer => Agreement'
<1> SUFFICES ASSUME Agreement, Unruly = {}, Writer PROVE Agreement'
  OBVIOUS
<1>1. PICK f \in File : AppendLine(f) \/ ContinueLine(f) \/ ReplaceLog(f) \/ RemoveLog(f)
  BY DEF Writer
<1>2. TypeOK /\ WholeText /\ Books
  BY DEF Agreement
<1>3. /\ logs' \in [File -> Log] /\ TypeOK'
      /\ UNCHANGED <<parser, saved, agentVars, events, late>>
  <2>1. TypeOK'
    BY <1>2, TypeStep DEF Next
  <2>2. QED BY <1>1, <1>2, <2>1, WriterType
<1>4. UNCHANGED <<phase, source, state, todo, stat, nextStates, resetFiles, records, first, dirty>>
  BY <1>3 DEF agentVars
<1>5. /\ \A g \in File : g # f => logs'[g] = logs[g]
      /\ logs'[f].cut # 1
      /\ \A ps \in StatesOf(f) : Due(ps, logs[f]) => Due(ps, logs'[f])
      /\ \/ Grows(logs[f], logs'[f])
         \/ ~logs'[f].exists
         \/ saved[f] # NoState /\ \A ps \in StatesOf(f) : Due(ps, logs'[f])
         \/ Unread(f)
  BY <1>1, <1>2, WriterEffect
<1>6. /\ saved[f] # NoState => saved[f] \in StatesOf(f)
      /\ state[f] # NoState => state[f] \in StatesOf(f)
      /\ nextStates[f] # NoState => nextStates[f] \in StatesOf(f)
      /\ saved[f] # NoState => state[f] # NoState
  BY <1>2 DEF StatesOf, Books
<1>8. \A ps, log : Due(ps, log) => ps # NoState
  BY DEF Due
\* The three parse states of f that may be due, before and after.
<1>9. ASSUME Grows(logs[f], logs'[f])
      PROVE  \A ps \in StatesOf(f) : Due(ps, logs'[f]) <=> Due(ps, logs[f])
  BY <1>2, <1>3, <1>5, <1>9, GrowthKeeps
<1>10. Books'
  BY <1>2, <1>3, <1>4 DEF Books, InRun
<1>11. WholeText'
  BY <1>2, <1>3, <1>4, <1>5 DEF WholeText, StatesOf
<1>12. StatHolds'
  <2> SUFFICES ASSUME phase = "read", stat.file = f
               PROVE  /\ stat.reset => stat.offset = 0 /\ Due(state[f], logs'[f])
                      /\ state[f] = NoState => stat.offset = 0
                      /\ state[f] # NoState /\ ~stat.reset =>
                           /\ stat.offset = state[f].offset
                           /\ state[f].mtime <= stat.mtime
                           /\ state[f].parser = parser
                      /\ logs'[f].exists /\ (logs'[f].mtime < stat.mtime \/ Size(logs'[f]) < stat.offset)
                           => Due(state[f], logs'[f])
    <3>1. phase = "read" => stat.file \in File
      BY <1>2 DEF TypeOK
    <3>2. QED BY <1>3, <1>4, <1>5, <3>1 DEF Agreement, StatHolds, Due
  <2>1. StatHolds
    BY DEF Agreement
  <2>2. ASSUME logs'[f].exists, logs'[f].mtime < stat.mtime \/ Size(logs'[f]) < stat.offset
        PROVE  Due(state[f], logs'[f])
    <3>1. CASE Grows(logs[f], logs'[f])
      <4>1. /\ logs[f].mtime \in Nat /\ logs'[f].mtime \in Nat
            /\ Size(logs[f]) \in Nat /\ Size(logs'[f]) \in Nat
            /\ stat.mtime \in Nat /\ stat.offset \in Nat
        BY <1>2, <1>3, SizeType DEF TypeOK
      <4>2. logs[f].exists /\ (logs[f].mtime < stat.mtime \/ Size(logs[f]) < stat.offset)
        BY <2>2, <3>1, <4>1 DEF Grows
      <4>3. QED BY <1>5, <1>6, <1>8, <2>1, <4>2 DEF StatHolds
    <3>2. CASE saved[f] # NoState /\ \A ps \in StatesOf(f) : Due(ps, logs'[f])
      BY <1>6, <3>2
    <3>3. QED BY <1>5, <2>2, <3>1, <3>2 DEF Unread
  <2>3. QED BY <1>5, <1>6, <1>8, <2>1, <2>2 DEF StatHolds
<1>13. ReadHolds'
  <2> SUFFICES ASSUME nextStates[f] # NoState
               PROVE  /\ logs'[f].exists /\ Due(nextStates[f], logs'[f]) => Due(state[f], logs'[f])
                      /\ f \in resetFiles => Due(state[f], logs'[f])
                      /\ logs'[f].exists /\ ~Due(nextStates[f], logs'[f]) => Pending(f)'
    <3>1. ASSUME NEW g \in File, g # f, Pending(g) PROVE Pending(g)'
      <4>1. \A r \in records : r.file = g /\ Faithful(r) => Faithful(r)'
        BY <1>4, <1>5, <3>1 DEF Faithful, Legible
      <4>2. \A k \in LineNo : /\ HasUsage(g, k)' <=> HasUsage(g, k)
                              /\ Stored(g, k)' <=> Stored(g, k)
                              /\ Matches(g, k)' <=> Matches(g, k)
                              /\ Waiting(g, k)' <=> Waiting(g, k)
        BY <1>3, <1>4, <1>5, <3>1 DEF HasUsage, Stored, Matches, Legible, Waiting
      <4>3. Wiped(g)' <=> Wiped(g)
        BY <1>4 DEF Wiped
      <4>4. QED BY <1>3, <1>4, <3>1, <4>1, <4>2, <4>3 DEF Pending
    <3>2. QED BY <1>3, <1>4, <1>5, <3>1 DEF Agreement, ReadHolds, Current, Due
  <2>1. ReadHolds
    BY DEF Agreement
  <2>2. CASE Grows(logs[f], logs'[f])
    <3>1. logs[f].exists
      BY <2>2 DEF Grows
    <3>2. ~Due(nextStates[f], logs'[f]) => Pending(f)'
      <4>1. SUFFICES ASSUME ~Due(nextStates[f], logs[f]) PROVE Pending(f)'
        BY <1>6, <1>9, <2>2
      <4>2. Pending(f)
        BY <2>1, <3>1, <4>1 DEF ReadHolds, Current
      <4>3. QED BY <1>2, <1>3, <2>2, <4>1, <4>2, GrowthKeepsPending
    <3>3. QED BY <1>6, <1>8, <1>9, <2>1, <2>2, <3>1, <3>2 DEF ReadHolds
  <2>3. CASE ~logs'[f].exists
    BY <1>5, <1>6, <1>8, <2>1, <2>3 DEF ReadHolds
  <2>4. CASE saved[f] # NoState /\ \A ps \in StatesOf(f) : Due(ps, logs'[f])
    BY <1>6, <2>4
  <2>5. QED BY <1>5, <1>6, <2>2, <2>3, <2>4 DEF Unread
<1>14. RowsHold'
  <2>1. ASSUME NEW g \in File
        PROVE  /\ logs'[g].exists /\ ~Due(saved[g], logs'[g]) =>
                    \A k \in LineNo : events[g][k] # NoRow => Matches(g, k)'
               /\ logs'[g].exists /\ saved[g] # NoState /\ ~Due(saved[g], logs'[g]) => Covers(g, saved[g])'
               /\ logs'[g].exists /\ state[g] # NoState /\ ~Due(state[g], logs'[g]) => Covers(g, state[g])'
    <3>1. CASE g # f
      <4>1. \A k \in LineNo : /\ HasUsage(g, k)' <=> HasUsage(g, k)
                              /\ Stored(g, k)' <=> Stored(g, k)
                              /\ Matches(g, k)' <=> Matches(g, k)
        BY <1>3, <1>5, <3>1 DEF HasUsage, Stored, Matches, Legible
      <4>2. \A ps : Covers(g, ps) => Covers(g, ps)'
        BY <1>3, <4>1 DEF Covers
      <4>3. logs'[g] = logs[g] /\ RowsHold
        BY <1>5, <3>1 DEF Agreement
      <4>4. /\ Covers(g, saved[g]) => Covers(g, saved[g])'
            /\ Covers(g, state[g]) => Covers(g, state[g])'
        BY <1>3, <1>4, <4>1 DEF Covers
      <4>5. QED BY <4>1, <4>3, <4>4 DEF RowsHold, Intact, Current
    <3>2. CASE g = f /\ Grows(logs[f], logs'[f])
      <4>1. logs[f].exists /\ RowsHold
        BY <3>2 DEF Grows, Agreement
      <4>2. logs'[f].exists /\ ~Due(saved[f], logs'[f]) =>
              \A k \in LineNo : events[f][k] # NoRow => Matches(f, k)'
        <5>1. ~Due(saved[f], logs'[f]) => ~Due(saved[f], logs[f])
          BY <1>6, <1>8, <1>9, <3>2
        <5>2. \A k \in LineNo : Matches(f, k) => Matches(f, k)'
          BY <1>2, <1>3, <3>2, GrowthKeeps
        <5>3. QED BY <4>1, <5>1, <5>2 DEF RowsHold, Intact
      <4>3. saved[f] # NoState /\ ~Due(saved[f], logs'[f]) => Covers(f, saved[f])'
        <5> SUFFICES ASSUME saved[f] # NoState, ~Due(saved[f], logs'[f]) PROVE Covers(f, saved[f])'
          OBVIOUS
        <5>1. ~Due(saved[f], logs[f])
          BY <1>6, <1>9, <3>2
        <5>2. Covers(f, saved[f])
          BY <4>1, <5>1 DEF RowsHold, Current
        <5>3. QED BY <1>2, <1>3, <1>6, <3>2, <5>1, <5>2, GrowthKeepsCovers
      <4>4. state[f] # NoState /\ ~Due(state[f], logs'[f]) => Covers(f, state[f])'
        <5> SUFFICES ASSUME state[f] # NoState, ~Due(state[f], logs'[f]) PROVE Covers(f, state[f])'
          OBVIOUS
        <5>1. ~Due(state[f], logs[f])
          BY <1>6, <1>9, <3>2
        <5>2. Covers(f, state[f])
          BY <4>1, <5>1 DEF RowsHold, Current
        <5>3. QED BY <1>2, <1>3, <1>4, <1>6, <3>2, <5>1, <5>2, GrowthKeepsCovers
      <4>5. QED BY <3>2, <4>2, <4>3, <4>4
    <3>3. CASE g = f /\ ~logs'[f].exists
      BY <3>3
    <3>4. CASE g = f /\ saved[f] # NoState /\ \A ps \in StatesOf(f) : Due(ps, logs'[f])
      BY <1>6, <3>4
    <3>5. CASE g = f /\ Unread(f)
      BY <1>6, <3>5 DEF Unread
    <3>6. QED BY <1>5, <3>1, <3>2, <3>3, <3>4, <3>5
  <2>2. QED BY <1>3, <1>4, <2>1 DEF RowsHold, Intact, Current, Due
<1>15. LateHolds'
  <2>1. LateHolds
    BY DEF Agreement
  <2> SUFFICES ASSUME NEW req \in late
               PROVE  /\ \A g \in req.resets : Due(saved[g], logs'[g])
                      /\ \A r \in req.records : logs'[r.file].exists /\ ~Due(saved[r.file], logs'[r.file])
                           => Faithful(r)' /\ (phase # "idle" \/ saved[r.file] # NoState => r.row.parser = parser)
    BY <1>3, <1>4, <2>1 DEF LateHolds, InRun, Intact, Due
  <2>2. req.resets \subseteq File /\ req.records \subseteq Record
    BY <1>2 DEF TypeOK, Request
  <2>3. ASSUME NEW g \in req.resets PROVE Due(saved[g], logs'[g])
    BY <1>5, <1>6, <1>8, <2>1, <2>2 DEF LateHolds
  <2>4. ASSUME NEW r \in req.records, logs'[r.file].exists, ~Due(saved[r.file], logs'[r.file])
        PROVE  Faithful(r)' /\ (phase # "idle" \/ saved[r.file] # NoState => r.row.parser = parser)
    <3>1. r \in Record /\ r.file \in File
      BY <2>2 DEF Record
    <3>2. CASE r.file # f
      <4>1. logs'[r.file] = logs[r.file]
        BY <1>5, <3>1, <3>2
      <4>2. Faithful(r)' <=> Faithful(r)
        BY <4>1 DEF Faithful, Legible
      <4>3. QED BY <2>1, <2>4, <4>1, <4>2 DEF LateHolds, Intact
    <3>3. CASE r.file = f /\ Grows(logs[f], logs'[f])
      <4>1. logs[f].exists /\ ~Due(saved[f], logs[f])
        BY <1>6, <1>8, <1>9, <2>4, <3>3 DEF Grows
      <4>2. Faithful(r) /\ (phase # "idle" \/ saved[r.file] # NoState => r.row.parser = parser)
        BY <2>1, <3>3, <4>1 DEF LateHolds, Intact
      <4>3. Faithful(r)'
        BY <1>2, <1>3, <3>1, <3>3, <4>2, GrowthKeeps
      <4>4. QED BY <4>2, <4>3
    <3>4. CASE r.file = f /\ saved[f] # NoState /\ \A ps \in StatesOf(f) : Due(ps, logs'[f])
      BY <1>6, <2>4, <3>4
    <3>5. QED BY <1>5, <2>4, <3>1, <3>2, <3>3, <3>4 DEF Unread
  <2>5. QED BY <2>3, <2>4
<1>16. QED BY <1>3, <1>10, <1>11, <1>12, <1>13, <1>14, <1>15 DEF Agreement

---------------------------------------------------------------------------
(* The end of a source's turn.                                             *)

\* A file of the current source belongs to no later one.
LEMMA OneSourcePerFile ==
  ASSUME TypeOK, NEW f \in File, SourceOf[f] = SourceOrder[source]
  PROVE  \A i \in (source + 1)..Len(SourceOrder) : SourceOf[f] # SourceOrder[i]
<1> SUFFICES ASSUME NEW i \in (source + 1)..Len(SourceOrder), SourceOf[f] = SourceOrder[i]
             PROVE  FALSE
  OBVIOUS
<1>1. source \in 1..Len(SourceOrder) /\ i \in 1..Len(SourceOrder) /\ i # source
  BY DEF TypeOK
<1>2. QED BY <1>1, AgentConstants

\* Before any chunk of it is acknowledged a source's files have their saved states.
LEMMA ReadFilesUnchanged ==
  ASSUME TypeOK, Books, NEW f \in File, nextStates[f] # NoState
  PROVE  state[f] = saved[f] /\ SourceOf[f] = SourceOrder[source] /\ InRun
<1>1. InRun /\ SourceOf[f] = SourceOrder[source]
  BY DEF Books
<1>2. source \in source..Len(SourceOrder)
  BY DEF TypeOK
<1>3. QED BY <1>1, <1>2 DEF Books

LEMMA EndSourceKeeps ==
  ASSUME TypeOK, Books, WholeText, NEW ok \in BOOLEAN, NEW newState,
         newState = state \/ newState = Applied,
         phase \in {"scan", "push"}, EndSource(ok, newState), UNCHANGED <<logs, parser, saved>>
  PROVE  Books' /\ WholeText' /\ StatHolds' /\ ReadHolds'
<1>1. source \in 1..Len(SourceOrder) /\ parser \in Nat
  BY DEF TypeOK
<1>2. /\ phase' \in {"idle", "scan", "save"}
      /\ phase' = "scan" => source' = source + 1 /\ todo' = FilesOf(source')
      /\ phase' # "scan" => todo' = {}
      /\ nextStates' = NoStates /\ resetFiles' = {} /\ records' = {} /\ first' = TRUE
      /\ state' = IF phase' = "idle" THEN saved ELSE newState
  BY <1>1, EndSourceEffect
<1>3. \A f \in File : nextStates'[f] = NoState
  BY <1>2 DEF NoStates
<1>4. \A f \in File : \/ state'[f] = saved[f]
                      \/ phase' # "idle" /\ state'[f] = state[f]
                      \/ phase' # "idle" /\ state'[f] = nextStates[f] /\ nextStates[f] # NoState
  BY <1>2 DEF Applied
<1>5. Books'
  <2>1. phase' = "idle" => state' = saved'
    BY <1>2
  <2>2. \A f \in File : state'[f] = NoState => saved'[f] = NoState
    BY <1>4 DEF Books
  <2>3. InRun' => \A f \in File : \A i \in source'..Len(SourceOrder) :
                     SourceOf[f] = SourceOrder[i] => state'[f] = saved'[f]
    <3> SUFFICES ASSUME phase' = "scan", NEW f \in File, NEW i \in (source + 1)..Len(SourceOrder),
                        SourceOf[f] = SourceOrder[i]
                 PROVE  state'[f] = saved[f]
      BY <1>2 DEF InRun
    <3>1. i \in source..Len(SourceOrder) /\ InRun
      BY <1>1 DEF InRun
    <3>2. state[f] = saved[f]
      BY <3>1 DEF Books
    <3>3. nextStates[f] # NoState => state'[f] = saved[f]
      BY ReadFilesUnchanged, OneSourcePerFile
    <3>4. QED BY <1>4, <3>2, <3>3
  <2>4. \A f \in todo' : InRun' /\ SourceOf[f] = SourceOrder[source'] /\ nextStates'[f] = NoState
    BY <1>2, <1>3 DEF FilesOf, InRun
  <2>5. \A f \in File : state'[f] # NoState => state'[f].parser <= parser'
    BY <1>1, <1>4 DEF Books
  <2>6. QED BY <1>2, <1>3, <2>1, <2>2, <2>3, <2>4, <2>5 DEF Books
<1>6. WholeText'
  BY <1>2, <1>3, <1>4 DEF WholeText, StatesOf
<1>7. StatHolds'
  BY <1>2 DEF StatHolds
<1>8. ReadHolds'
  BY <1>3 DEF ReadHolds
<1>9. QED BY <1>5, <1>6, <1>7, <1>8

---------------------------------------------------------------------------
(* Requests.                                                               *)

Touches(req, f) == f \in req.resets \/ \E r \in req.records : r.file = f

\* What makes a request harmless to the files the agent answers for.
Harmless(req) ==
  /\ req \in Request
  /\ \A f \in File : Touches(req, f) => state[f] = saved[f]
  /\ \A f \in req.resets : Due(saved[f], logs[f])
  /\ \A r \in req.records : Intact(r.file) =>
       /\ Faithful(r)
       /\ phase # "idle" \/ saved[r.file] # NoState => r.row.parser = parser

LEMMA LateHarmless == ASSUME TypeOK, LateHolds, NEW req \in late PROVE Harmless(req)
BY DEF TypeOK, LateHolds, Harmless, Touches

LEMMA ReadRecordsFaithful ==
  ASSUME TypeOK, Books, ReadHolds, NEW r \in records, Intact(r.file)
  PROVE  Faithful(r) /\ Current(r.file, nextStates[r.file])
<1>1. r.file \in File /\ nextStates[r.file] # NoState
  BY DEF TypeOK, Record, Books
<1>2. state[r.file] = saved[r.file]
  BY <1>1, ReadFilesUnchanged
<1>3. Current(r.file, nextStates[r.file])
  BY <1>1, <1>2 DEF ReadHolds, Intact, Current
<1>4. Pending(r.file)
  BY <1>1, <1>3 DEF ReadHolds
<1>5. QED BY <1>3, <1>4 DEF Pending

\* The request of the push under way is harmless, and concerns files of the
\* current source only.
LEMMA CurrentHarmless ==
  ASSUME TypeOK, Books, ReadHolds, phase = "push"
  PROVE  /\ Harmless(CurrentRequest)
         /\ \A r \in CurrentRequest.records : r.row.parser = parser
         /\ \A f \in File : Touches(CurrentRequest, f) => SourceOf[f] = SourceOrder[source]
<1>1. /\ CurrentRequest \in Request
      /\ CurrentRequest.resets \subseteq resetFiles /\ CurrentRequest.records \subseteq records
  BY CurrentRequestType DEF CurrentRequest, Chunk
<1>2. \A f \in File : Touches(CurrentRequest, f) => nextStates[f] # NoState
  BY <1>1 DEF Touches, Books
<1>3. \A f \in File : Touches(CurrentRequest, f) => state[f] = saved[f] /\ SourceOf[f] = SourceOrder[source]
  BY <1>2, ReadFilesUnchanged
<1>4. \A f \in CurrentRequest.resets : Due(saved[f], logs[f])
  <2> SUFFICES ASSUME NEW f \in CurrentRequest.resets PROVE Due(saved[f], logs[f])
    OBVIOUS
  <2>1. f \in File /\ nextStates[f] # NoState /\ state[f] = saved[f]
    BY <1>1, <1>2, <1>3 DEF TypeOK, Touches
  <2>2. QED BY <1>1, <2>1 DEF ReadHolds
<1>5. \A r \in CurrentRequest.records : r.row.parser = parser
  BY <1>1 DEF Books
<1>6. \A r \in CurrentRequest.records : Intact(r.file) => Faithful(r)
  BY <1>1, ReadRecordsFaithful
<1>7. QED BY <1>1, <1>3, <1>4, <1>5, <1>6 DEF Harmless

\* What a request does to one row.
LEMMA IngestCell ==
  ASSUME NEW req, NEW f \in File, NEW k \in LineNo
  PROVE  \/ \E r \in req.records : r.file = f /\ r.line = k /\ Ingested(req)[f][k] = r.row
         \/ /\ ~ \E r \in req.records : r.file = f /\ r.line = k
            /\ Ingested(req)[f][k] = IF f \in req.resets THEN NoRow ELSE events[f][k]
<1> DEFINE here == {r \in req.records : r.file = f /\ r.line = k}
           cell == IF here # {} THEN (CHOOSE r \in here : TRUE).row
                   ELSE IF f \in req.resets THEN NoRow ELSE events[f][k]
<1>1. Ingested(req)[f][k] = cell
  BY DEF Ingested
<1>2. CASE here # {}
  <2>1. PICK r \in here : cell = r.row
    BY <1>2
  <2>2. QED BY <1>1, <2>1
<1>3. CASE here = {}
  BY <1>1, <1>3
<1>4. QED BY <1>2, <1>3

\* A faithful record of the current parser is what Stored asks for.
LEMMA FaithfulStored ==
  ASSUME NEW f \in File, NEW k \in LineNo, NEW r \in Record,
         r.file = f, r.line = k, Faithful(r), events'[f][k] = r.row,
         UNCHANGED <<logs, parser>>
  PROVE  /\ Matches(f, k)' /\ events'[f][k] # NoRow
         /\ r.row.parser = parser => Stored(f, k)'
<1>1. r.row # NoRow
  BY ScanMarkers DEF Record, Row
<1>2. QED BY <1>1 DEF Faithful, Matches, Legible, Stored

\* RowsHold after a step that leaves the files and the saved states alone.
LEMMA RowsHoldNext ==
  ASSUME UNCHANGED <<logs, parser, saved>>,
         \A f \in File : Intact(f) => \A k \in LineNo : events'[f][k] # NoRow => Matches(f, k)',
         \A f \in File : \A ps : ps \in {saved[f], state'[f]} /\ Current(f, ps) => Covers(f, ps)'
  PROVE  RowsHold'
<1> SUFFICES ASSUME NEW f \in File
             PROVE  /\ Intact(f)' => \A k \in LineNo : events'[f][k] # NoRow => Matches(f, k)'
                    /\ Current(f, saved[f])' => Covers(f, saved[f])'
                    /\ Current(f, state[f])' => Covers(f, state[f])'
  BY DEF RowsHold
<1>1. Intact(f)' <=> Intact(f)
  BY DEF Intact, Due
<1>2. \A ps : Current(f, ps)' <=> Current(f, ps)
  BY DEF Current, Due
<1>3. Current(f, saved[f])' => Covers(f, saved[f])'
  BY DEF Current, Due, Covers
<1>4. Current(f, state[f])' => Covers(f, state[f])'
  BY DEF Current, Due, Covers
<1>5. QED BY <1>1, <1>3, <1>4

\* A harmless request leaves right what it does not reset.
LEMMA IngestKeepsRows ==
  ASSUME TypeOK, RowsHold, NEW req, Harmless(req), events' = Ingested(req),
         UNCHANGED <<logs, parser, saved>>,
         \A f \in File : \/ state'[f] \in {saved[f], state[f]}
                         \/ \A ps : ps = state'[f] /\ Current(f, ps) => Covers(f, ps)'
  PROVE  RowsHold'
<1>1. req.resets \subseteq File /\ req.records \subseteq Record
  BY DEF Harmless, Request
<1>2. ASSUME NEW f \in File, Intact(f), NEW k \in LineNo
      PROVE  \/ events'[f][k] = events[f][k]
             \/ /\ events'[f][k] # NoRow /\ Matches(f, k)'
                /\ saved[f] # NoState => Stored(f, k)' /\ events'[f][k].parser = parser
  <2>1. f \notin req.resets
    BY <1>2 DEF Harmless, Intact
  <2>2. CASE \E r \in req.records : r.file = f /\ r.line = k /\ Ingested(req)[f][k] = r.row
    <3>1. PICK r \in req.records : r.file = f /\ r.line = k /\ Ingested(req)[f][k] = r.row
      BY <2>2
    <3>2. r \in Record /\ Faithful(r) /\ (saved[f] # NoState => r.row.parser = parser)
      BY <1>1, <1>2, <3>1 DEF Harmless
    <3>3. QED BY <3>1, <3>2, FaithfulStored DEF Stored
  <2>3. QED BY <2>1, <2>2, IngestCell
<1>3. \A f \in File : Intact(f) => \A k \in LineNo : events'[f][k] # NoRow => Matches(f, k)'
  BY <1>2 DEF RowsHold, Matches, Legible
<1>4. ASSUME NEW f \in File, Current(f, saved[f]) PROVE \A ps : ps = saved[f] => Covers(f, ps)'
  <2> SUFFICES ASSUME NEW k \in LineNo
               PROVE  /\ HasUsage(f, k) /\ TextEnd(k) <= saved[f].offset => Stored(f, k)'
                      /\ events'[f][k] # NoRow => Matches(f, k)' /\ events'[f][k].parser = parser
    BY DEF Covers, HasUsage
  <2>1. Intact(f) /\ saved[f] # NoState /\ Covers(f, saved[f])
    BY <1>4 DEF Current, Intact, RowsHold
  <2>2. CASE events'[f][k] = events[f][k]
    BY <2>1, <2>2 DEF Covers, Stored, Matches, Legible
  <2>3. QED BY <1>2, <2>1, <2>2
<1>5. ASSUME NEW f \in File, Current(f, state[f]) PROVE \A ps : ps = state[f] => Covers(f, ps)'
  <2>1. CASE Touches(req, f)
    BY <1>4, <1>5, <2>1 DEF Harmless
  <2>2. CASE ~Touches(req, f)
    <3>1. \A k \in LineNo : events'[f][k] = events[f][k]
      BY <2>2, IngestCell DEF Touches
    <3>2. Covers(f, state[f])
      BY <1>5 DEF RowsHold
    <3>3. QED BY <3>1, <3>2 DEF Covers, Stored, Matches, Legible, HasUsage
  <2>3. QED BY <2>1, <2>2
<1>6. \A f \in File : \A ps : ps \in {saved[f], state'[f]} /\ Current(f, ps) => Covers(f, ps)'
  BY <1>4, <1>5
<1>7. QED BY <1>3, <1>6, RowsHoldNext

\* Rows that no step touches stay right.
LEMMA SameRows ==
  ASSUME TypeOK, RowsHold, UNCHANGED <<logs, parser, saved, events>>,
         \A f \in File : state'[f] \in {saved[f], state[f]}
  PROVE  RowsHold'
<1>1. \A f \in File, k \in LineNo : Matches(f, k)' <=> Matches(f, k)
  BY DEF Matches, Legible
<1>2. \A f \in File : \A ps : Covers(f, ps) => Covers(f, ps)'
  BY <1>1 DEF Covers, Stored, HasUsage
<1>3. \A f \in File : \A ps : ps \in {saved[f], state'[f]} /\ Current(f, ps) => Covers(f, ps)'
  BY <1>2 DEF RowsHold
<1>4. \A f \in File : Intact(f) => \A k \in LineNo : events'[f][k] # NoRow => Matches(f, k)'
  BY <1>1 DEF RowsHold
<1>5. QED BY <1>3, <1>4, RowsHoldNext

\* Requests left behind stay harmless, and so does the one just given up, when a
\* source's turn ends.
LEMMA LateKept ==
  ASSUME TypeOK, Books, ReadHolds, LateHolds, NEW lost,
         lost = {} \/ (phase = "push" /\ lost = {CurrentRequest}),
         late' \subseteq late \cup lost,
         UNCHANGED <<logs, parser, saved>>,
         InRun,
         InRun' => source' \in source..Len(SourceOrder),
         InRun' /\ lost # {} => source' = source + 1,
         \A f \in File : state'[f] \in {saved[f], state[f]} \/ (nextStates[f] # NoState /\ lost = {})
  PROVE  LateHolds'
<1> SUFFICES ASSUME NEW req \in late'
             PROVE  /\ \A f \in File : Touches(req, f) =>
                         /\ state'[f] = saved[f]
                         /\ InRun' => \A i \in source'..Len(SourceOrder) : SourceOf[f] # SourceOrder[i]
                    /\ \A f \in req.resets : Due(saved[f], logs[f])
                    /\ \A r \in req.records : Intact(r.file) => Faithful(r) /\ r.row.parser = parser
  BY DEF LateHolds, Touches, Intact, Due, Faithful, Legible
<1>1. source \in 1..Len(SourceOrder) /\ InRun /\ phase # "idle"
  BY DEF TypeOK, InRun
<1>2. CASE req \in late
  <2>1. ASSUME NEW f \in File, Touches(req, f)
        PROVE  /\ state[f] = saved[f]
               /\ \A i \in source..Len(SourceOrder) : SourceOf[f] # SourceOrder[i]
    BY <1>1, <1>2, <2>1 DEF LateHolds, Touches
  <2>2. ASSUME NEW f \in File, Touches(req, f)
        PROVE  nextStates[f] = NoState
    <3>1. source \in source..Len(SourceOrder)
      BY <1>1
    <3>2. QED BY <2>1, <2>2, <3>1 DEF Books
  <2>3. ASSUME NEW f \in File, Touches(req, f), InRun', NEW i \in source'..Len(SourceOrder)
        PROVE  SourceOf[f] # SourceOrder[i]
    <3>1. i \in source..Len(SourceOrder)
      BY <1>1, <2>3
    <3>2. QED BY <2>1, <2>3, <3>1
  <2>4. QED BY <1>1, <1>2, <2>1, <2>2, <2>3 DEF LateHolds
<1>3. CASE phase = "push" /\ req = CurrentRequest /\ lost # {}
  <2>1. /\ Harmless(CurrentRequest)
        /\ \A r \in CurrentRequest.records : r.row.parser = parser
        /\ \A f \in File : Touches(CurrentRequest, f) => SourceOf[f] = SourceOrder[source]
    BY <1>3, CurrentHarmless
  <2>2. ASSUME NEW f \in File, Touches(req, f), InRun'
        PROVE  \A i \in source'..Len(SourceOrder) : SourceOf[f] # SourceOrder[i]
    <3>1. source' = source + 1 /\ SourceOf[f] = SourceOrder[source]
      BY <1>3, <2>1, <2>2
    <3>2. QED BY <3>1, OneSourcePerFile
  <2>3. \A f \in File : Touches(req, f) => state'[f] = saved[f]
    BY <1>3, <2>1 DEF Harmless
  <2>4. QED BY <1>3, <2>1, <2>2, <2>3 DEF Harmless
<1>4. QED BY <1>2, <1>3

\* A source's turn ends and the rows are right: so is everything else.
LEMMA TurnEnds ==
  ASSUME Agreement, TypeOK', RowsHold', NEW ok \in BOOLEAN, NEW newState, NEW lost,
         newState = state \/ (newState = Applied /\ lost = {}),
         phase \in {"scan", "push"}, EndSource(ok, newState),
         lost = {} \/ (phase = "push" /\ lost = {CurrentRequest}),
         late' \subseteq late \cup lost,
         UNCHANGED <<logs, parser, saved>>
  PROVE  Agreement'
<1>1. TypeOK /\ Books /\ WholeText /\ ReadHolds /\ LateHolds
  BY DEF Agreement
<1>2. Books' /\ WholeText' /\ StatHolds' /\ ReadHolds'
  BY <1>1, EndSourceKeeps
<1>3. LateHolds'
  <2>1. source \in 1..Len(SourceOrder) /\ InRun
    BY <1>1 DEF TypeOK, InRun
  <2>2. /\ phase' \in {"idle", "scan", "save"}
        /\ phase' = "scan" => source' = source + 1
        /\ state' = IF phase' = "idle" THEN saved ELSE newState
        /\ source' \in 1..Len(SourceOrder)
    BY <2>1, EndSourceEffect
  <2>3. InRun' => source' = source + 1 /\ source' \in source..Len(SourceOrder)
    BY <2>1, <2>2 DEF InRun
  <2>4. \A f \in File : state'[f] \in {saved[f], state[f]} \/ (nextStates[f] # NoState /\ lost = {})
    BY <2>2 DEF Applied
  <2>5. QED BY <1>1, <2>1, <2>3, <2>4, LateKept
<1>4. QED BY <1>2, <1>3 DEF Agreement

LEMMA TurnEndsKeepingRows ==
  ASSUME Agreement, TypeOK', NEW ok \in BOOLEAN, NEW lost,
         phase \in {"scan", "push"}, EndSource(ok, state),
         lost = {} \/ (phase = "push" /\ lost = {CurrentRequest}),
         late' \subseteq late \cup lost,
         UNCHANGED <<logs, parser, saved, events>>
  PROVE  Agreement'
<1>1. source \in 1..Len(SourceOrder) /\ TypeOK /\ RowsHold
  BY DEF Agreement, TypeOK
<1>2. \A f \in File : state'[f] \in {saved[f], state[f]}
  BY <1>1, EndSourceEffect
<1>3. RowsHold'
  BY <1>1, <1>2, SameRows
<1>4. QED BY <1>3, TurnEnds

\* The same without and with a request given up.
LEMMA TurnEndsSettled ==
  ASSUME Agreement, TypeOK', NEW ok \in BOOLEAN, phase \in {"scan", "push"}, EndSource(ok, state),
         UNCHANGED <<logs, parser, saved, events, late>>
  PROVE  Agreement'
<1>1. PICK lost : lost = {} /\ late' \subseteq late \cup lost
  OBVIOUS
<1>2. QED BY <1>1, TurnEndsKeepingRows

LEMMA TurnEndsGivingUp ==
  ASSUME Agreement, TypeOK', NEW ok \in BOOLEAN, phase = "push", EndSource(ok, state),
         late' \subseteq late \cup {CurrentRequest}, UNCHANGED <<logs, parser, saved, events>>
  PROVE  Agreement'
<1>1. PICK lost : lost = {CurrentRequest} /\ late' \subseteq late \cup lost
  OBVIOUS
<1>2. phase = "push" /\ lost = {CurrentRequest}
  BY <1>1
<1>3. QED BY <1>1, <1>2, TurnEndsKeepingRows

LEMMA ScanFailsStep == Agreement /\ TypeOK' /\ ScanFails => Agreement'
<1> SUFFICES ASSUME Agreement, TypeOK', ScanFails PROVE Agreement'
  OBVIOUS
<1>1. EndSource(FALSE, state) /\ phase = "scan" /\ UNCHANGED <<logs, parser, saved, events, late>>
  BY DEF ScanFails
<1>2. QED BY <1>1, TurnEndsSettled

LEMMA PushRefusedStep == Agreement /\ TypeOK' /\ PushRefused => Agreement'
<1> SUFFICES ASSUME Agreement, TypeOK', PushRefused PROVE Agreement'
  OBVIOUS
<1>1. EndSource(FALSE, state) /\ phase = "push" /\ UNCHANGED <<logs, parser, saved, events, late>>
  BY DEF PushRefused
<1>2. QED BY <1>1, TurnEndsSettled

LEMMA PushTimesOutStep == Agreement /\ TypeOK' /\ PushTimesOut => Agreement'
<1> SUFFICES ASSUME Agreement, TypeOK', PushTimesOut PROVE Agreement'
  OBVIOUS
<1>1. /\ EndSource(FALSE, state) /\ phase = "push" /\ late' \subseteq late \cup {CurrentRequest}
      /\ UNCHANGED <<logs, parser, saved, events>>
  BY DEF PushTimesOut
<1>2. QED BY <1>1, TurnEndsGivingUp

LEMMA ScanDoneStep == Agreement /\ TypeOK' /\ ScanDone => Agreement'
<1> SUFFICES ASSUME Agreement, TypeOK', ScanDone PROVE Agreement'
  OBVIOUS
<1>1. CASE EndSource(TRUE, state)
  <2>1. phase = "scan" /\ UNCHANGED <<logs, parser, saved, events, late>>
    BY DEF ScanDone
  <2>2. QED BY <1>1, <2>1, TurnEndsSettled
<1>2. CASE /\ phase' = "push"
           /\ UNCHANGED <<source, state, todo, stat, nextStates, resetFiles, records, first, dirty>>
  <2>1. phase = "scan" /\ todo = {} /\ UNCHANGED <<logs, parser, saved, events, late>>
    BY DEF ScanDone
  <2>2. InRun /\ InRun'
    BY <1>2, <2>1 DEF InRun
  <2>3. Books'
    BY <1>2, <2>1, <2>2 DEF Agreement, Books
  <2>4. WholeText' /\ StatHolds'
    BY <1>2, <2>1 DEF Agreement, WholeText, StatHolds, StatesOf
  <2>5. RowsHold'
    BY <1>2, <2>1, SameRows DEF Agreement
  <2>6. ReadHolds'
    BY <1>2, <2>1 DEF Agreement, ReadHolds, Due, Current, Pending, Waiting, Wiped, Faithful, Matches, Stored, Legible, HasUsage
  <2>7. LateHolds'
    BY <1>2, <2>1, <2>2 DEF Agreement, LateHolds, Intact, Due, Faithful, Legible
  <2>8. QED BY <2>3, <2>4, <2>5, <2>6, <2>7 DEF Agreement
<1>3. QED BY <1>1, <1>2 DEF ScanDone

\* The server stored the chunk and said otherwise.
LEMMA PushStoredButFailedStep == Agreement /\ TypeOK' /\ PushStoredButFailed => Agreement'
<1> SUFFICES ASSUME Agreement, TypeOK', PushStoredButFailed PROVE Agreement'
  OBVIOUS
<1>1. /\ phase = "push" /\ events' = Ingested(CurrentRequest) /\ EndSource(FALSE, state)
      /\ UNCHANGED <<logs, parser, saved, late>>
  BY DEF PushStoredButFailed
<1>2. TypeOK /\ Books /\ ReadHolds /\ RowsHold /\ source \in 1..Len(SourceOrder)
  BY DEF Agreement, TypeOK
<1>3. \A f \in File : state'[f] \in {saved[f], state[f]}
  BY <1>1, <1>2, EndSourceEffect
<1>4. RowsHold'
  BY <1>1, <1>2, <1>3, CurrentHarmless, IngestKeepsRows
<1>5. QED BY <1>1, <1>4, TurnEnds

\* The chunk of a push that is under way, read by read.
LEMMA ChunkStored ==
  ASSUME TypeOK, Books, ReadHolds, phase = "push", events' = Ingested(CurrentRequest),
         UNCHANGED <<logs, parser>>,
         NEW f \in File, nextStates[f] # NoState, Current(f, nextStates[f]), NEW k \in LineNo
  PROVE  \/ /\ \E r \in Chunk : r.file = f /\ r.line = k
            /\ Stored(f, k)' /\ Matches(f, k)' /\ events'[f][k].parser = parser
         \/ /\ ~ \E r \in Chunk : r.file = f /\ r.line = k
            /\ events'[f][k] = IF Wiped(f) THEN NoRow ELSE events[f][k]
<1>1. Pending(f)
  BY DEF ReadHolds
<1>2. CurrentRequest.records = Chunk /\ (f \in CurrentRequest.resets <=> Wiped(f))
  BY DEF CurrentRequest, Wiped
<1>3. CASE \E r \in Chunk : r.file = f /\ r.line = k /\ Ingested(CurrentRequest)[f][k] = r.row
  <2>1. PICK r \in Chunk : r.file = f /\ r.line = k /\ Ingested(CurrentRequest)[f][k] = r.row
    BY <1>3
  <2>2. r \in records /\ r \in Record
    BY DEF Chunk, TypeOK
  <2>3. Faithful(r) /\ r.row.parser = parser
    BY <1>1, <2>1, <2>2 DEF Pending, Books
  <2>4. Matches(f, k)' /\ Stored(f, k)'
    BY <2>1, <2>2, <2>3, FaithfulStored
  <2>5. QED BY <2>1, <2>3, <2>4
<1>4. QED BY <1>2, <1>3, IngestCell

LEMMA PushAcceptedStep == Agreement /\ TypeOK' /\ PushAccepted => Agreement'
<1> SUFFICES ASSUME Agreement, TypeOK', PushAccepted PROVE Agreement'
  OBVIOUS
<1>1. phase = "push" /\ events' = Ingested(CurrentRequest) /\ UNCHANGED <<logs, parser, saved, late>>
  BY DEF PushAccepted
<1>2. /\ TypeOK /\ Books /\ ReadHolds /\ RowsHold /\ LateHolds /\ WholeText
      /\ source \in 1..Len(SourceOrder) /\ Harmless(CurrentRequest)
  BY <1>1, CurrentHarmless DEF Agreement, TypeOK
<1>3. \A r \in records : (\E q \in Chunk : q.file = r.file /\ q.line = r.line) \/ r \in records \ Chunk
  OBVIOUS
<1>4. CASE records \subseteq Chunk /\ EndSource(TRUE, Applied)
  <2>a. PICK ended : ended = Applied
    OBVIOUS
  <2>b. EndSource(TRUE, ended)
    BY <1>4, <2>a
  <2>c. state' = IF phase' = "idle" THEN saved ELSE ended
    BY <1>2, <2>b, EndSourceEffect
  <2>1. \A f \in File : \/ state'[f] \in {saved[f], state[f]}
                        \/ nextStates[f] # NoState /\ state'[f] = nextStates[f]
    BY <2>a, <2>c DEF Applied
  <2>2. ASSUME NEW f \in File, nextStates[f] # NoState, Current(f, nextStates[f])
        PROVE  \A ps : ps = nextStates[f] => Covers(f, ps)'
    <3> SUFFICES ASSUME NEW k \in LineNo
                 PROVE  /\ HasUsage(f, k) /\ TextEnd(k) <= nextStates[f].offset => Stored(f, k)'
                        /\ events'[f][k] # NoRow => Matches(f, k)' /\ events'[f][k].parser = parser
      BY <1>1 DEF Covers, HasUsage
    <3>1. CASE \E r \in Chunk : r.file = f /\ r.line = k
      BY <1>1, <1>2, <2>2, <3>1, ChunkStored
    <3>2. CASE ~ \E r \in Chunk : r.file = f /\ r.line = k
      <4>1. ~Waiting(f, k)
        BY <1>4, <3>2 DEF Waiting
      <4>2. events'[f][k] = IF Wiped(f) THEN NoRow ELSE events[f][k]
        BY <1>1, <1>2, <2>2, <3>2, ChunkStored
      <4>3. Pending(f)
        BY <1>2, <2>2 DEF ReadHolds
      <4>4. QED BY <1>1, <4>1, <4>2, <4>3 DEF Pending, Stored, Matches, Legible
    <3>3. QED BY <3>1, <3>2
  <2>3. \A f \in File : \/ state'[f] \in {saved[f], state[f]}
                        \/ \A ps : ps = state'[f] /\ Current(f, ps) => Covers(f, ps)'
    BY <2>1, <2>2
  <2>4. RowsHold'
    BY <1>1, <1>2, <2>3, IngestKeepsRows
  <2>5. PICK lost : lost = {} /\ late' \subseteq late \cup lost
    BY <1>1
  <2>6. QED BY <1>1, <2>4, <2>5, <2>a, <2>b, TurnEnds
<1>5. CASE /\ records' = records \ Chunk /\ first' = FALSE
           /\ UNCHANGED <<phase, source, state, todo, stat, nextStates, resetFiles, dirty>>
  <2>1. Books'
    BY <1>1, <1>2, <1>5 DEF Books, InRun
  <2>2. WholeText' /\ StatHolds'
    BY <1>1, <1>2, <1>5 DEF WholeText, StatesOf, StatHolds
  <2>3. RowsHold'
    BY <1>1, <1>2, <1>5, IngestKeepsRows
  <2>4. LateHolds'
    BY <1>1, <1>2, <1>5 DEF LateHolds, InRun, Intact, Due, Faithful, Legible
  <2>5. ASSUME NEW f \in File, nextStates[f] # NoState, Current(f, nextStates[f])
        PROVE  Pending(f)'
    <3>1. Pending(f) /\ ~Wiped(f)'
      BY <1>2, <1>5, <2>5 DEF ReadHolds, Wiped
    <3>2. \A r \in records' : r.file = f => Faithful(r)'
      BY <1>1, <1>5, <3>1 DEF Pending, Faithful, Legible
    <3>3. ASSUME NEW k \in LineNo
          PROVE  /\ HasUsage(f, k) /\ TextEnd(k) <= nextStates[f].offset => Waiting(f, k)' \/ Stored(f, k)'
                 /\ events'[f][k] # NoRow => Matches(f, k)' /\ (events'[f][k].parser = parser \/ Waiting(f, k)')
      <4>1. CASE \E r \in Chunk : r.file = f /\ r.line = k
        BY <1>1, <1>2, <2>5, <4>1, ChunkStored
      <4>2. CASE ~ \E r \in Chunk : r.file = f /\ r.line = k
        <5>1. Waiting(f, k) => Waiting(f, k)'
          BY <1>5, <4>2 DEF Waiting
        <5>2. events'[f][k] = IF Wiped(f) THEN NoRow ELSE events[f][k]
          BY <1>1, <1>2, <2>5, <4>2, ChunkStored
        <5>3. QED BY <1>1, <3>1, <5>1, <5>2 DEF Pending, Stored, Matches, Legible
      <4>3. QED BY <4>1, <4>2
    <3>4. QED BY <1>1, <1>5, <3>1, <3>2, <3>3 DEF Pending, HasUsage
  <2>6. ReadHolds'
    BY <1>1, <1>2, <1>5, <2>5 DEF ReadHolds, Current, Due
  <2>7. QED BY <2>1, <2>2, <2>3, <2>4, <2>6 DEF Agreement
<1>6. QED BY <1>4, <1>5 DEF PushAccepted

\* A read keeps its promise when a request it has no part in is served late.
LEMMA LateStoredStep == Agreement /\ TypeOK' /\ LateStored => Agreement'
<1> SUFFICES ASSUME Agreement, TypeOK', LateStored PROVE Agreement'
  OBVIOUS
<1>1. PICK req \in late : events' = Ingested(req) /\ late' = late \ {req}
  BY DEF LateStored
<1>2. /\ UNCHANGED <<logs, parser, saved, phase, source, state, todo, stat>>
      /\ UNCHANGED <<nextStates, resetFiles, records, first, dirty>>
  BY DEF LateStored, agentVars
<1>3. TypeOK /\ Books /\ ReadHolds /\ RowsHold /\ LateHolds /\ WholeText /\ StatHolds /\ Harmless(req)
  BY LateHarmless DEF Agreement
<1>4. Books' /\ WholeText' /\ StatHolds'
  BY <1>2, <1>3 DEF Books, InRun, WholeText, StatesOf, StatHolds, Due
<1>5. RowsHold'
  BY <1>1, <1>2, <1>3, IngestKeepsRows
<1>6. LateHolds'
  BY <1>1, <1>2, <1>3 DEF LateHolds, InRun, Intact, Due, Faithful, Legible
<1>7. ASSUME NEW f \in File, nextStates[f] # NoState, Current(f, nextStates[f])
      PROVE  Pending(f)'
  <2>1. ~Touches(req, f)
    <3>1. InRun /\ SourceOf[f] = SourceOrder[source]
      BY <1>3, <1>7, ReadFilesUnchanged
    <3>2. source \in source..Len(SourceOrder)
      BY <1>3 DEF TypeOK
    <3>3. QED BY <1>3, <3>1, <3>2 DEF LateHolds, Touches
  <2>2. \A k \in LineNo : events'[f][k] = events[f][k]
    BY <1>1, <2>1, IngestCell DEF Touches
  <2>3. Pending(f)
    BY <1>3, <1>7 DEF ReadHolds
  <2>4. QED BY <1>2, <2>2, <2>3 DEF Pending, HasUsage, Waiting, Stored, Wiped, Matches, Legible, Faithful
<1>8. ReadHolds'
  BY <1>2, <1>3, <1>7 DEF ReadHolds, Current, Due
<1>9. QED BY <1>4, <1>5, <1>6, <1>8 DEF Agreement

LEMMA LateDroppedStep == Agreement /\ TypeOK' /\ LateDropped => Agreement'
<1> SUFFICES ASSUME Agreement, TypeOK', LateDropped PROVE Agreement'
  OBVIOUS
<1>1. /\ late' \subseteq late /\ UNCHANGED <<logs, parser, saved, events, phase, source, state, todo, stat>>
      /\ UNCHANGED <<nextStates, resetFiles, records, first, dirty>>
  BY DEF LateDropped, agentVars
<1>2. Books' /\ WholeText' /\ StatHolds'
  BY <1>1 DEF Agreement, Books, InRun, WholeText, StatesOf, StatHolds, Due
<1>3. RowsHold'
  BY <1>1, SameRows DEF Agreement
<1>4. ReadHolds'
  BY <1>1 DEF Agreement, ReadHolds, Due, Current, Pending, Waiting, Wiped, Faithful, Matches, Stored, Legible, HasUsage
<1>5. LateHolds'
  BY <1>1 DEF Agreement, LateHolds, InRun, Intact, Due, Faithful, Legible
<1>6. QED BY <1>2, <1>3, <1>4, <1>5 DEF Agreement

---------------------------------------------------------------------------
(* The beginning and the end of a run.                                     *)

LEMMA StartRunStep == Agreement /\ Unruly = {} /\ TypeOK' /\ StartRun => Agreement'
<1> SUFFICES ASSUME Agreement, Unruly = {}, TypeOK', StartRun PROVE Agreement'
  OBVIOUS
<1>1. /\ late' = {} /\ phase' = "scan" /\ state' = saved /\ UNCHANGED <<logs, parser, saved, events>>
      /\ source' = 1 /\ todo' = FilesOf(1) /\ nextStates' = NoStates /\ resetFiles' = {} /\ records' = {}
      /\ first' = TRUE
  BY DEF StartRun, FreshSource
<1>2. \A f \in File : nextStates'[f] = NoState
  BY <1>1 DEF NoStates
<1>3. Books'
  BY <1>1, <1>2 DEF Agreement, Books, InRun, FilesOf
<1>4. WholeText' /\ StatHolds' /\ ReadHolds' /\ LateHolds'
  BY <1>1, <1>2 DEF Agreement, WholeText, StatesOf, StatHolds, ReadHolds, LateHolds
<1>5. RowsHold'
  BY <1>1, SameRows DEF Agreement
<1>6. QED BY <1>3, <1>4, <1>5 DEF Agreement

\* A run that ends without saving goes back to the saved state.
LEMMA StopKeeps ==
  ASSUME Agreement, TypeOK', Idle, state' = saved, UNCHANGED <<logs, parser, saved, events>>,
         NEW lost, lost = {} \/ (phase = "push" /\ lost = {CurrentRequest}), late' \subseteq late \cup lost
  PROVE  Agreement'
<1>1. phase' = "idle" /\ todo' = {} /\ nextStates' = NoStates /\ resetFiles' = {} /\ records' = {} /\ first' = TRUE
  BY DEF Idle
<1>2. \A f \in File : nextStates'[f] = NoState
  BY <1>1 DEF NoStates
<1>3. Books'
  BY <1>1, <1>2 DEF Agreement, Books, InRun
<1>4. WholeText' /\ StatHolds' /\ ReadHolds'
  BY <1>1, <1>2 DEF Agreement, WholeText, StatesOf, StatHolds, ReadHolds
<1>5. RowsHold'
  BY SameRows DEF Agreement
<1>6. ASSUME NEW req \in late' PROVE Harmless(req)
  <2>1. CASE req \in late
    BY <2>1, LateHarmless DEF Agreement
  <2>2. CASE phase = "push" /\ req = CurrentRequest
    BY <2>2, CurrentHarmless DEF Agreement
  <2>3. QED BY <1>6, <2>1, <2>2
<1>7. \A f \in File : state'[f] = saved'[f]
  OBVIOUS
<1>8. phase' # "idle" => phase # "idle"
  BY <1>1
<1>9. ASSUME NEW req \in late', NEW r \in req.records, Intact(r.file)
      PROVE  Faithful(r)' /\ (saved[r.file] # NoState => r.row.parser = parser)
  BY <1>6, <1>9 DEF Harmless, Faithful, Legible
<1>10. LateHolds'
  BY <1>1, <1>6, <1>7, <1>9 DEF Harmless, LateHolds, InRun, Intact, Due
<1>11. QED BY <1>3, <1>4, <1>5, <1>10 DEF Agreement

LEMMA SaveFailsStep == Agreement /\ TypeOK' /\ SaveFails => Agreement'
<1> SUFFICES ASSUME Agreement, TypeOK', SaveFails PROVE Agreement'
  OBVIOUS
<1>1. PICK lost : lost = {} /\ late' \subseteq late \cup lost
  BY DEF SaveFails
<1>2. QED BY <1>1, StopKeeps DEF SaveFails

LEMMA CrashStep == Agreement /\ TypeOK' /\ Crash => Agreement'
<1> SUFFICES ASSUME Agreement, TypeOK', Crash PROVE Agreement'
  OBVIOUS
<1>1. PICK lost : /\ lost = {} \/ (phase = "push" /\ lost = {CurrentRequest})
                  /\ late' \subseteq late \cup lost
  <2>1. CASE late' = late
    <3>1. PICK lost : lost = {}
      OBVIOUS
    <3>2. QED BY <2>1, <3>1
  <2>2. CASE phase = "push" /\ late' = late \cup {CurrentRequest}
    <3>1. PICK lost : lost = {CurrentRequest}
      OBVIOUS
    <3>2. QED BY <2>2, <3>1
  <2>3. QED BY <2>1, <2>2 DEF Crash
<1>2. QED BY <1>1, StopKeeps DEF Crash

\* The saved state takes over what the run has built.
LEMMA SaveStateStep == Agreement /\ TypeOK' /\ SaveState => Agreement'
<1> SUFFICES ASSUME Agreement, TypeOK', SaveState PROVE Agreement'
  OBVIOUS
<1>1. /\ phase = "save" /\ phase' = "idle" /\ saved' = state /\ state' = state
      /\ todo' = {} /\ nextStates' = NoStates /\ resetFiles' = {} /\ records' = {} /\ first' = TRUE
      /\ UNCHANGED <<logs, parser, events, late>>
  BY DEF SaveState, Idle
<1>2. \A f \in File : nextStates'[f] = NoState
  BY <1>1 DEF NoStates
<1>3. Books'
  BY <1>1, <1>2 DEF Agreement, Books, InRun
<1>4. WholeText' /\ StatHolds' /\ ReadHolds'
  BY <1>1, <1>2 DEF Agreement, WholeText, StatesOf, StatHolds, ReadHolds
<1>5. RowsHold'
  <2>1. \A f \in File, k \in LineNo : Matches(f, k)' <=> Matches(f, k)
    BY <1>1 DEF Matches, Legible
  <2>2. ASSUME NEW f \in File, Current(f, state[f]) PROVE Covers(f, state[f])'
    <3>1. Covers(f, state[f])
      BY <2>2 DEF Agreement, RowsHold
    <3>2. QED BY <1>1, <2>1, <3>1 DEF Covers, Stored, HasUsage
  <2>3. ASSUME NEW f \in File, logs[f].exists, ~Due(state[f], logs[f]), NEW k \in LineNo, events[f][k] # NoRow
        PROVE  Matches(f, k)
    <3>1. CASE state[f] = NoState
      <4>1. saved[f] = NoState
        BY <3>1 DEF Agreement, Books
      <4>2. QED BY <2>3, <4>1 DEF Agreement, RowsHold, Intact, Due
    <3>2. CASE state[f] # NoState
      BY <2>3, <3>2 DEF Agreement, RowsHold, Current, Covers
    <3>3. QED BY <3>1, <3>2
  <2>4. QED BY <1>1, <2>1, <2>2, <2>3 DEF RowsHold, Intact, Current, Due, Covers
<1>6. LateHolds'
  <2> SUFFICES ASSUME NEW req \in late
               PROVE  /\ \A f \in req.resets : Due(state[f], logs[f])
                      /\ \A r \in req.records : logs[r.file].exists /\ ~Due(state[r.file], logs[r.file])
                           => Faithful(r) /\ r.row.parser = parser
    BY <1>1 DEF LateHolds, InRun, Intact, Due, Faithful, Legible
  <2>1. Harmless(req)
    BY LateHarmless DEF Agreement
  <2>2. \A f \in req.resets : f \in File /\ state[f] = saved[f]
    BY <2>1 DEF Harmless, Touches, Request
  <2>3. \A r \in req.records : state[r.file] = saved[r.file]
    BY <2>1 DEF Harmless, Touches, Request, Record
  <2>4. QED BY <1>1, <2>1, <2>2, <2>3 DEF Harmless, Intact
<1>7. QED BY <1>3, <1>4, <1>5, <1>6 DEF Agreement

---------------------------------------------------------------------------
(* Between two runs.                                                       *)

LEMMA UpgradeStep == Agreement /\ TypeOK' /\ Upgrade => Agreement'
<1> SUFFICES ASSUME Agreement, TypeOK', Upgrade PROVE Agreement'
  OBVIOUS
<1>1. /\ phase = "idle" /\ parser' = parser + 1
      /\ UNCHANGED <<logs, saved, phase, source, state, todo, stat, nextStates, resetFiles, records>>
      /\ UNCHANGED <<first, dirty, events, late>>
  BY DEF Upgrade, agentVars
<1>2. parser \in Nat /\ Books /\ state = saved /\ saved \in [File -> ParseState \cup {NoState}]
  BY <1>1 DEF Agreement, TypeOK, Books
<1>3. ASSUME NEW f \in File, saved[f] # NoState
      PROVE  saved[f].parser \in Nat /\ saved[f].parser <= parser
  BY <1>2, <1>3 DEF Books, ParseState
\* No state written by the old parser is built upon.
<1>4. \A f \in File : saved[f] # NoState => Due(saved[f], logs[f])'
  BY <1>1, <1>2, <1>3 DEF Due, NeedsReset
<1>5. Books'
  <2>1. \A f \in File : saved[f] # NoState => saved[f].parser <= parser'
    BY <1>1, <1>2, <1>3
  <2>2. records = {} /\ \A f \in File : nextStates[f] = NoState
    <3>1. \A r \in records : r.file \in File
      BY DEF Agreement, TypeOK, Record
    <3>2. QED BY <1>1, <1>2, <3>1 DEF Books, InRun
  <2>3. QED BY <1>1, <1>2, <2>1, <2>2 DEF Books, InRun
<1>6. WholeText' /\ StatHolds'
  BY <1>1 DEF Agreement, WholeText, StatesOf, StatHolds
<1>7. ReadHolds'
  BY <1>1, <1>2 DEF Books, InRun, ReadHolds
<1>8. \A f \in File : Intact(f)' => saved[f] = NoState /\ Intact(f)
  BY <1>1, <1>4 DEF Intact, Due
<1>9. RowsHold'
  <2>1. \A f \in File : Intact(f)' => \A k \in LineNo : events'[f][k] # NoRow => Matches(f, k)'
    BY <1>1, <1>8 DEF Agreement, RowsHold, Matches, Legible
  <2>2. \A f \in File : ~Current(f, saved[f])' /\ ~Current(f, state[f])'
    BY <1>1, <1>2, <1>4 DEF Current
  <2>3. QED BY <2>1, <2>2 DEF RowsHold
<1>10. LateHolds'
  <2> SUFFICES ASSUME NEW req \in late
               PROVE  /\ \A f \in req.resets : Due(saved[f], logs[f])'
                      /\ \A r \in req.records : Intact(r.file)' =>
                           Faithful(r)' /\ saved[r.file] = NoState
    BY <1>1, <1>2 DEF LateHolds, InRun
  <2>1. Harmless(req)
    BY LateHarmless DEF Agreement
  <2>2. \A f \in req.resets : f \in File /\ saved[f] # NoState
    BY <2>1 DEF Harmless, Request, Due
  <2>3. ASSUME NEW r \in req.records, Intact(r.file)' PROVE Faithful(r)' /\ saved[r.file] = NoState
    <3>1. r.file \in File
      BY <2>1 DEF Harmless, Request, Record
    <3>2. saved[r.file] = NoState /\ Intact(r.file)
      BY <1>8, <2>3, <3>1
    <3>3. QED BY <1>1, <2>1, <3>2 DEF Harmless, Faithful, Legible
  <2>4. QED BY <1>4, <2>2, <2>3
<1>11. QED BY <1>5, <1>6, <1>7, <1>9, <1>10 DEF Agreement

LEMMA LoseStateStep == Agreement /\ Unruly = {} /\ TypeOK' /\ LoseState => Agreement'
<1> SUFFICES ASSUME Agreement, Unruly = {}, TypeOK', LoseState PROVE Agreement'
  OBVIOUS
<1>1. /\ phase = "idle" /\ \A f \in File : ~Due(saved[f], logs[f])
      /\ saved' = NoStates /\ state' = NoStates
      /\ UNCHANGED <<logs, parser, phase, source, todo, stat, nextStates, resetFiles, records>>
      /\ UNCHANGED <<first, dirty, events, late>>
  BY DEF LoseState
<1>2. \A f \in File : saved'[f] = NoState /\ state'[f] = NoState
  BY <1>1 DEF NoStates
<1>3. Books'
  BY <1>1, <1>2 DEF Agreement, Books, InRun
<1>4. WholeText' /\ StatHolds'
  BY <1>1, <1>2 DEF Agreement, WholeText, StatesOf, StatHolds
<1>5. ReadHolds'
  BY <1>1 DEF Agreement, Books, InRun, ReadHolds
<1>6. \A f \in File : Intact(f)' => Intact(f)
  BY <1>1 DEF Intact
<1>7. RowsHold'
  <2>1. \A f \in File : Intact(f)' => \A k \in LineNo : events'[f][k] # NoRow => Matches(f, k)'
    BY <1>1, <1>6 DEF Agreement, RowsHold, Matches, Legible
  <2>2. \A f \in File : ~Current(f, saved[f])' /\ ~Current(f, state[f])'
    BY <1>2 DEF Current
  <2>3. QED BY <2>1, <2>2 DEF RowsHold
<1>8. LateHolds'
  <2> SUFFICES ASSUME NEW req \in late
               PROVE  /\ \A f \in File : state'[f] = saved'[f]
                      /\ \A f \in req.resets : FALSE
                      /\ \A r \in req.records : Intact(r.file)' => Faithful(r)' /\ saved'[r.file] = NoState
    BY <1>1 DEF LateHolds, InRun
  <2>1. Harmless(req)
    BY LateHarmless DEF Agreement
  <2>2. \A f \in req.resets : FALSE
    BY <1>1, <2>1 DEF Harmless, Request
  <2>3. \A r \in req.records : r.file \in File
    BY <2>1 DEF Harmless, Request, Record
  <2>4. QED BY <1>1, <1>2, <1>6, <2>1, <2>2, <2>3 DEF Harmless, Faithful, Legible
<1>9. QED BY <1>3, <1>4, <1>5, <1>7, <1>8 DEF Agreement

---------------------------------------------------------------------------
(* The walk.                                                               *)

\* What a step of the walk leaves alone keeps its part of the invariant.
LEMMA WalkKeeps ==
  ASSUME Agreement, InRun, InRun', UNCHANGED <<logs, parser, saved, state, source, events, late>>
  PROVE  RowsHold' /\ LateHolds'
<1>1. phase # "idle" /\ phase' # "idle"
  BY DEF InRun
<1>2. RowsHold'
  BY SameRows DEF Agreement
<1>3. LateHolds'
  BY <1>1 DEF Agreement, LateHolds, Intact, Due, Faithful, Legible
<1>4. QED BY <1>2, <1>3

LEMMA SkipFileStep == Agreement /\ TypeOK' /\ SkipFile => Agreement'
<1> SUFFICES ASSUME Agreement, TypeOK', SkipFile PROVE Agreement'
  OBVIOUS
<1>1. /\ phase = "read" /\ phase' = "scan" /\ todo' = todo \ {stat.file}
      /\ UNCHANGED <<logs, parser, saved, source, state, nextStates, resetFiles, records>>
      /\ UNCHANGED <<first, dirty, events, late>>
  BY DEF SkipFile
<1>2. InRun /\ InRun'
  BY <1>1 DEF InRun
<1>3. Books'
  BY <1>1, <1>2 DEF Agreement, Books
<1>4. WholeText' /\ StatHolds'
  BY <1>1 DEF Agreement, WholeText, StatesOf, StatHolds
<1>5. ReadHolds'
  BY <1>1 DEF Agreement, ReadHolds, Due, Current, Pending, Waiting, Wiped, Faithful, Matches, Stored, Legible, HasUsage
<1>6. QED BY <1>1, <1>2, <1>3, <1>4, <1>5, WalkKeeps DEF Agreement

LEMMA StatFileStep == ASSUME NEW f \in File PROVE Agreement /\ TypeOK' /\ StatFile(f) => Agreement'
<1> SUFFICES ASSUME Agreement, TypeOK', StatFile(f) PROVE Agreement'
  OBVIOUS
<1> DEFINE reset  == Due(state[f], logs[f])
           offset == IF state[f] = NoState \/ reset THEN 0 ELSE state[f].offset
<1>1. /\ phase = "scan" /\ f \in todo
      /\ UNCHANGED <<logs, parser, saved, source, state, nextStates, resetFiles, records>>
      /\ UNCHANGED <<first, dirty, events, late>>
      /\ \/ todo' = todo \ {f} /\ UNCHANGED <<phase, stat>>
         \/ /\ stat' = [file |-> f, offset |-> offset, reset |-> reset, mtime |-> logs[f].mtime]
            /\ phase' = "read" /\ UNCHANGED todo
  BY DEF StatFile
<1>2. InRun /\ InRun'
  BY <1>1 DEF InRun
<1>3. Books'
  BY <1>1, <1>2 DEF Agreement, Books
<1>4. WholeText'
  BY <1>1 DEF Agreement, WholeText, StatesOf
<1>5. ReadHolds'
  BY <1>1 DEF Agreement, ReadHolds, Due, Current, Pending, Waiting, Wiped, Faithful, Matches, Stored, Legible, HasUsage
<1>6. StatHolds'
  <2> SUFFICES ASSUME phase' = "read" PROVE StatHolds'
    BY DEF StatHolds
  <2>1. stat' = [file |-> f, offset |-> offset, reset |-> reset, mtime |-> logs[f].mtime]
    BY <1>1
  <2>2. /\ Size(logs[f]) \in Nat /\ logs[f].mtime \in Nat
        /\ state[f] # NoState => state[f].offset \in Nat /\ state[f].mtime \in Nat
    BY SizeType DEF Agreement, TypeOK, ParseState
  <2>3. state[f] # NoState /\ ~reset =>
          /\ offset = state[f].offset /\ state[f].mtime <= logs[f].mtime /\ state[f].parser = parser
          /\ offset <= Size(logs[f])
    BY <2>2 DEF Due, NeedsReset
  <2>4. ~(logs[f].mtime < logs[f].mtime) /\ ~(Size(logs[f]) < offset)
    BY <2>2, <2>3
  <2>5. (reset => offset = 0) /\ (state[f] = NoState => offset = 0)
    OBVIOUS
  <2> HIDE DEF reset, offset
  <2>6. /\ stat'.file = f /\ stat'.offset = offset /\ stat'.reset = reset /\ stat'.mtime = logs[f].mtime
    BY <2>1
  <2>7. Due(state[f], logs[f])' = reset
    BY <1>1 DEF reset, Due
  <2>8. QED BY <1>1, <2>3, <2>4, <2>5, <2>6, <2>7 DEF StatHolds
<1>7. QED BY <1>1, <1>2, <1>3, <1>4, <1>5, <1>6, WalkKeeps DEF Agreement

\* A read that continues a file, with a result that describes the file, was
\* made from a parse state that describes it.
LEMMA ReadContinues ==
  ASSUME Agreement, phase = "read", NEW f \in File, f = stat.file, ~stat.reset, state[f] # NoState,
         NEW new \in ParseState, new.mtime = stat.mtime, stat.offset <= new.offset, Current(f, new)
  PROVE  Current(f, state[f]) /\ Covers(f, state[f]) /\ stat.offset = state[f].offset
<1>1. /\ stat.offset = state[f].offset /\ state[f].mtime <= stat.mtime /\ state[f].parser = parser
      /\ state[f] \in ParseState /\ stat.offset \in Nat /\ stat.mtime \in Nat /\ logs[f] \in Log
  BY DEF Agreement, StatHolds, TypeOK
<1>2. Size(logs[f]) \in Nat /\ logs[f].mtime \in Nat
  BY <1>1, SizeType
<1>3. ~(Size(logs[f]) < new.offset) /\ ~(logs[f].mtime < new.mtime) /\ logs[f].exists
  BY DEF Current, Due, NeedsReset
<1>4. ~Due(state[f], logs[f])
  BY <1>1, <1>2, <1>3 DEF Due, NeedsReset, ParseState
<1>5. QED BY <1>1, <1>3, <1>4 DEF Current, Agreement, RowsHold

LEMMA ReadFileStep == Agreement /\ TypeOK' /\ ReadFile => Agreement'
<1> SUFFICES ASSUME Agreement, TypeOK', ReadFile PROVE Agreement'
  OBVIOUS
<1> DEFINE inherits == SourceOf[stat.file] = Codex
           read == {[file |-> stat.file, line |-> k,
                     row |-> RowOf(logs[stat.file], stat.offset, k, inherits, parser)]
                      : k \in UsageLines(logs[stat.file], stat.offset)}
<1>1. /\ phase = "read" /\ phase' = "scan" /\ logs[stat.file].exists
      /\ records' = records \cup read
      /\ nextStates' = [nextStates EXCEPT ![stat.file] =
           [offset |-> NextOffset(logs[stat.file], stat.offset), mtime |-> stat.mtime, parser |-> parser]]
      /\ resetFiles' = IF stat.reset THEN resetFiles \cup {stat.file} ELSE resetFiles
      /\ todo' = todo \ {stat.file}
      /\ UNCHANGED <<logs, parser, saved, source, state, first, dirty, events, late>>
  BY DEF ReadFile
<1>2. PICK f : f = stat.file
  OBVIOUS
<1>3. PICK new : new = [offset |-> NextOffset(logs[f], stat.offset), mtime |-> stat.mtime, parser |-> parser]
  OBVIOUS
<1>4. /\ f \in File /\ stat.offset \in Nat /\ stat.mtime \in Nat /\ stat.reset \in BOOLEAN
      /\ logs[f] \in Log /\ parser \in Nat
  BY <1>1, <1>2 DEF Agreement, TypeOK
<1>5. /\ new \in ParseState /\ new # NoState /\ new.offset = NextOffset(logs[f], stat.offset)
      /\ new.mtime = stat.mtime /\ new.parser = parser
  <2>1. NextOffset(logs[f], stat.offset) \in Nat
    BY <1>4, NextOffsetType
  <2>2. new \in ParseState
    BY <1>3, <1>4, <2>1 DEF ParseState
  <2>3. QED BY <1>3, <2>2, ScanMarkers DEF ParseState
<1>6. nextStates' = [nextStates EXCEPT ![f] = new] /\ nextStates \in [File -> ParseState \cup {NoState}]
  BY <1>1, <1>2, <1>3 DEF Agreement, TypeOK
<1>7. nextStates'[f] = new /\ \A g \in File : g # f => nextStates'[g] = nextStates[g]
  BY <1>4, <1>6
<1>8. InRun /\ InRun' /\ first
  BY <1>1 DEF InRun, Agreement, Books
<1>9. /\ f \in todo /\ nextStates[f] = NoState /\ SourceOf[f] = SourceOrder[source]
      /\ f \notin resetFiles /\ \A r \in records : r.file # f
      /\ state[f] = saved[f]
  <2>1. f \in todo /\ nextStates[f] = NoState /\ SourceOf[f] = SourceOrder[source]
    BY <1>1, <1>2 DEF Agreement, Books
  <2>2. source \in source..Len(SourceOrder)
    BY DEF Agreement, TypeOK
  <2>3. QED BY <1>4, <1>8, <2>1, <2>2 DEF Agreement, Books
<1>10. ASSUME NEW r \in read
       PROVE  /\ r.file = f /\ r.row.parser = parser /\ Faithful(r) /\ r.line \in UsageLines(logs[f], stat.offset)
  <2>1. PICK k \in UsageLines(logs[stat.file], stat.offset) :
          r = [file |-> stat.file, line |-> k,
               row |-> RowOf(logs[stat.file], stat.offset, k, inherits, parser)]
    OBVIOUS
  <2>2. /\ r.file = f /\ r.line = k /\ r.row.parser = parser
        /\ r.row.usage = logs[f].lines[k].usage /\ k \in UsageLines(logs[f], stat.offset)
    BY <1>2, <2>1 DEF RowOf
  <2>3. QED BY <2>2 DEF Faithful, Legible, UsageLines, Seen
<1>11. ASSUME NEW k \in UsageLines(logs[f], stat.offset) PROVE Waiting(f, k)'
  <2>1. [file |-> stat.file, line |-> k,
         row |-> RowOf(logs[stat.file], stat.offset, k, inherits, parser)] \in records'
    BY <1>1, <1>2, <1>11
  <2>2. QED BY <1>2, <2>1 DEF Waiting
<1> HIDE DEF read
<1>12. Books'
  <2>1. \A g \in File : nextStates'[g] # NoState => SourceOf[g] = SourceOrder[source] /\ nextStates'[g].parser = parser
    BY <1>5, <1>7, <1>9 DEF Agreement, Books
  <2>2. \A g \in resetFiles' : nextStates'[g] # NoState
    BY <1>1, <1>2, <1>5, <1>7 DEF Agreement, Books, TypeOK
  <2>3. \A r \in records' : nextStates'[r.file] # NoState /\ r.row.parser = parser
    <3>1. \A r \in records : r.file \in File
      BY DEF Agreement, TypeOK, Record
    <3>2. QED BY <1>1, <1>5, <1>7, <1>10, <3>1 DEF Agreement, Books
  <2>4. \A g \in todo' : SourceOf[g] = SourceOrder[source] /\ nextStates'[g] = NoState
    BY <1>1, <1>2, <1>7 DEF Agreement, Books, TypeOK
  <2>5. QED BY <1>1, <1>8, <2>1, <2>2, <2>3, <2>4 DEF Agreement, Books
<1>13. Size(logs[f]) \in Nat /\ logs[f].mtime \in Nat
  BY <1>4, SizeType
<1>14. \A k \in LineNo : LineStart(k) \in Nat /\ TextEnd(k) = LineStart(k) + 2
  BY AgentConstants DEF LineNo, LineStart, TextEnd
<1>15. \A k \in LineNo : stat.offset # LineStart(k) + 1
  <2>1. stat.offset = 0 \/ (state[f] # NoState /\ stat.offset = state[f].offset)
    BY <1>1, <1>2 DEF Agreement, StatHolds
  <2>2. state[f] # NoState => state[f] \in StatesOf(f)
    BY DEF StatesOf
  <2>3. QED BY <1>4, <1>14, <2>1, <2>2 DEF Agreement, WholeText
<1>16. WholeText'
  <2>1. \A k \in LineNo : new.offset # LineStart(k) + 1
    <3>1. \A k \in LineNo : Size(logs[f]) # LineStart(k) + 1
      <4>1. logs[f].cut \in {2, 3} /\ Len(logs[f].lines) \in Nat
        BY <1>4 DEF Agreement, WholeText, Log
      <4>2. \A k \in LineNo : k \in Nat
        BY AgentConstants DEF LineNo
      <4>3. QED BY <4>1, <4>2 DEF Size, LineStart
    <3>2. QED BY <1>5, <1>15, <3>1 DEF NextOffset
  <2>2. \A g \in File : \A ps \in {saved[g], state[g], nextStates'[g]} \ {NoState} :
          ps \in StatesOf(g) \/ ps = new
    BY <1>7 DEF StatesOf
  <2>3. QED BY <1>1, <2>1, <2>2 DEF Agreement, WholeText, StatesOf
<1>17. StatHolds'
  BY <1>1 DEF StatHolds
<1>18. stat.offset <= new.offset /\ Size(logs[f]) <= new.offset
       /\ (new.offset = Size(logs[f]) \/ (new.offset = stat.offset /\ Size(logs[f]) < stat.offset)
            \/ (new.offset = stat.offset /\ Size(logs[f]) = stat.offset))
  BY <1>4, <1>5, <1>13 DEF NextOffset
<1>19. ASSUME logs[f].exists, Due(new, logs[f]) PROVE Due(state[f], logs[f])
  <2>1. logs[f].mtime < stat.mtime \/ Size(logs[f]) < stat.offset
    BY <1>4, <1>5, <1>13, <1>18, <1>19 DEF Due, NeedsReset
  <2>2. QED BY <1>1, <1>2, <1>19, <2>1 DEF Agreement, StatHolds
<1>20. stat.reset => Due(state[f], logs[f]) /\ stat.offset = 0
  BY <1>1, <1>2 DEF Agreement, StatHolds
<1>21. Wiped(f)' <=> stat.reset
  BY <1>1, <1>2, <1>8, <1>9 DEF Wiped
<1>22. ASSUME Current(f, new) PROVE Pending(f)'
  <2>1. \A r \in records' : r.file = f => Faithful(r)'
    BY <1>1, <1>9, <1>10 DEF Faithful, Legible
  <2>2. new.offset = Size(logs[f])
    BY <1>4, <1>5, <1>13, <1>18, <1>22 DEF Current, Due, NeedsReset
  <2>3. ~stat.reset /\ state[f] # NoState =>
          Covers(f, state[f]) /\ stat.offset = state[f].offset
    BY <1>1, <1>2, <1>4, <1>5, <1>18, <1>22, ReadContinues
  <2>4. ASSUME NEW k \in LineNo, HasUsage(f, k), TextEnd(k) <= new.offset
        PROVE  Waiting(f, k)' \/ (Stored(f, k) /\ ~stat.reset)
    <3>1. CASE stat.offset <= LineStart(k)
      <4>1. k \in UsageLines(logs[f], stat.offset)
        BY <2>2, <2>4, <3>1 DEF UsageLines, Seen, HasUsage
      <4>2. QED BY <1>11, <4>1
    <3>2. CASE ~(stat.offset <= LineStart(k))
      <4>1. TextEnd(k) <= stat.offset /\ stat.offset # 0
        BY <1>4, <1>14, <1>15, <3>2
      <4>2. ~stat.reset /\ state[f] # NoState
        BY <1>1, <1>2, <1>20, <4>1 DEF Agreement, StatHolds
      <4>3. QED BY <2>3, <2>4, <4>1, <4>2 DEF Covers
    <3>3. QED BY <3>1, <3>2
  <2>5. ASSUME NEW k \in LineNo, events[f][k] # NoRow, ~stat.reset
        PROVE  Matches(f, k) /\ (events[f][k].parser = parser \/ Waiting(f, k)')
    <3>1. CASE state[f] = NoState
      <4>1. Matches(f, k)
        <5>1. Intact(f)
          BY <1>9, <1>22, <3>1 DEF Intact, Current, Due
        <5>2. QED BY <1>4, <2>5, <5>1 DEF Agreement, RowsHold
      <4>2. stat.offset = 0
        BY <1>1, <1>2, <3>1 DEF Agreement, StatHolds
      <4>3. events[f][k].usage # NoUsage
        <5>1. events[f][k] \in Row
          BY <1>4, <2>5 DEF Agreement, TypeOK
        <5>2. QED BY <5>1, ScanMarkers DEF Row
      <4>4. k \in UsageLines(logs[f], stat.offset)
        BY <1>14, <4>1, <4>2, <4>3 DEF UsageLines, Seen, Matches, Legible
      <4>5. QED BY <1>11, <4>1, <4>4
    <3>2. CASE state[f] # NoState
      BY <2>3, <2>5, <3>2 DEF Covers
    <3>3. QED BY <3>1, <3>2
  <2>6. \A k \in LineNo : /\ Stored(f, k)' <=> Stored(f, k)
                          /\ Matches(f, k)' <=> Matches(f, k)
                          /\ HasUsage(f, k)' <=> HasUsage(f, k)
    BY <1>1 DEF Stored, Matches, Legible, HasUsage
  <2>7. QED BY <1>1, <1>7, <1>21, <2>1, <2>4, <2>5, <2>6 DEF Pending
<1>23. ASSUME NEW g \in File, g # f, Pending(g) PROVE Pending(g)'
  <2>1. \A r : r \in records' /\ r.file = g <=> r \in records /\ r.file = g
    BY <1>1, <1>10, <1>23
  <2>2. \A k \in LineNo : /\ Stored(g, k)' <=> Stored(g, k)
                          /\ Matches(g, k)' <=> Matches(g, k)
                          /\ HasUsage(g, k)' <=> HasUsage(g, k)
                          /\ Waiting(g, k)' <=> Waiting(g, k)
    BY <1>1, <2>1 DEF Stored, Matches, Legible, HasUsage, Waiting
  <2>3. Wiped(g)' <=> Wiped(g)
    BY <1>1, <1>2, <1>23 DEF Wiped
  <2>4. \A r \in records' : r.file = g => Faithful(r)'
    BY <1>1, <1>23, <2>1 DEF Pending, Faithful, Legible
  <2>5. QED BY <1>1, <1>7, <1>23, <2>2, <2>3, <2>4 DEF Pending
<1>24. ReadHolds'
  <2>1. ASSUME NEW g \in File, nextStates'[g] # NoState
        PROVE  /\ logs[g].exists /\ Due(nextStates'[g], logs[g]) => Due(state[g], logs[g])
               /\ g \in resetFiles' => Due(state[g], logs[g])
               /\ Current(g, nextStates'[g]) => Pending(g)'
    <3>1. CASE g = f
      BY <1>1, <1>7, <1>9, <1>19, <1>20, <1>22, <3>1
    <3>2. CASE g # f
      BY <1>1, <1>2, <1>7, <1>23, <2>1, <3>2 DEF Agreement, ReadHolds
    <3>3. QED BY <3>1, <3>2
  <2>2. QED BY <1>1, <2>1 DEF ReadHolds, Current, Due
<1>25. RowsHold' /\ LateHolds'
  BY <1>1, <1>8, WalkKeeps
<1>26. QED BY <1>12, <1>16, <1>17, <1>24, <1>25 DEF Agreement

---------------------------------------------------------------------------
(* The invariant holds, and what it says of the saved offsets.             *)

LEMMA AgreementInit == Init => Agreement
<1> SUFFICES ASSUME Init PROVE Agreement
  OBVIOUS
<1>1. TypeOK
  BY TypeInit
<1>2. \A f \in File : saved[f] = NoState /\ state[f] = NoState /\ nextStates[f] = NoState
  BY DEF Init, NoStates
<1>3. \A f \in File : \A k \in LineNo : events[f][k] = NoRow
  BY DEF Init
<1>4. Books
  BY <1>2 DEF Init, Books, InRun
<1>5. WholeText
  BY <1>2 DEF Init, WholeText, StatesOf, EmptyLog
<1>6. StatHolds /\ ReadHolds /\ LateHolds
  BY <1>2 DEF Init, StatHolds, ReadHolds, LateHolds
<1>7. RowsHold
  BY <1>2, <1>3 DEF RowsHold, Current
<1>8. QED BY <1>1, <1>4, <1>5, <1>6, <1>7 DEF Agreement

LEMMA AgreementStep == Unruly = {} /\ Agreement /\ [Next]_vars => Agreement'
<1> SUFFICES ASSUME Unruly = {}, Agreement, [Next]_vars PROVE Agreement'
  OBVIOUS
<1>1. TypeOK'
  BY TypeStep DEF Agreement
<1>2. CASE Writer
  BY <1>2, WriterStep
<1>3. CASE Progress
  BY <1>1, <1>3, StartRunStep, StatFileStep, ReadFileStep, SkipFileStep, ScanDoneStep,
     PushAcceptedStep, SaveStateStep DEF Progress, ReadMissing
<1>4. CASE Settle
  BY <1>1, <1>4, LateStoredStep, LateDroppedStep DEF Settle
<1>5. CASE Fault
  BY <1>1, <1>5, SkipFileStep, ScanFailsStep, PushRefusedStep, PushStoredButFailedStep,
     PushTimesOutStep, SaveFailsStep, CrashStep, LoseStateStep DEF Fault, ReadError
<1>6. CASE Upgrade
  BY <1>1, <1>6, UpgradeStep
<1>7. CASE UNCHANGED vars
  <2>1. /\ UNCHANGED <<logs, parser, saved, phase, source, state, todo, stat, nextStates, resetFiles>>
        /\ UNCHANGED <<records, first, dirty, events, late>>
    BY <1>7 DEF vars, agentVars
  <2>2. Books' /\ WholeText' /\ StatHolds'
    BY <2>1 DEF Agreement, Books, InRun, WholeText, StatesOf, StatHolds, Due
  <2>3. RowsHold'
    BY <2>1, SameRows DEF Agreement
  <2>4. ReadHolds'
    BY <2>1 DEF Agreement, ReadHolds, Due, Current, Pending, Waiting, Wiped, Faithful, Matches, Stored, Legible, HasUsage
  <2>5. LateHolds'
    BY <2>1 DEF Agreement, LateHolds, InRun, Intact, Due, Faithful, Legible
  <2>6. QED BY <1>1, <2>2, <2>3, <2>4, <2>5 DEF Agreement
<1>8. QED BY <1>2, <1>3, <1>4, <1>5, <1>6, <1>7 DEF Next

LEMMA AgreementNothingLost == Agreement => NothingLost
<1> SUFFICES ASSUME Agreement, NEW f \in File, Trusted(f), NEW k \in LineNo,
                    HasUsage(f, k), LineStart(k) < saved[f].offset
             PROVE  Stored(f, k)
  BY DEF NothingLost
<1>1. Covers(f, saved[f])
  BY DEF Agreement, RowsHold, Current, Trusted
<1>2. TextEnd(k) <= saved[f].offset
  <2>1. saved[f].offset \in Nat /\ saved[f] \in StatesOf(f)
    BY DEF Agreement, TypeOK, Trusted, ParseState, StatesOf
  <2>2. LineStart(k) \in Nat /\ TextEnd(k) = LineStart(k) + 2
    BY AgentConstants DEF LineNo, LineStart, TextEnd
  <2>3. saved[f].offset # LineStart(k) + 1
    BY <2>1 DEF Agreement, WholeText
  <2>4. QED BY <2>1, <2>2, <2>3
<1>3. QED BY <1>1, <1>2 DEF Covers

LEMMA AgreementNothingExtra == Agreement => NothingExtra
<1> SUFFICES ASSUME Agreement, NEW f \in File, Trusted(f), NEW k \in LineNo, events[f][k] # NoRow
             PROVE  HasUsage(f, k) /\ Stored(f, k)
  BY DEF NothingExtra
<1>1. Covers(f, saved[f])
  BY DEF Agreement, RowsHold, Current, Trusted
<1>2. events[f][k].usage # NoUsage
  <2>1. events[f][k] \in Row
    BY DEF Agreement, TypeOK
  <2>2. QED BY <2>1, ScanMarkers DEF Row
<1>3. QED BY <1>1, <1>2 DEF Covers, Matches, Legible, HasUsage, Stored

---------------------------------------------------------------------------
(* Newer parse states reach further.                                       *)

LEMMA OffsetsSettled ==
  ASSUME TypeOK', state' = saved', \A f \in File : nextStates'[f] = NoState
  PROVE  OffsetsGrow'
<1>1. \A f \in File : saved'[f] # NoState => saved'[f].offset \in Nat
  BY DEF TypeOK, ParseState
<1>2. QED BY <1>1 DEF OffsetsGrow, Current

LEMMA OffsetsSame ==
  ASSUME OffsetsGrow, UNCHANGED <<logs, parser, saved, state, nextStates>>
  PROVE  OffsetsGrow'
BY DEF OffsetsGrow, Current, Due

LEMMA OffsetsTurnEnds ==
  ASSUME Agreement, OffsetsGrow, TypeOK', NEW ok \in BOOLEAN, NEW newState,
         newState = state \/ newState = Applied,
         EndSource(ok, newState), UNCHANGED <<logs, parser, saved>>
  PROVE  OffsetsGrow'
<1>1. /\ nextStates' = NoStates /\ state' = IF phase' = "idle" THEN saved ELSE newState
  BY EndSourceEffect DEF Agreement, TypeOK
<1>2. ASSUME NEW f \in File
      PROVE  \/ state'[f] \in {saved[f], state[f]}
             \/ nextStates[f] # NoState /\ state'[f] = nextStates[f] /\ saved[f] = state[f]
  <2>1. nextStates[f] # NoState => saved[f] = state[f]
    BY ReadFilesUnchanged DEF Agreement
  <2>2. QED BY <1>1, <2>1 DEF Applied
<1>3. \A f \in File : nextStates'[f] = NoState
  BY <1>1 DEF NoStates
<1>4. ASSUME NEW f \in File, logs[f].exists, saved[f] # NoState, state'[f] # NoState,
             ~Due(saved[f], logs[f]), ~Due(state'[f], logs[f])
      PROVE  saved[f].offset <= state'[f].offset
  <2>1. saved[f].offset \in Nat
    BY <1>4 DEF Agreement, TypeOK, ParseState
  <2>2. QED BY <1>2, <1>4, <2>1 DEF OffsetsGrow, Current
<1>5. QED BY <1>3, <1>4 DEF OffsetsGrow, Current, Due

LEMMA OffsetsWriter == Agreement /\ OffsetsGrow /\ Unruly = {} /\ Writer => OffsetsGrow'
<1> SUFFICES ASSUME Agreement, OffsetsGrow, Unruly = {}, Writer PROVE OffsetsGrow'
  OBVIOUS
<1>1. PICK f \in File : AppendLine(f) \/ ContinueLine(f) \/ ReplaceLog(f) \/ RemoveLog(f)
  BY DEF Writer
<1>2. /\ \A g \in File : g # f => logs'[g] = logs[g]
      /\ \A ps \in StatesOf(f) : Due(ps, logs[f]) => Due(ps, logs'[f])
      /\ \/ Grows(logs[f], logs'[f])
         \/ ~logs'[f].exists
         \/ saved[f] # NoState /\ \A ps \in StatesOf(f) : Due(ps, logs'[f])
         \/ Unread(f)
  BY <1>1, WriterEffect DEF Agreement
<1>3. UNCHANGED <<parser, saved, state, nextStates>>
  BY <1>1, WriterType DEF Agreement, agentVars
<1>4. \A g \in File : \A ps \in StatesOf(g) :
        logs'[g].exists /\ ~Due(ps, logs'[g]) => logs[g].exists /\ ~Due(ps, logs[g])
  BY <1>2 DEF Grows, Unread
<1>5. \A g \in File : /\ saved[g] # NoState => saved[g] \in StatesOf(g)
                      /\ state[g] # NoState => state[g] \in StatesOf(g)
                      /\ nextStates[g] # NoState => nextStates[g] \in StatesOf(g)
  BY DEF StatesOf
<1>6. QED BY <1>3, <1>4, <1>5 DEF OffsetsGrow, Current, Due

LEMMA OffsetsReadFile == Agreement /\ OffsetsGrow /\ ReadFile => OffsetsGrow'
<1> SUFFICES ASSUME Agreement, OffsetsGrow, ReadFile PROVE OffsetsGrow'
  OBVIOUS
<1>1. /\ phase = "read" /\ UNCHANGED <<logs, parser, saved, state>>
      /\ nextStates' = [nextStates EXCEPT ![stat.file] =
           [offset |-> NextOffset(logs[stat.file], stat.offset), mtime |-> stat.mtime, parser |-> parser]]
  BY DEF ReadFile
<1>2. /\ stat.file \in File /\ nextStates \in [File -> ParseState \cup {NoState}]
      /\ logs[stat.file] \in Log /\ stat.offset \in Nat
  BY <1>1 DEF Agreement, TypeOK
<1>3. stat.offset <= NextOffset(logs[stat.file], stat.offset)
  BY <1>2, SizeType DEF NextOffset
<1>4. Current(stat.file, state[stat.file]) => state[stat.file].offset = stat.offset
  BY <1>1 DEF Agreement, StatHolds, Current
<1>5. nextStates'[stat.file].offset = NextOffset(logs[stat.file], stat.offset)
      /\ \A f \in File : f # stat.file => nextStates'[f] = nextStates[f]
  BY <1>1, <1>2
<1>6. QED BY <1>1, <1>3, <1>4, <1>5 DEF OffsetsGrow, Current, Due

LEMMA OffsetsStep == Unruly = {} /\ IInv /\ TypeOK' /\ [Next]_vars => OffsetsGrow'
<1> SUFFICES ASSUME Unruly = {}, Agreement, OffsetsGrow, TypeOK', [Next]_vars PROVE OffsetsGrow'
  BY DEF IInv
<1>1. CASE Writer
  BY <1>1, OffsetsWriter
<1>2. CASE StartRun \/ SaveState \/ SaveFails \/ Crash
  <2>1. state' = saved' /\ nextStates' = NoStates
    BY <1>2 DEF StartRun, FreshSource, SaveState, SaveFails, Crash, Idle
  <2>2. QED BY <2>1, OffsetsSettled DEF NoStates
<1>3. CASE ReadFile
  BY <1>3, OffsetsReadFile
<1>4. CASE (\E f \in File : StatFile(f)) \/ SkipFile \/ Settle \/ UNCHANGED vars
  BY <1>4, OffsetsSame DEF StatFile, SkipFile, Settle, LateStored, LateDropped, agentVars, vars
<1>5. ASSUME NEW ok \in BOOLEAN, EndSource(ok, state), UNCHANGED <<logs, parser, saved>>
      PROVE  OffsetsGrow'
  BY <1>5, OffsetsTurnEnds
<1>6. CASE ScanDone
  BY <1>5, <1>6, OffsetsSame DEF ScanDone
<1>7. CASE ScanFails \/ PushRefused \/ PushStoredButFailed \/ PushTimesOut
  BY <1>5, <1>7 DEF ScanFails, PushRefused, PushStoredButFailed, PushTimesOut
<1>8. CASE PushAccepted
  <2>1. CASE EndSource(TRUE, Applied)
    <3>1. PICK ended : ended = Applied
      OBVIOUS
    <3>2. EndSource(TRUE, ended)
      BY <2>1, <3>1
    <3>3. UNCHANGED <<logs, parser, saved>>
      BY <1>8 DEF PushAccepted
    <3>4. QED BY <3>1, <3>2, <3>3, OffsetsTurnEnds
  <2>2. CASE UNCHANGED <<state, nextStates>>
    BY <1>8, <2>2, OffsetsSame DEF PushAccepted
  <2>3. QED BY <1>8, <2>1, <2>2 DEF PushAccepted
<1>9. CASE Upgrade \/ LoseState
  <2>1. phase = "idle" /\ UNCHANGED nextStates
    BY <1>9 DEF Upgrade, LoseState, agentVars
  <2>2. \A f \in File : nextStates'[f] = NoState
    BY <2>1 DEF Agreement, Books, InRun
  <2>3. state' = saved'
    <3>1. CASE Upgrade
      <4>1. state = saved
        BY <2>1 DEF Agreement, Books
      <4>2. QED BY <3>1, <4>1 DEF Upgrade, agentVars
    <3>2. CASE LoseState
      BY <3>2 DEF LoseState
    <3>3. QED BY <1>9, <3>1, <3>2
  <2>4. QED BY <2>2, <2>3, OffsetsSettled
<1>10. QED
  BY <1>1, <1>2, <1>3, <1>4, <1>6, <1>7, <1>8, <1>9
     DEF Next, Progress, Fault, ReadMissing, ReadError

LEMMA IInvInit == Init => IInv
<1> SUFFICES ASSUME Init PROVE IInv
  OBVIOUS
<1>1. Agreement
  BY AgreementInit
<1>2. OffsetsGrow
  BY DEF Init, NoStates, OffsetsGrow, Current
<1>3. QED BY <1>1, <1>2 DEF IInv

LEMMA IInvStep == Unruly = {} /\ IInv /\ [Next]_vars => IInv'
<1> SUFFICES ASSUME Unruly = {}, IInv, [Next]_vars PROVE IInv'
  OBVIOUS
<1>1. Agreement'
  BY AgreementStep DEF IInv
<1>2. OffsetsGrow'
  BY <1>1, OffsetsStep DEF Agreement
<1>3. QED BY <1>1, <1>2 DEF IInv

\* While writers and the network stay within the assumptions, every part of the
\* agent's and the server's state agrees with the files, at every step of every
\* run: the inductive invariant.
THEOREM InvariantHolds == Unruly = {} => (Spec => []IInv)
<1> SUFFICES ASSUME Unruly = {} PROVE Spec => []IInv
  OBVIOUS
<1>1. IInv /\ [Next]_vars => IInv'
  BY IInvStep
<1>2. QED BY <1>1, IInvInit, PTL DEF Spec

\* No line below a saved offset is missing on the server, however many files,
\* sources, lines and chunks there are and wherever pushes and runs broke off.
THEOREM NoUsageLost == Unruly = {} => (Spec => []NothingLost)
<1> SUFFICES ASSUME Unruly = {} PROVE Spec => []NothingLost
  OBVIOUS
<1>1. Spec => []IInv
  BY InvariantHolds
<1>2. QED BY <1>1, AgreementNothingLost, PTL DEF IInv

\* The server holds no row of a file the agent answers for that the file does
\* not bear out.
THEOREM NoUsageExtra == Unruly = {} => (Spec => []NothingExtra)
<1> SUFFICES ASSUME Unruly = {} PROVE Spec => []NothingExtra
  OBVIOUS
<1>1. Spec => []IInv
  BY InvariantHolds
<1>2. QED BY <1>1, AgreementNothingExtra, PTL DEF IInv

---------------------------------------------------------------------------
(* AgentSync implements UsageLedger.                                       *)

\* What any step may do to the files, the saved states and the rows.
LEMMA StepEffect ==
  ASSUME Agreement, Unruly = {}, Next
  PROVE  /\ logs' = logs \/ Writer
         /\ saved' = saved \/ saved' = state \/ saved' = NoStates
         /\ events' = events \/ \E req : Harmless(req) /\ events' = Ingested(req)
         /\ parser' = parser \/ Upgrade
<1>1. CASE Writer
  <2>1. PICK f \in File : AppendLine(f) \/ ContinueLine(f) \/ ReplaceLog(f) \/ RemoveLog(f)
    BY <1>1 DEF Writer
  <2>2. UNCHANGED <<parser, saved, events>>
    BY <2>1, WriterType DEF Agreement
  <2>3. QED BY <1>1, <2>2
<1>2. CASE PushAccepted \/ PushStoredButFailed
  <2>1. phase = "push" /\ events' = Ingested(CurrentRequest) /\ UNCHANGED <<logs, parser, saved>>
    BY <1>2 DEF PushAccepted, PushStoredButFailed
  <2>2. Harmless(CurrentRequest)
    BY <2>1, CurrentHarmless DEF Agreement
  <2>3. QED BY <2>1, <2>2
<1>3. CASE Settle
  BY <1>3, LateHarmless DEF Settle, LateStored, LateDropped, Agreement
<1>4. CASE SaveState \/ LoseState \/ Upgrade
  BY <1>4 DEF SaveState, LoseState, Upgrade
<1>5. CASE \/ StartRun \/ (\E f \in File : StatFile(f)) \/ ReadFile \/ SkipFile \/ ScanDone
           \/ ScanFails \/ PushRefused \/ PushTimesOut \/ SaveFails \/ Crash
  BY <1>5 DEF StartRun, StatFile, ReadFile, SkipFile, ScanDone, ScanFails, PushRefused,
     PushTimesOut, SaveFails, Crash
<1>6. QED BY <1>1, <1>2, <1>3, <1>4, <1>5 DEF Next, Progress, Fault, ReadMissing, ReadError

\* What a line of f reads as only changes from nothing to something while the
\* agent answers for f.
LEMMA ReadingGrows ==
  ASSUME Agreement, Unruly = {}, Next, Agreement', NEW f \in File, Trusted(f), Trusted(f)', NEW k \in LineNo,
         Reading(f, k) # NoUsage
  PROVE  Reading(f, k)' = Reading(f, k)
<1>1. CASE logs' = logs
  BY <1>1 DEF Reading, HasUsage
<1>2. CASE Writer
  <2>1. PICK g \in File : AppendLine(g) \/ ContinueLine(g) \/ ReplaceLog(g) \/ RemoveLog(g)
    BY <1>2 DEF Writer
  <2>2. /\ \A h \in File : h # g => logs'[h] = logs[h]
        /\ \/ Grows(logs[g], logs'[g])
           \/ ~logs'[g].exists
           \/ saved[g] # NoState /\ \A ps \in StatesOf(g) : Due(ps, logs'[g])
           \/ Unread(g)
    BY <2>1, WriterEffect DEF Agreement
  <2>3. UNCHANGED <<parser, saved, agentVars, events, late>>
    BY <2>1, WriterType DEF Agreement
  <2>4. logs'[f] = logs[f] \/ Grows(logs[f], logs'[f])
    BY <2>2, <2>3 DEF Trusted, Due, StatesOf, Unread
  <2>5. Legible(f, k) /\ HasUsage(f, k)
    BY DEF Reading, HasUsage, Legible
  <2>6. CASE logs'[f] = logs[f]
    BY <2>6 DEF Reading, HasUsage
  <2>7. CASE Grows(logs[f], logs'[f])
    <3>1. logs'[f] \in Log
      BY DEF Agreement, TypeOK
    <3>2. Legible(f, k)' /\ logs'[f].lines[k] = logs[f].lines[k]
      BY <2>3, <2>5, <2>7, <3>1, GrowthKeeps DEF Agreement
    <3>3. QED BY <2>5, <3>2 DEF Reading, HasUsage, Legible
  <2>8. QED BY <2>4, <2>6, <2>7
<1>3. QED BY <1>1, <1>2, StepEffect

\* The row the ledger has for a line.
RowReading(f, k) == IF events[f][k] = NoRow THEN NoUsage ELSE events[f][k].usage

LEMMA RowsGrow ==
  ASSUME Agreement, Unruly = {}, Next, NEW f \in File, Trusted(f), NEW k \in LineNo,
         RowReading(f, k) # NoUsage
  PROVE  RowReading(f, k)' = RowReading(f, k)
<1>1. events[f][k] # NoRow /\ Matches(f, k) /\ Intact(f)
  BY DEF RowReading, Agreement, RowsHold, Trusted, Intact
<1>2. CASE events' = events
  BY <1>2 DEF RowReading
<1>3. CASE \E req : Harmless(req) /\ events' = Ingested(req)
  <2>1. PICK req : Harmless(req) /\ events' = Ingested(req)
    BY <1>3
  <2>2. f \notin req.resets
    BY <1>1, <2>1 DEF Harmless, Intact
  <2>3. CASE \E r \in req.records : r.file = f /\ r.line = k /\ Ingested(req)[f][k] = r.row
    <3>1. PICK r \in req.records : r.file = f /\ r.line = k /\ events'[f][k] = r.row
      BY <2>1, <2>3
    <3>2. r \in Record /\ Faithful(r)
      BY <1>1, <2>1, <3>1 DEF Harmless, Request
    <3>3. r.row # NoRow
      BY <3>2, ScanMarkers DEF Record, Row
    <3>4. QED BY <1>1, <3>1, <3>2, <3>3 DEF RowReading, Matches, Faithful
  <2>4. QED BY <2>1, <2>2, <2>3, IngestCell DEF RowReading
<1>4. QED BY <1>2, <1>3, StepEffect

\* A saved offset the agent still builds on never moves back.
LEMMA MarkGrows ==
  ASSUME IInv, TypeOK', Unruly = {}, Next, NEW f \in File, Trusted(f), Trusted(f)'
  PROVE  saved[f].offset <= saved'[f].offset
<1>1. saved[f].offset \in Nat
  BY DEF IInv, Agreement, TypeOK, Trusted, ParseState
<1>2. CASE saved' = saved
  BY <1>1, <1>2
<1>3. CASE saved' = NoStates
  BY <1>3 DEF Trusted, NoStates
<1>4. CASE SaveState
  <2>1. UNCHANGED <<logs, parser>> /\ saved' = state
    BY <1>4 DEF SaveState
  <2>2. Current(f, saved[f]) /\ Current(f, state[f])
    BY <2>1 DEF Trusted, Current, Due
  <2>3. QED BY <2>1, <2>2 DEF IInv, OffsetsGrow
<1>5. saved' = saved \/ saved' = NoStates \/ SaveState
  <2>1. CASE Writer
    <3>1. PICK g \in File : AppendLine(g) \/ ContinueLine(g) \/ ReplaceLog(g) \/ RemoveLog(g)
      BY <2>1 DEF Writer
    <3>2. QED BY <3>1, WriterType DEF IInv, Agreement
  <2>2. CASE ~Writer /\ ~SaveState
    BY <2>2 DEF Next, Progress, Settle, Fault, ReadMissing, ReadError, StartRun, StatFile, ReadFile,
       SkipFile, ScanDone, ScanFails, PushAccepted, PushRefused, PushStoredButFailed, PushTimesOut,
       LateStored, LateDropped, SaveFails, Crash, LoseState, Upgrade
  <2>3. QED BY <2>1, <2>2
<1>6. QED BY <1>2, <1>3, <1>4, <1>5

\* The ledger's own reading of a state that satisfies the invariant: below the
\* mark rows and lines agree, and no row differs from its line.
RowsRight ==
  \A f \in File : Trusted(f) => \A k \in LineNo :
    /\ RowReading(f, k) # NoUsage => RowReading(f, k) = Reading(f, k)
    /\ k <= (saved[f].offset + 1) \div W => RowReading(f, k) = Reading(f, k)

LEMMA RowsAreRight == Agreement => RowsRight
<1> SUFFICES ASSUME Agreement, NEW f \in File, Trusted(f), NEW k \in LineNo
             PROVE  /\ RowReading(f, k) # NoUsage => RowReading(f, k) = Reading(f, k)
                    /\ k <= (saved[f].offset + 1) \div W => RowReading(f, k) = Reading(f, k)
  BY DEF RowsRight
<1>1. Covers(f, saved[f])
  BY DEF Agreement, RowsHold, Current, Trusted
<1>2. events[f][k] # NoRow => RowReading(f, k) = Reading(f, k) /\ Reading(f, k) # NoUsage
  <2> SUFFICES ASSUME events[f][k] # NoRow PROVE RowReading(f, k) = Reading(f, k) /\ Reading(f, k) # NoUsage
    OBVIOUS
  <2>1. events[f][k] \in Row
    BY DEF Agreement, TypeOK
  <2>2. events[f][k].usage # NoUsage
    BY <2>1, ScanMarkers DEF Row
  <2>3. Matches(f, k)
    BY <1>1 DEF Covers
  <2>4. QED BY <2>2, <2>3 DEF RowReading, Reading, HasUsage, Matches, Legible
<1>3. ASSUME events[f][k] = NoRow, k <= (saved[f].offset + 1) \div W
      PROVE  Reading(f, k) = NoUsage
  <2>1. k \in Nat /\ saved[f].offset \in Nat
    BY AgentConstants DEF LineNo, Agreement, TypeOK, Trusted, ParseState
  <2>2. TextEnd(k) <= saved[f].offset
    BY <1>3, <2>1 DEF TextEnd, LineStart
  <2>3. ~HasUsage(f, k)
    BY <1>1, <1>3, <2>2 DEF Covers, Stored
  <2>4. QED BY <2>3 DEF Reading
<1>4. QED BY <1>2, <1>3 DEF RowReading

\* How many lines of f the agent answers for.
MarkOf(f) == IF Trusted(f) THEN (saved[f].offset + 1) \div W ELSE -1

LEMMA LedgerInit == Init => Ledger!Init
<1> SUFFICES ASSUME Init PROVE Ledger!Init
  OBVIOUS
<1>1. \A f \in File, k \in LineNo : Reading(f, k) = NoUsage
  BY DEF Init, EmptyLog, Reading, HasUsage
<1>2. \A f \in File : ~Trusted(f)
  BY DEF Init, NoStates, Trusted
<1>3. \A f \in File, k \in LineNo : events[f][k] = NoRow
  BY DEF Init
<1>4. QED BY <1>1, <1>2, <1>3 DEF Ledger!Init

LEMMA LedgerStep == Unruly = {} /\ IInv /\ IInv' /\ Next => Ledger!Next
<1> SUFFICES ASSUME Unruly = {}, IInv, IInv', Next, NEW f \in File
             PROVE  Ledger!Extend(f) \/ Ledger!TakeUp(f) \/ Ledger!GiveUp(f)
  BY DEF Ledger!Next
<1>1. Agreement /\ Agreement' /\ TypeOK'
  BY DEF IInv, Agreement
<1>2. CASE ~Trusted(f)'
  BY <1>2 DEF Ledger!GiveUp
<1>3. CASE Trusted(f)'
  <2>1. Ledger!Right(f)'
    <3>1. RowsRight'
      BY <1>1, RowsAreRight, PTL
    <3>2. QED BY <1>3, <3>1 DEF RowsRight, Ledger!Right, RowReading
  <2>2. MarkOf(f)' # -1
    BY <1>1, <1>3 DEF MarkOf, TypeOK, Trusted, ParseState
  <2>3. CASE ~Trusted(f)
    BY <1>3, <2>1, <2>2, <2>3 DEF Ledger!TakeUp, MarkOf
  <2>4. CASE Trusted(f)
    <3>1. MarkOf(f) # -1 /\ MarkOf(f) <= MarkOf(f)'
      <4>1. saved[f].offset <= saved'[f].offset
        BY <1>1, <1>3, <2>4, MarkGrows
      <4>2. saved[f].offset \in Nat /\ saved'[f].offset \in Nat
        BY <1>1, <1>3, <2>4 DEF Agreement, TypeOK, Trusted, ParseState
      <4>3. QED BY <1>3, <2>4, <4>1, <4>2 DEF MarkOf
    <3>2. \A k \in LineNo : Reading(f, k) # NoUsage => Reading(f, k)' = Reading(f, k)
      BY <1>1, <1>3, <2>4, ReadingGrows
    <3>3. \A k \in LineNo : RowReading(f, k) # NoUsage => RowReading(f, k)' = RowReading(f, k)
      BY <1>1, <2>4, RowsGrow
    <3>4. QED BY <2>1, <2>2, <3>1, <3>2, <3>3 DEF Ledger!Extend, MarkOf, RowReading
  <2>5. QED BY <2>3, <2>4
<1>4. QED BY <1>2, <1>3

\* The agent and the ingest store implement the ledger, for any files, sources,
\* lines and chunk size, whatever fails in whatever order.
THEOREM ImplementsLedger == Unruly = {} => (Spec => KeepsLedger)
<1> SUFFICES ASSUME Unruly = {} PROVE Spec => KeepsLedger
  OBVIOUS
<1>1. IInv /\ IInv' /\ [Next]_vars => [Ledger!Next]_Ledger!vars
  <2>1. IInv /\ IInv' /\ Next => Ledger!Next
    BY LedgerStep
  <2>2. UNCHANGED vars => UNCHANGED Ledger!vars
    BY DEF vars, agentVars, Ledger!vars, Reading, HasUsage, Trusted, Due
  <2>3. QED BY <2>1, <2>2
<1>2. Spec => []IInv
  BY InvariantHolds
<1>3. Spec => Init /\ [][Next]_vars
  BY DEF Spec
<1>4. Ledger!Init /\ [][Ledger!Next]_Ledger!vars => KeepsLedger
  BY DEF KeepsLedger, Ledger!Spec
<1>5. QED BY <1>1, <1>2, <1>3, <1>4, LedgerInit, PTL
=============================================================================
