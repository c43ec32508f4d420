---------------------------- MODULE UsageLedger ----------------------------
(***************************************************************************)
(* What the agent and the ingest store promise together, without scans,    *)
(* chunks, retries or requests: a ledger of the usage lines of each file.  *)
(*                                                                         *)
(* The agent answers for a prefix of a file, its mark.  As long as it does *)
(* the ledger of that file is append-only, has every line below the mark   *)
(* and nothing the file does not say.  When it stops answering for a file  *)
(* (truncation, removal, another parser, a lost state file) anything may   *)
(* happen to the rows, but it takes the file up again only when they are   *)
(* right.                                                                  *)
(***************************************************************************)
EXTENDS Integers

CONSTANTS
  File,
  LineNo,
  NoReading,   \* a line that is not there, or reports no usage
  NoMark       \* a file the agent does not answer for

VARIABLES
  text,   \* what each line of each file reads as
  rows,   \* what the server has for it
  mark    \* how many lines the agent answers for

vars == <<text, rows, mark>>

Init ==
  /\ \A f \in File, k \in LineNo : text[f][k] = NoReading /\ rows[f][k] = NoReading
  /\ \A f \in File : mark[f] = NoMark

\* The rows of f are readings of its lines, and complete below the mark.
Right(f) ==
  \A k \in LineNo :
    /\ rows[f][k] # NoReading => rows[f][k] = text[f][k]
    /\ k <= mark[f] => rows[f][k] = text[f][k]

\* The agent answers for f before and after: what was there stays.
Extend(f) ==
  /\ mark[f] # NoMark /\ mark'[f] # NoMark /\ mark[f] <= mark'[f]
  /\ \A k \in LineNo :
       /\ text[f][k] # NoReading => text'[f][k] = text[f][k]
       /\ rows[f][k] # NoReading => rows'[f][k] = rows[f][k]
  /\ Right(f)'

TakeUp(f) == mark[f] = NoMark /\ mark'[f] # NoMark /\ Right(f)'

GiveUp(f) == mark'[f] = NoMark

Next == \A f \in File : Extend(f) \/ TakeUp(f) \/ GiveUp(f)

Spec == Init /\ [][Next]_vars
=============================================================================
