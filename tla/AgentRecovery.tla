--------------------------- MODULE AgentRecovery ---------------------------
(***************************************************************************)
(* AgentSync with a moment after which nothing else goes wrong: no writer  *)
(* touches the files, no upgrade, no fault.  What is left then is the      *)
(* agent's own loop and the handlers left behind by timed out requests.    *)
(*                                                                         *)
(* Which files are ever written to is chosen at the beginning, so that one *)
(* run covers a source with two files, whose push takes two chunks, and    *)
(* two sources with one file each, which share the saved state.            *)
(***************************************************************************)
EXTENDS AgentSync

CONSTANT Layouts  \* bound: the sets of files of which one is written to

ASSUME LayoutsOfFiles == Layouts \subseteq SUBSET File

VARIABLES
  calm,   \* nothing goes wrong any more
  files   \* the files that writers touch

recoveryVars == <<vars, calm, files>>

RecoveryInit == Init /\ calm = FALSE /\ files \in Layouts

RecoveryNext ==
  /\ \/ ~calm /\ Next /\ UNCHANGED calm /\ \A f \in File \ files : logs'[f] = logs[f]
     \/ ~calm /\ calm' = TRUE /\ UNCHANGED vars
     \/ calm /\ (Progress \/ Settle) /\ UNCHANGED calm
  /\ UNCHANGED files

RecoverySpec ==
  /\ RecoveryInit /\ [][RecoveryNext]_recoveryVars
  /\ WF_recoveryVars(Progress /\ UNCHANGED <<calm, files>>)
  /\ WF_recoveryVars(Settle /\ UNCHANGED <<calm, files>>)

\* Every file that exists is on the server line by line, and nothing else is.
InSync ==
  \A f \in File : logs[f].exists =>
    \A k \in LineNo :
      IF Reading(f, k) # NoUsage THEN Stored(f, k) ELSE events[f][k] = NoRow

\* Once writers and faults stop, in whatever half-done state they left the agent
\* (a push cut between two chunks, a state not saved, a late request that deletes
\* and inserts), the server catches up with the files and stays so: no file is
\* skipped for ever and no request left behind undoes the catching up.
CatchesUp == [](calm => <>[]InSync)
=============================================================================
