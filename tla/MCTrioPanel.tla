----------------------------- MODULE MCTrioPanel -----------------------------
EXTENDS TrioPanel

CONSTANTS r1, r2, c1, c2, m1, m2, m3

TwoRuns == {r1, r2}
Symmetric == Permutations(TwoRuns) \cup Permutations({m1, m2})
TwoAuths == <<c1, c2>>
TwoGroups == <<"Gemini Models", "Gemini 4 Argon">>

---------------------------------------------------------------------------
(* CPA: failing, also late, over midnight, with one account, restarting.  *)

NoCPA == [on |-> FALSE, requests |-> 0, used |-> {c1}, kinds |-> {"own"}, account |-> NoAuth,
          redelivers |-> FALSE, expires |-> FALSE, switches |-> {}, fails |-> FALSE, restarts |-> FALSE,
          windows |-> {{"5H", "Week"}}, clock |-> FALSE]

Failing    == [NoCPA EXCEPT !.on = TRUE, !.requests = 2, !.fails = TRUE, !.expires = TRUE,
                            !.windows = {{"5H", "Week"}, {"Week"}, {}}]
Late       == [Failing EXCEPT !.requests = 0, !.clock = TRUE]
Midnight   == [NoCPA EXCEPT !.on = TRUE, !.requests = 2, !.clock = TRUE]
Again      == [NoCPA EXCEPT !.on = TRUE, !.requests = 1, !.redelivers = TRUE,
                            !.kinds = {"own", "other", "unread"}]
OneAccount == [NoCPA EXCEPT !.on = TRUE, !.requests = 1, !.used = {c1, c2},
                            !.account = c1, !.switches = {c1}, !.clock = TRUE]
Restarting == [NoCPA EXCEPT !.on = TRUE, !.requests = 2, !.account = c1, !.restarts = TRUE]

---------------------------------------------------------------------------
(* Antigravity: two machines, the other answers, and refused pushes.       *)

\* The quota at a moment: one group starts anew at 2 and has just been spent, one has only
\* a weekly limit.
QuotaAt(t) ==
  [g \in {TwoGroups[n] : n \in DOMAIN TwoGroups} |->
     IF g = "Gemini Models"
     THEN [five |-> [left |-> IF t = 1 THEN Unstated ELSE 40, reset |-> IF t < 2 THEN 2 ELSE 9],
           week |-> [left |-> 70 - t, reset |-> IF t < 2 THEN 2 ELSE 9]]
     ELSE [five |-> NoWindow, week |-> [left |-> 30 - t, reset |-> 9]]]

NoAgy == [machines |-> {}, calls |-> {"ok"}, file |-> 0, refreshes |-> FALSE, prod |-> {"cloud"}, switch |-> {},
          uses |-> FALSE, badNames |-> {FALSE}, clock |-> FALSE, quota |-> [t \in Moments |-> QuotaAt(t)]]

TwoMachines == [NoAgy EXCEPT !.machines = {m1, m2}, !.file = 3, !.clock = TRUE]
Fallback    == [NoAgy EXCEPT !.machines = {m3}, !.calls = {"ok", "unauthorized"}, !.file = 1,
                             !.refreshes = TRUE, !.switch = {"switch"}, !.clock = TRUE]
Static      == [NoAgy EXCEPT !.machines = {m3}, !.calls = {"ok", "fail"}, !.file = 9,
                             !.prod = {"cloud", "static"}, !.clock = TRUE]
Undated     == [NoAgy EXCEPT !.machines = {m3}, !.switch = {"undated"}, !.clock = TRUE]
Refused     == [NoAgy EXCEPT !.machines = {m3}, !.file = 3, !.uses = TRUE, !.badNames = BOOLEAN,
                             !.clock = TRUE]

LateC == [cpa |-> Late, agy |-> NoAgy]
FailingC == [cpa |-> Failing, agy |-> NoAgy]
MidnightC == [cpa |-> Midnight, agy |-> NoAgy]
AgainC == [cpa |-> Again, agy |-> NoAgy]
OneAccountC == [cpa |-> OneAccount, agy |-> NoAgy]
RestartingC == [cpa |-> Restarting, agy |-> NoAgy]
TwoMachinesC == [cpa |-> NoCPA, agy |-> TwoMachines]
StaticC == [cpa |-> NoCPA, agy |-> Static]
UndatedC == [cpa |-> NoCPA, agy |-> Undated]
FallbackC == [cpa |-> NoCPA, agy |-> Fallback]
RefusedC == [cpa |-> NoCPA, agy |-> Refused]
AllSetups == {FailingC, LateC, MidnightC, AgainC, OneAccountC, RestartingC, TwoMachinesC, FallbackC, StaticC,
              UndatedC, RefusedC}
=============================================================================
