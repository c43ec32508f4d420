---------------------------- MODULE MCLocalUsage ----------------------------
EXTENDS LocalUsage, TLC

CONSTANTS r1, r2, m1, m2

TwoRuns == {r1, r2}
Symmetric == Permutations(TwoRuns) \cup Permutations({m1, m2})
TwoPaths == <<"wham", "codex">>

\* The quota at a moment: the 5H window starts anew at 2, the week never does.
QuotaAt(t) == [five |-> [reset |-> IF t < 2 THEN 2 ELSE 9, seen |-> t],
               week |-> [reset |-> 9, seen |-> t]]

Plain    == [at |-> 0, five |-> NoObs, week |-> NoObs]
Observed == [at |-> 0, five |-> [reset |-> 1, seen |-> 0], week |-> [reset |-> NoReset, seen |-> 0]]

AllUsage == {Plain, Observed}

Quiet == [client |-> "codex", answers |-> {"no_token"}, limits |-> [t \in Moments |-> NoLimits]]

Asked(client, answers) ==
  [client |-> client, answers |-> answers, limits |-> [t \in Moments |-> QuotaAt(t)]]

\* A file that grows and is replaced; a Codex and a Claude client; agents' reports.
Scanned == [mode |-> "builtin", fetcher |-> "none", clock |-> FALSE, writes |-> TRUE,
            lines |-> <<>>, usage |-> {NoUsage, Plain}, machines |-> {}, upstream |-> Quiet]
Codex   == [Scanned EXCEPT !.fetcher = "online", !.clock = TRUE, !.writes = FALSE,
                           !.lines = <<[usage |-> Observed, model |-> NoModel]>>,
                           !.upstream = Asked("codex", {"ok", "not_found", "rate_limited", "no_token"})]
Claude  == [Codex EXCEPT !.lines = <<>>,
                         !.upstream = Asked("claude", {"ok", "unavailable", "unauthorized",
                                                       "rate_limited", "not_found", "unexpected"})]
Pushed  == [Scanned EXCEPT !.mode = "remote", !.fetcher = "store", !.clock = TRUE,
                           !.writes = FALSE, !.usage = {}, !.machines = {m1, m2}]
Records == [Pushed EXCEPT !.usage = {NoUsage, Observed}, !.machines = {m1}]

AllSetups == {Scanned, Codex, Claude, Pushed, Records}
=============================================================================
