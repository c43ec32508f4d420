------------------------------ MODULE TrioPanel ------------------------------
(***************************************************************************)
(* infohub: the trio panel, Claude Pro through CPA and Antigravity through *)
(* the agents, shown side by side from the latest snapshots of the two     *)
(* collectors (buildTrioPlatforms; its third block is that of Sub2API).    *)
(***************************************************************************)
EXTENDS CPAUsage, QuotaGroups

CONSTANT Setups  \* configurations, and what may happen: see MCTrioPanel

ASSUME SetupConstants ==
  \A s \in Setups :
    /\ IsFiniteSet(s.agy.machines)
    /\ s.agy.prod \subseteq {"cloud", "static"} /\ s.agy.switch \subseteq {"switch", "undated"}
    /\ \A t \in Moments, g \in Range(Group) :
         {s.agy.quota[t][g].five, s.agy.quota[t][g].week} \subseteq Window \cup {NoWindow}

vars == <<now, cpaVars, agyVars>>

Init ==
  /\ now = 0
  /\ \E s \in Setups : cpa = s.cpa /\ agy = s.agy
  /\ CPAInit /\ GroupsInit

Time == (cpa.clock \/ agy.clock) /\ Tick /\ InTime(now') /\ Timely(now')
          /\ UNCHANGED <<cpaVars, agyVars>>

CPA ==
  /\ \/ \E auth \in cpa.used, kind \in cpa.kinds : Request(auth, kind)
     \/ \E auth \in cpa.switches : Switch(auth)
     \/ Redeliver \/ Expire \/ Restart
     \/ cpa.on /\ \E r \in Run : CPACollect(r)
  /\ UNCHANGED <<now, agyVars>>

Antigravity ==
  /\ \/ \E m \in agy.machines :
          \/ UseTokens(m) \/ FetchGroups(m) \/ ReadStats(m) \/ Push(m)
          \/ Lose(m) \/ SaveTotals(m) \/ ReplaceGroups(m)
     \/ agy.machines # {} /\ CollectGroups
  /\ UNCHANGED <<now, cpaVars>>

Next == Time \/ CPA \/ Antigravity

Spec == Init /\ [][Next]_vars

---------------------------------------------------------------------------
(* The panel.                                                              *)

ClaudeToday == ProductToday(claude.items, "claude")
ClaudeWeek  == ProductWeek(claude.items, "claude")

\* The account of a row of Claude is shown by its email.
ClaudeRows(snapshot) ==
  LET rowsOf == TrioRows(snapshot.items, "Claude Pro")
  IN  [n \in DOMAIN rowsOf |-> IF rowsOf[n].email = Missing THEN rowsOf[n]
                               ELSE [rowsOf[n] EXCEPT !.account = rowsOf[n].email]]

GeminiToday == ProductToday(gemini.items, "antigravity")
GeminiWeek  == ProductWeek(gemini.items, "antigravity")
GeminiRows  == MarkMissingFiveHour(TrioRows(gemini.items, "Gemini"))

---------------------------------------------------------------------------
(* Properties.                                                             *)

\* The types of the state.
TypeOK ==
  /\ now \in Moments /\ lock \in Run \cup {"free"}
  /\ quota.at \in Moments \cup {Never} /\ quota.err \in BOOLEAN
  /\ \A row \in rows : row.record \in made
  /\ \A r \in Run : drain[r].left \in 0..MaxBatches /\ Cardinality(drain[r].batch) <= BatchSize
  /\ \A m \in agy.machines : \A row \in totals[m] : row.day \in Days /\ row.total \in 0..MaxTokens

\* No record the collector counts is dropped: it is in CPA's queue, in the hands of a
\* collect that saves it before it reads on, or stored, unless the retention, a failed
\* request or save or the end of the process took it (drainUsage). What convertUsage
\* discards after the pop, without a trace, is exactly this: entries that do not decode or
\* have no timestamp, those of another provider, and with a configured account those of
\* another credential.
Accounted ==
  \A e \in made :
    \/ e \in RecordsOf(Range(queue)) \cup Held \cup lost
    \/ \E row \in rows : row.record = e
    \/ e.kind # "own"
    \/ Pinned /\ e.auth # cpa.account

\* The requests of some days that are to be counted.
Requests(records, from, to) ==
  Cardinality({e \in records : /\ e.kind = "own" /\ DayOf(e.at) \in from..to
                               /\ Pinned => e.auth = cpa.account})

\* The figures of Claude count no request twice, however often its record was delivered,
\* and when nothing was lost or is still on its way they count every request of the
\* provider made before the collect began whose entry can be read; the week ends on the day
\* the collect began.
UsageIsTruth ==
  ClaudeToday # Missing /\ (Pinned => \A row \in rows : row.record.auth = cpa.account) =>
    LET today  == DayOf(claude.at)
        monday == WeekStart(today)
    IN  /\ ClaudeToday <= Requests(made, today, today)
        /\ ClaudeWeek  <= Requests(made, monday, today)
        /\ claude.whole => /\ ClaudeToday >= Requests(claude.made, today, today)
                           /\ ClaudeWeek  >= Requests(claude.made, monday, today)

HasQuota(snapshot) ==
  \E row \in Range(ClaudeRows(snapshot)) : row.five # Missing \/ row.week # Missing

\* Once the panel shows a quota of Claude no failure makes it unknown again, while the
\* process runs (quota: a failed refresh keeps the last good items), except by a collect
\* that began before the last refresh: it may have been given what was known before. After
\* a restart a failing refresh has nothing to keep.
KeepsLastGood ==
  [][HasQuota(claude) /\ ~cpa.restarts /\ claude'.at >= quota.at => HasQuota(claude')]_claude

\* With a configured account the records of another are stored only by a collect that asked
\* for the quota before any refresh had succeeded since the start (quota, convertUsage),
\* whichever refreshes fail afterwards. A credential that was selected but whose quota could
\* not be fetched is not remembered: until a refresh succeeds every collect stores them.
PinnedOnly ==
  \A row \in rows : Pinned /\ row.record.auth # cpa.account => row.blind

RowFor(rowsOf, s) == rowsOf[CHOOSE n \in DOMAIN rowsOf : rowsOf[n].account = s.name]

\* A group Cloud Code was asked for is shown without a 5H limit only if upstream has none:
\* a spent window, of which upstream leaves out the fraction, is shown as spent.
SpentIsNotUnlimited ==
  LET rowsOf == GeminiRows
  IN  \A n \in DOMAIN gemini.shown :
        LET s == gemini.shown[n]
        IN  s.from = "cloud" /\ RowFor(rowsOf, s).five = NoFiveHour =>
              agy.quota[s.read][s.name].five = NoWindow

\* What a cell says is what an answer said of the window, or that the window started anew
\* since, and unless the answer is one of Switch without a date it was given not long
\* before: no report counts longer than GroupStale, whichever machine sent it and however
\* late its push was handled. Of the answers only a static one of the prod host says
\* something else than the quota then was: that the window is full.
ShownAsRead ==
  LET rowsOf == GeminiRows
  IN  \A n \in DOMAIN gemini.shown :
        LET s     == gemini.shown[n]
            truth == agy.quota[s.read][s.name].week
            week  == RowFor(rowsOf, s).week
            old   == GroupStale + PushDelay + (IF s.from = "switch" THEN SwitchMaxAge ELSE 0)
        IN  /\ s.from # "undated" => s.read + old >= gemini.at
            /\ truth # NoWindow /\ week # Missing =>
                 week = IF s.from = "static" \/ truth.reset <= gemini.at THEN 100 ELSE Bucket(truth).left

\* What a machine can have reported of a day: what it used then, or, if it was asked before
\* a midnight and took the date after it, what it had used on the day that had ended.
Reportable(m, day) ==
  IF misfiled[m][day] > tokens[m][day] THEN misfiled[m][day] ELSE tokens[m][day]

Used(from, to) ==
  SumFunction([p \in agy.machines \X (Days \cap (from..to)) |-> Reportable(p[1], p[2])])

\* A push that is repeated, or of which only the totals were stored, counts no token twice,
\* and today's figure is part of the week's (ingestQuotaGroups). Only a cycle over midnight
\* (FetchUsageRecords) makes the total of the day that ended count for the new day as well,
\* until a total of that day replaces it.
TokensCountedOnce ==
  /\ \A m \in agy.machines, d \in Days :
       misfiled[m][d] > 0 => \E e \in Days : e < d /\ misfiled[m][d] <= tokens[m][e]
  /\ GeminiToday # Missing =>
       LET today == DayOf(gemini.at)
       IN  /\ GeminiToday <= Used(today, today) /\ GeminiWeek <= Used(WeekStart(today), today)
           /\ GeminiToday <= GeminiWeek

\* The server keeps the groups of a machine whatever it pushes without them, a total of a
\* day or nothing, and also when it refuses a push (runAntigravity, ingestQuotaGroups).
KeepsGroups ==
  [][\A m \in agy.machines : groups[m].groups # <<>> => groups'[m].groups # <<>>]_groups
=============================================================================
