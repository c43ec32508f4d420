----------------------------- MODULE LocalUsage -----------------------------
(***************************************************************************)
(* infohub: the server's collector of local usage (claude_local,           *)
(* codex_local).  A collect reads what was appended to a log file since    *)
(* the stored parse state and saves the rows (builtin mode), or reads the  *)
(* rows agents pushed (remote mode); then it fills in the quota from the   *)
(* rows, from an online client or from an agent's report.                  *)
(*                                                                         *)
(* Collects of one source can overlap: the cron job, the run at start, a   *)
(* refresh.  The parse state is loaded by one query and saved by another   *)
(* transaction, with the scan in between.                                  *)
(***************************************************************************)
EXTENDS OnlineQuota, LocalScan, FiniteSets, FiniteSetsExt

CONSTANTS
  Setups,      \* configurations, and what happens around the collects: see MCLocalUsage
  NoReport,    \* a machine that has not reported a quota
  ReportStale, \* how long a report counts
  MaxLines,    \* bound: lines of the file
  MaxMTime     \* bound: modification times

\* What a row can say of a message: its time and the quota it carries. An upstream's
\* quota is the one of the moment of its answer. main.go reads agents' reports in remote
\* mode and asks an upstream in the other.
ASSUME LocalConstants ==
  /\ Usage \subseteq [at : Nat, five : Obs \cup {NoObs}, week : Obs \cup {NoObs}]
  /\ ReportStale \in Nat \ {0} /\ MaxLines \in Nat /\ MaxMTime \in Nat
  /\ \A s \in Setups :
       /\ s.mode \in {"builtin", "remote"}
       /\ s.fetcher \in IF s.mode = "remote" THEN {"none", "store"} ELSE {"none", "online"}
       /\ s.lines \in Seq(Line) /\ Len(s.lines) <= MaxLines
       /\ s.usage \subseteq Usage \cup {NoUsage}
       /\ s.upstream.answers \subseteq Answers
       /\ \A t \in Moments :
            /\ s.upstream.limits[t] \in Limits
            /\ \A obs \in {s.upstream.limits[t].five, s.upstream.limits[t].week} :
                 obs # NoObs => obs.seen = t

VARIABLES
  setup,    \* mode (builtin or remote), fetcher (none, online or store), what may change
  log,      \* the JSONL file
  ps,       \* its parse state in the database
  rows,     \* its rows in the database
  reports,  \* agent_quota_observations of the source, by machine
  collect,  \* the collects in progress
  shown,    \* the items of the collect that returned last
  replaced  \* history: the file was truncated or replaced: "no"; "between" scans; "during"
            \* a scan, or while the rows of the old file were deleted under a scan

localVars == <<log, ps, rows, reports, collect, shown, replaced>>
vars == <<setup, now, upstream, clientVars, localVars>>

LineNo == 1..MaxLines
Version == 1

NoItem == [obs |-> NoObs, from |-> "estimated"]

NoCollect == [step |-> "idle", ps |-> NoState, offset |-> 0, reset |-> FALSE, mtime |-> 0,
              next |-> NoState, read |-> [k \in LineNo |-> NoRow], total |-> 0, began |-> 0,
              built |-> 0, limits |-> NoLimits]

Used(file) == Cardinality(UsageLines(file, 0))

Init ==
  /\ ClientInit
  /\ setup \in Setups
  /\ upstream = setup.upstream
  /\ log = [EmptyLog EXCEPT !.lines = setup.lines]
  /\ ps = NoState /\ rows = [k \in LineNo |-> NoRow]
  /\ reports = [m \in setup.machines |-> NoReport]
  /\ collect = [r \in Run |-> NoCollect]
  /\ shown = [total |-> 0, began |-> 0, built |-> 0, five |-> NoItem, week |-> NoItem]
  /\ replaced = "no"

Time == setup.clock /\ Tick /\ UNCHANGED <<setup, upstream, clientVars, localVars>>

---------------------------------------------------------------------------
(* What happens around the collects.                                       *)

\* The parse states that are stored or may come to be.
States == ({ps} \cup {collect[r].ps : r \in Run} \cup {collect[r].next : r \in Run}) \ {NoState}

\* The file does not grow past the offset of a parse state before that state has
\* noticed that it was truncated: no scan could tell.
WriteLog(file) ==
  /\ \A s \in States : NeedsReset(s, log, Version) => NeedsReset(s, file, Version)
  /\ log' = file
  /\ UNCHANGED <<setup, now, upstream, clientVars, ps, rows, reports, collect, shown>>

AppendLine ==
  /\ setup.writes /\ Len(log.lines) < MaxLines /\ log.mtime < MaxMTime
  /\ \E usage \in setup.usage :
       WriteLog([log EXCEPT !.lines = Append(@, [usage |-> usage, model |-> NoModel]),
                            !.mtime = @ + 1])
  /\ UNCHANGED replaced

Scanning(r) == collect[r].step \in {"stat", "read", "save"}

ReplaceLog ==
  /\ setup.writes /\ log.lines # <<>> /\ log.mtime < MaxMTime
  /\ \A s \in States : s.offset > 0
  /\ WriteLog([EmptyLog EXCEPT !.mtime = log.mtime + 1])
  /\ replaced' = IF replaced = "during" \/ \E r \in Run : Scanning(r) THEN "during" ELSE "between"

\* An agent's push, taken one row at a time: of a record, which may carry a quota, or of a
\* file to reset, whose row is deleted.
PushRecord(k) ==
  /\ setup.mode = "remote"
  /\ \E usage \in setup.usage :
       rows' = [rows EXCEPT ![k] = IF usage = NoUsage THEN NoRow
                                   ELSE [usage |-> usage, model |-> NoModel, parser |-> Version]]
  /\ UNCHANGED <<setup, now, upstream, clientVars, log, ps, reports, collect, shown, replaced>>

\* An agent's push of its quota: one report in a moment.
Push(m) ==
  /\ setup.mode = "remote" /\ (reports[m] # NoReport => reports[m].at < now)
  /\ \E five \in {NoObs, [reset |-> now + 1, seen |-> now]} :
       LET week == [reset |-> now + 3, seen |-> now]
       IN  reports' = [reports EXCEPT ![m] = [five |-> five, week |-> week, at |-> now]]
  /\ UNCHANGED <<setup, now, upstream, clientVars, log, ps, rows, collect, shown, replaced>>

---------------------------------------------------------------------------
(* collectEvents.                                                          *)

At(r, step) == collect[r].step = step

Goes(r, step) == collect' = [collect EXCEPT ![r].step = step]

\* LoadLocalParseStates; in remote mode there is nothing to scan.
Begin(r) ==
  /\ At(r, "idle")
  /\ collect' = [collect EXCEPT
       ![r] = [NoCollect EXCEPT !.step = IF setup.mode = "remote" THEN "list" ELSE "stat",
                                !.ps = ps, !.began = Used(log)]]
  /\ UNCHANGED <<setup, now, upstream, clientVars, log, ps, rows, reports, shown, replaced>>

\* ScanIncremental: the decision on the file, made on its directory entry.
Stat(r) ==
  LET due    == collect[r].ps # NoState /\ NeedsReset(collect[r].ps, log, Version)
      offset == IF collect[r].ps = NoState \/ due THEN 0 ELSE collect[r].ps.offset
  IN  /\ At(r, "stat")
      /\ IF Size(log) = offset /\ ~due THEN Goes(r, "list")
         ELSE collect' = [collect EXCEPT ![r].step = "read", ![r].offset = offset,
                                         ![r].reset = due, ![r].mtime = log.mtime]
      /\ UNCHANGED <<setup, now, upstream, clientVars, log, ps, rows, reports, shown, replaced>>

\* parseJSONLRecords
Read(r) ==
  LET offset == collect[r].offset
  IN  /\ At(r, "read")
      /\ collect' = [collect EXCEPT
           ![r].step = "save",
           ![r].next = [offset |-> NextOffset(log, offset), mtime |-> collect[r].mtime,
                        parser |-> Version],
           ![r].read = [k \in LineNo |-> IF k \in UsageLines(log, offset)
                                         THEN RowOf(log, offset, k, FALSE, Version) ELSE NoRow]]
      /\ UNCHANGED <<setup, now, upstream, clientVars, log, ps, rows, reports, shown, replaced>>

\* Mutated form: the rows of a file that is read again are kept.
Saved_KeepsRows(r) ==
  [k \in LineNo |-> IF collect[r].read[k] # NoRow THEN collect[r].read[k] ELSE rows[k]]

\* Mutated form: the rows of a file are deleted whenever it was read.
Saved_Replaces(r) == collect[r].read

\* The rows after the batch: those of a reset file deleted, the records upserted.
Saved(r) ==
  [k \in LineNo |-> IF collect[r].read[k] # NoRow THEN collect[r].read[k]
                    ELSE IF collect[r].reset THEN NoRow ELSE rows[k]]

\* The scan of r relies on rows stored before it began.
Trusts(r) ==
  \/ /\ At(r, "stat") /\ collect[r].ps # NoState
     /\ ~NeedsReset(collect[r].ps, log, Version)
  \/ At(r, "read") /\ collect[r].offset > 0
  \/ At(r, "save") /\ collect[r].offset > 0

\* SaveLocalUsageBatch, one transaction.
Save(r) ==
  /\ At(r, "save")
  /\ ps' = collect[r].next /\ rows' = Saved(r)
  /\ replaced' = IF collect[r].reset /\ \E q \in Run : Trusts(q) THEN "during" ELSE replaced
  /\ collect' = [collect EXCEPT ![r] = [NoCollect EXCEPT !.step = "list", !.began = collect[r].began]]
  /\ UNCHANGED <<setup, now, upstream, clientVars, log, reports, shown>>

\* The scan or the transaction fails, and with it the collect.
Fails(r) ==
  /\ Scanning(r)
  /\ collect' = [collect EXCEPT ![r] = NoCollect]
  /\ UNCHANGED <<setup, now, upstream, clientVars, log, ps, rows, reports, shown, replaced>>

---------------------------------------------------------------------------
(* buildItems.                                                             *)

\* discardExpiredRateLimits, for one window: one that names no reset is kept.
Current(obs, t) ==
  IF obs # NoObs /\ obs.reset # NoReset /\ obs.reset <= t THEN NoObs ELSE obs

CurrentLimits(limits, t) ==
  [five |-> Current(limits.five, t), week |-> Current(limits.week, t)]

\* The quota of the last event that has one; events are listed in the order of
\* their times.
LatestObserved ==
  LET with == {k \in LineNo : rows[k] # NoRow
                               /\ (rows[k].usage.five # NoObs \/ rows[k].usage.week # NoObs)}
      last == CHOOSE k \in with : \A j \in with :
                rows[j].usage.at < rows[k].usage.at
                  \/ (rows[j].usage.at = rows[k].usage.at /\ k <= j)
  IN  IF with = {} THEN NoLimits
      ELSE [five |-> rows[last].usage.five, week |-> rows[last].usage.week]

\* ListLocalUsageRecords, the totals, and what the rows say of the quota.
List(r) ==
  /\ At(r, "list")
  /\ collect' = [collect EXCEPT
       ![r] = [NoCollect EXCEPT !.step = "quota", !.began = collect[r].began, !.built = now,
                                !.total = Cardinality({k \in LineNo : rows[k] # NoRow}),
                                !.limits = CurrentLimits(LatestObserved, now)]]
  /\ UNCHANGED <<setup, now, upstream, clientVars, log, ps, rows, reports, shown, replaced>>

\* Codex asks only for what its own log does not say, Claude always.
Asks(r) ==
  /\ setup.fetcher # "none"
  /\ upstream.client = "claude" \/ NoObs \in {collect[r].limits.five, collect[r].limits.week}

\* LatestAgentQuotaObservation; of two reports of one moment either.
LatestReports ==
  LET given == {m \in setup.machines : reports[m] # NoReport}
  IN  {reports[m] : m \in {l \in given : \A n \in given : reports[n].at <= reports[l].at}}

\* Mutated form: a report counts for ever.
Reported_NotStale(report, t) == CurrentLimits([five |-> report.five, week |-> report.week], t)

\* StoreQuotaFetcher.FetchRateLimits on the latest report.
Reported(report, t) ==
  IF t - report.at > ReportStale THEN NoLimits
  ELSE CurrentLimits([five |-> report.five, week |-> report.week], t)

FetchReport(r) ==
  LET limits == IF LatestReports = {} THEN {NoLimits}
                ELSE {Reported(report, now) : report \in LatestReports}
  IN  /\ \E l \in limits : Return(r, l, l # NoLimits)
      /\ UNCHANGED <<cache, breaker, status, goodPath, limited>>

Ask(r) ==
  /\ At(r, "quota") /\ Asks(r) /\ Goes(r, "fetch")
  /\ IF setup.fetcher = "store" THEN FetchReport(r) ELSE StartFetch(r)
  /\ UNCHANGED <<setup, now, upstream, log, ps, rows, reports, shown, replaced>>

\* The fetch goes on.
Fetching(r) ==
  /\ At(r, "fetch")
  /\ Respond(r) \/ Handle(r)
  /\ UNCHANGED <<setup, now, upstream, localVars>>

\* One window of the quota: what the log says goes first for Codex, what was
\* fetched for Claude; a window neither knows is estimated from the totals.
Item(own, fetched) ==
  LET known == IF upstream.client = "claude" THEN <<fetched, own>> ELSE <<own, fetched>>
      from  == IF upstream.client = "claude" THEN <<"fetched", "log">> ELSE <<"log", "fetched">>
  IN  IF known[1] # NoObs THEN [obs |-> known[1], from |-> from[1]]
      ELSE IF known[2] # NoObs THEN [obs |-> known[2], from |-> from[2]]
      ELSE NoItem

\* The collect returns its items.
Items(r, fetched) ==
  /\ shown' = [total |-> collect[r].total, began |-> collect[r].began, built |-> collect[r].built,
               five |-> Item(collect[r].limits.five, fetched.five),
               week |-> Item(collect[r].limits.week, fetched.week)]
  /\ collect' = [collect EXCEPT ![r] = NoCollect]
  /\ UNCHANGED <<setup, now, upstream, cache, breaker, status, goodPath, limited,
                 log, ps, rows, reports, replaced>>

Finish(r) ==
  \/ /\ At(r, "quota") /\ ~Asks(r)
     /\ Items(r, NoLimits) /\ UNCHANGED fetch
  \/ /\ At(r, "fetch") /\ fetch[r].step = "returned"
     /\ Items(r, CurrentLimits(fetch[r].limits, collect[r].built))
     /\ fetch' = [fetch EXCEPT ![r] = NoFetch]

Collect(r) ==
  \/ Stat(r) \/ Read(r) \/ Save(r) \/ Fails(r)
  \/ List(r) \/ Ask(r) \/ Fetching(r) \/ Finish(r)

Next ==
  \/ Time \/ AppendLine \/ ReplaceLog
  \/ \E k \in LineNo : PushRecord(k)
  \/ \E m \in setup.machines : Push(m)
  \/ \E r \in Run : Begin(r) \/ Collect(r)

Spec == Init /\ [][Next]_vars

---------------------------------------------------------------------------
(* Properties.                                                             *)

Steps == {"idle", "stat", "read", "save", "list", "quota", "fetch"}

Collects == [step : Steps, ps : ParseState \cup {NoState}, offset : Nat, reset : BOOLEAN,
             mtime : Nat, next : ParseState \cup {NoState}, read : [LineNo -> Row \cup {NoRow}],
             total : 0..MaxLines, began : 0..MaxLines, built : Moments, limits : Limits]

Reports == [five : Obs \cup {NoObs}, week : Obs \cup {NoObs}, at : Moments]

QuotaItems == [obs : Obs \cup {NoObs}, from : {"estimated", "log", "fetched"}]

\* The types of the state: clocks and offsets within their bounds, rows of the file's
\* format, quotas someone gave.
TypeOK ==
  /\ ClientTypeOK
  /\ setup \in Setups /\ log \in Log /\ Len(log.lines) <= MaxLines
  /\ ps \in ParseState \cup {NoState}
  /\ rows \in [LineNo -> Row \cup {NoRow}]
  /\ reports \in [setup.machines -> Reports \cup {NoReport}]
  /\ collect \in [Run -> Collects]
  /\ shown \in [total : 0..MaxLines, began : 0..MaxLines, built : Moments,
                 five : QuotaItems, week : QuotaItems]

\* While the stored parse state describes the file, every line before its offset has its
\* row and no row says anything the file does not, however the scans and transactions of
\* overlapping collects interleave (scanBuiltinIncremental, SaveLocalUsageBatch). Two cases
\* are excepted (replaced = "during"): a file replaced while two collects scan it, when the
\* one that began first can save the state of the new file without deleting the rows of the
\* old one; and a batch that deletes the rows of a file while another scan counts on them.
RowsOfFile ==
  replaced # "during" /\ ps # NoState /\ ~NeedsReset(ps, log, Version) =>
    \A k \in LineNo :
      /\ k \in UsageLines(log, 0) /\ TextEnd(k) <= ps.offset => rows[k] # NoRow
      /\ rows[k] # NoRow => k \in UsageLines(log, 0) /\ rows[k] = RowOf(log, 0, k, FALSE, Version)

\* The total of a file that only grows counts every line once: all that were there when
\* the collect began, and none that is not there.
TotalIsTruth ==
  setup.mode = "builtin" /\ replaced = "no" =>
    shown.began <= shown.total /\ shown.total <= Used(log)

Windows == {shown.five, shown.week}

\* No window is shown whose reset had passed when the items were built, also when the
\* limits come from a cache or a report, and no report older than its bound counts.
NoExpiredQuota ==
  \A item \in Windows :
    item.from # "estimated" =>
      /\ item.obs.reset = NoReset \/ item.obs.reset > shown.built
      /\ setup.fetcher = "store" /\ item.from = "fetched" =>
           item.obs.seen >= shown.built - ReportStale

\* A quota served again is one the upstream gave less than StaleAfter ago, in whatever
\* order overlapping fetches store their answers (cachedResult, storeResult).
CachedIsRecent ==
  [][\A r \in Run :
       setup.fetcher = "online" /\ fetch[r].step = "none" /\ fetch'[r].ok =>
         \A obs \in {fetch'[r].limits.five, fetch'[r].limits.week} :
           obs # NoObs => obs.seen + StaleAfter > now]_fetch

\* After an upstream has answered 429 no fetch begins to send requests for RateLimitTTL,
\* whichever break another fetch opens meanwhile (openBreaker).
RateLimitRespected ==
  [][\A r \in Run :
       fetch[r].step = "none" /\ fetch'[r].step = "sent" /\ limited # Never =>
         now >= limited + RateLimitTTL]_fetch
=============================================================================
