# InfoHub, modelled

InfoHub collects usage and quota figures of AI services from HTTP sources, from
the JSONL logs of Claude Code and Codex on the machine it runs on, and, through
`infohub-agent`, from the logs of other machines, and shows them on dashboards
and e-ink panels. This directory holds TLA+ models of the parts that keep state
across failures, their model-checking configurations, and proofs.

## Inventory

| Component | State | Operations | What is hard |
|---|---|---|---|
| Incremental scanner (`localscan/scanner.go`) | none; takes parse states, returns new ones | `ScanIncremental`, `ScanFull` | files that grow, shrink, vanish or are replaced while they are scanned; offsets inside a line; model inheritance across scans |
| Agent (`agent/runner.go`, `state.go`, `client.go`) | state file: offset, mtime and parser version per source and file | `RunOnce`, chunked pushes, save | partial pushes, timeouts after which the request is still served, crashes, one state file for all sources, upgrades |
| Ingest (`api/ingest.go`, `store/sqlite.go`) | `local_usage_events`, `agent_quota_observations` | `SaveIngestedUsage`, `SaveAgentQuotaObservation`, `ReplaceAgentQuotaGroups` | replies that contradict what was committed, repeated and late requests |
| Snapshot store (`store/sqlite.go`, `memory.go`) | `source_state`, `source_items` and a copy in memory | `Save`, `SaveFailure`, load at start | two copies written one after the other without a common lock |
| Scheduler (`scheduler/scheduler.go`) | cron entries | cron jobs, `RunAllNow`, `TriggerNow`, `Stop` | runs of one collector overlap |
| Local usage collector (`collector/local_usage.go`) | `local_parse_state`, `local_usage_events` of machine '' | `Collect`: builtin, remote, ccusage | overlapping incremental scans; window aggregation |
| Online quota clients | result cache, circuit breaker, remembered path | `FetchRateLimits` | concurrent fetches that end out of order |
| Antigravity (`agent/antigravity.go`, `collector/antigravity.go`, `store_quota.go`) | quota observations per machine and group | push, replace, pick the latest | staleness, several machines, stored then rejected |
| CPA collector (`collector/cpa.go`) | quota cache; a queue in CPA that is read destructively | `Collect`: quota, drain | records popped and not saved; filters before the account is known |
| HTTP JSON sessions (`collector/httpjson.go`) | shared login token | fetch, refresh on 401 | concurrent forced refreshes |
| Sub2API collector (`collector/sub2api.go`, `sub2api_week.go`) | none beyond a collect | a series of requests: accounts, usage, users, quota, weeks | midnight and counters that move on between requests; overlapping targets; a request that fails halfway |
| Dashboards (`api/dashboard*.go`) | none | items to rows, totals, focus, alerts, age | partial or stale items must not look complete or new |
| Claude relay, Feishu, API reads, configuration, print mode, panels | none beyond a request | conversions | presentation |

The agent calls the scanner, pushes to the ingest endpoint and saves its state
file; ingest stores the rows and runs the collector of that source once through
the scheduler; collectors read rows and upstream services and hand items to the
snapshot store, which the API and the dashboards read.

## Modules

| Module | Role |
|---|---|
| `LocalScan` | Operators: one incremental read of one file (reset decision, lines seen, records, next offset, inherited model). |
| `AgentSync` | State machine: log writers, `RunOnce`, requests, the ingest store, faults, upgrades. The properties and the inductive invariant `IInv`. |
| `UsageLedger` | Abstract specification: what agent and store promise together. `AgentSync` implements it (`KeepsLedger`). |
| `AgentRecovery` | `AgentSync` with a moment after which nothing fails any more; the liveness property `CatchesUp`. |
| `AgentSync_proofs` | The theorems about `AgentSync`. |
| `SnapshotStore` | State machine: the scheduler's start-up runs, cron jobs and triggers, `runCollector`, `Save` and `SaveFailure` on the two copies, the end and start of the process. |
| `LatestSnapshot` | Abstract specification: one snapshot per source, the latest. `SnapshotStore` implements it while the runs of a collector do not overlap (`KeepsLatest`). |
| `SnapshotMending` | `SnapshotStore` with history variables, for runs that do overlap. |
| `SnapshotStore_proofs` | The theorems about `SnapshotStore` and `SnapshotMending`. |
| `UsagePeriod` | Operators: weekday and Monday of a date (`UsageDates`). |
| `Dashboard` | Operators: what the panels make of the items of a snapshot; one operator per function of `dashboard*.go`. |
| `Sub2API` | State machine: one Sub2API collect as its requests, beside an upstream that counts on and a date that changes; the panel is `Dashboard` applied to the snapshot. |
| `Sub2API_proofs` | The theorems about `Sub2API`. |
| `OnlineQuota` | The quota clients of Codex and Claude: cache, breaker, path order, answers. Actions of one fetch, used by `LocalUsage`. |
| `LocalUsage` | State machine: overlapping collects of `claude_local` or `codex_local`, built of `LocalScan` and `OnlineQuota`. |
| `LocalUsage_proofs` | The theorems about `LocalUsage` and `OnlineQuota`. |
| `TrioClock` | The clock that `CPAUsage` and `QuotaGroups` share. |
| `CPAUsage` | The CPA collector: queue, quota cache, drain, failures, restarts. |
| `QuotaGroups` | Antigravity: the agent's reads, the push, the two transactions of ingest, the collector. |
| `TrioPanel` | Composition of `CPAUsage`, `QuotaGroups` and `Dashboard`: the state machine and its properties. |
| `TrioPanel_proofs` | The theorems about `TrioPanel`. |
| `NatSets` | Lemmas the proofs share: finite sets of numbers and sums over finite sets. |
| `Dashboard_proofs` | Lemmas about the operators of `Dashboard`. |
| `LoginSession` | State machine: the login token that sessions of one service share. |
| `LoginSession_proofs` | The theorems about `LoginSession`. |
| `MC*` | Instances for TLC, one for each state machine that is run. |

### How AgentSync corresponds to the code

*Files.* A line is three units long: two of JSON text and the newline. `cut`
says how much of the last line is written, so an offset can fall at a line's
start, in its text, or between text and newline; that is all the offset
arithmetic of `parseJSONLRecords` tells apart. A line carries token counts (one
model value) or none, and perhaps a model name. A row's key `(machine, source,
file_path, byte_offset)` is a file and a line number: the machine is fixed, a
file belongs to one source, and every read starts at the beginning of a line or
just before a newline, where the offsets of its records are line starts.
A row records the parser version that read it, because two versions read
different values from the same line. One `parser` counter stands for the two
per-source constants of `ParserVersion`.

*A run.* `StartRun` is `loadState`; `StatFile` is the walk's decision on one
directory entry; `ReadFile` is the read that follows, and sees the file as it is
then, with the mtime of the stat; `ScanDone` decides whether to push;
`PushAccepted` and its failing variants are one chunk; `EndSource` is the rest
of `RunOnce`'s loop; `SaveState` is `state.save`. The files are visited in
`WalkOrder`, and chunks take records in that order. The variables hold what the
functions hold: `state` the `stateFile` in memory, `nextStates`, `resetFiles`
and `records` the results of the scan, `first` whether the next chunk carries
the resets, `dirty` whether the state will be saved.

*Requests.* The answer of the server and what it did are independent:
`PushRefused` (error, nothing stored), `PushStoredButFailed` (stored, error
returned), `PushTimesOut` (the client gives up, the handler may still run:
`LateStored`, `LateDropped`). `SaveIngestedUsage` is one transaction and one
step.

*Faults.* A file that cannot be read, a scan that fails, a save that fails, a
crash between any two steps, a lost or corrupt state file.

### What the model assumes about its surroundings

The code relies on five conditions that it does not establish. Each is a guard
of the model that a member of `Unruly` lifts:

| Member | Condition lifted | What TLC finds then |
|---|---|---|
| `torn` | a scan never meets a half-written last line | `NothingLost` fails (run `agent_torn_line`) |
| `lose` | the state file is not lost while a file is due for a reset | `NothingExtra` fails (run `agent_lost_state`) |
| `regrow` | a truncated or replaced file does not grow past the old offset, with a new mtime, before the agent has seen it | `NothingLost` fails |
| `unsaved` | a file is not truncated or replaced while it is read, or rows of it are stored or on their way, and no parse state of it is saved | `NothingExtra` fails: a first push is stored, its state is not saved (a later chunk, the save or the agent fails), the file is truncated, and the next scan, which has no state, sends no reset (`scanner.go:173-179`) |
| `late` | a timed out request is over before the agent's next run | `NothingLost` fails: its deletes and upserts can undo a newer push |

With `Unruly = {}` everything else the model contains may happen in any order.
That every one of the five is needed TLC shows: with that member alone the named
property fails on the instance of `agent_lost_state`. What the repository's README
promises, that nothing is counted twice or lost, the code keeps under these
conditions only.
`AgentConstants` and `ScanMarkers` are the only assumptions on the constants.

### How SnapshotStore corresponds to the code

A *run* is a goroutine inside `runCollector`: `InitialRun` (`RunAllNow`) or
`Trigger` (a cron job, `POST /api/v1/collect`, the refresh after an ingest) begins
it, `Collect` or `CollectFails` is what the collector returns. `Save` is two
steps, because that is what another goroutine can see: the transaction
(`SaveItems`) and the write of the `MemoryStore` (`CopyItems`); `SaveFailure`
likewise. Each can fail at the first, and then the run records nothing. The
variables `found` and `failed` are the locals of `runCollector`; `db` is
`source_state` with `source_items`, `memory` the copy that readers are answered
from. `Exit` ends the process between any two steps, `Start` loads the rows.

The items of one collect are represented by the second they were collected in,
which is all that tells newer from older. The items of most collectors are stamped
with it (`withFetchedAt`); those are `Dated`, and `Save` takes `LastFetch` from the
items. The items of CPA and Antigravity carry no `FetchedAt` (`cpa.go:319-328`,
`antigravity.go:135-143`), and an empty collect has none: then `Save` takes the
clock, once for each copy (`sqlite.go:54-57`, `memory.go:30-33`), and the served
snapshot may name a later second than the persisted one: `Same` allows exactly
this. An upstream that supplies `fetched_at` itself can make older items look
newer; that is not modelled.

`Overlap` says whether two runs of one collector can be under way at once. The
code does not prevent it; most deployments never see it, as a run is short
against the period of its job. With `Overlap = FALSE` the store keeps its
promise, with `TRUE` it keeps a weaker one.

### How Sub2API and Dashboard correspond to the code

`Begin` is the start of `Collect`, where the dates are taken; each of
`FetchAccounts`, `FetchTodayStats`, `ResolveUser`, `FetchUsage`, `FetchQuota` and
`FetchWeek` is one request and what is done with its answer; `Use` and
`Midnight` happen between them. `Fails` ends a collect in a daily request,
`WeekFails` gives an item without a value. `Finish` returns the items, and the
scheduler's save of them is part of it. A text is a set of words, because the
targets only compare for equality and containment. `targets` is the collector's
field: what `NewSub2APICollector` makes of the configuration, kept since. An
account is `Selected` by the first target that matches it, which is what the set
`seen` of `selectSub2APIAccounts` amounts to. `Dashboard` is pure: its
operators are those functions of `dashboard.go`, `dashboard_options.go` and
`dashboard_trio.go` that decide a figure, a row, the focus, an alert, the status
or the age; number formats, cards and layout are left out.

### How LocalUsage and OnlineQuota correspond to the code

A collect is `collectEvents` followed by `buildItems`. `Begin` loads the parse
states by one query, `Stat` and `Read` are the scan, `Save` is the one
transaction of `SaveLocalUsageBatch`, `List` the query the totals are built
from. Nothing is locked between them, so that two collects (a cron job and the
run at the start, or a refresh) interleave at every step. `StartFetch` is
`FetchRateLimits` up to its request; `Respond` is the upstream's answer and
`Handle` what the client does with it, under its small locks; the breaker, the
cache and the remembered path are shared by all fetches. A quota observation
carries the moment the upstream made it, which the code does not have but the
properties need. In remote mode the rows are those that agents pushed
(`PushRecord`) and the quota comes from their reports (`StoreQuotaFetcher`).
`NoReset` is a window without a reset time. The history variable `replaced` says
whether the file was replaced between scans or under one; a save that deletes
the rows of the file under a collect that took them for stored (`Trusts`) counts
as the second.

### How CPAUsage, QuotaGroups and TrioPanel correspond to the code

`Refresh`, `Select`, `Refreshed`, `RefreshFails` and `Throttled` are `quota()`
under `quotaM`; `Pop`, `Save` and their failing forms are `drainUsage`; `List` is
`usageItems` and the save of the result. A popped record that a failure, a
restart or the queue's retention takes is in the history variable `lost`. What
`convertUsage` discards after the pop is not in `lost` but in the properties: an
entry has a `kind`, `unread` for one that does not decode or has no timestamp,
`other` for one of another provider, and a credential.
`FetchGroups` is one call of the agent's client under its lock, with both hosts
and the Switch fallback. The daily host answers with the quota as it is; the prod
host may also say 100% of every window (`static`, `antigravity.go:30-31`). An answer
of Switch without `last_updated` (`undated`) passes the age check whatever its age.
`FetchUsageRecords` is two steps, because it takes the date after `agy-switch stats`
has answered: `ReadStats` is the command, `Push` begins with the date (`Records`) and
is the rest of `runAntigravity`. A cycle that runs over midnight therefore files the
`today` of the day that ended under its own date and under the new one;
the history variable `misfiled` has the most of an earlier day that a machine
reported of a day. Switch is taken to count days as the agent does, in
Asia/Shanghai. `SaveTotals` and
`ReplaceGroups` are the two transactions of the ingest handler, between which
the request can be lost. `CollectGroups` is `AntigravityCollector.Collect`.
`TrioPanel` puts both beside each other under one clock and shows them with the
operators of `Dashboard` (`buildTrioPlatforms`; its third block is the one of
`Sub2API`).

### How LoginSession corresponds to the code

A session is one `newSession` with its requests. `GetCached`, `BeginLogin`,
`Issue`, `StoreToken` and `LoginFails` are `getOrRefresh` with the mutex held
across the login; `Refused` is `canRefreshAuth` after a 401 or 403, which asks
again with `force`, and `Answered` the end of a request. A token is the number
of the login that issued it.

## Properties

* `NothingLost`: every usage line below the saved offset of a file the agent
  will continue is on the server, as the current parser reads it.
* `NothingExtra`: every row of such a file stands for a line of the file as it
  is now; nothing is counted twice.
* `KeepsLedger`: `AgentSync` implements `UsageLedger`; while the agent answers
  for a file its rows are only added to and its mark never moves back.
* `IInv`: the inductive invariant (below).
* `CatchesUp`: once writers and faults stop, the server comes to hold exactly
  the usage lines of the existing files, and stays so.
* `ModelsInherited`: a row has the model that a full scan gives its line.
* `Persisted`: outside a save, the served snapshot is the persisted one: the same
  status and items, and the same time. The exception it states is a success none
  of whose items is dated, which is every collect of CPA and Antigravity and every
  empty one: each copy takes the clock for itself, so the served one may name a
  later second and a restart shows the earlier one.
* `KeepsLatest`: `SnapshotStore` implements `LatestSnapshot`; a failing source
  keeps its items, and neither a save nor a restart brings back older ones.
* `StoreInv`: the inductive invariant for both (`WatchInv`, in the proofs, is that for
  `Mended`).
* `Mended`: the copies of a source differ, beyond that second, only after two of its runs stood
  between their writes together, and no longer than until a success that no
  other run stood beside, or a restart.

Sub2API and its panel:

* `WeekIsTruth`: a week's total is shown whole or not at all; it counts every
  wanted user and account, within what the upstream had during the collect, and
  none twice when the targets are `Apart`. They need not be: nothing in the code
  keeps two user targets from naming one user, which is then counted twice
  (`sub2api.go:113`).
* `TodayIsTruth`: today's total counts no user or account twice, when the targets are
  `Apart`, and is of the day the panel names.
* `WeekCoversToday`: the week is never less than the day shown beside it, also when a
  user is counted twice (the configuration `Twice`).
* `UserFigures`: a user target's figures are that user's, whatever the search
  answers, and a balance is shown only for a user without a quota. Where the quota
  endpoint is not configured the balance is shown whatever the quota.
* `EmailsShowOwnQuota`: no email shows the quota of another account.
* `WorstFirst`: focus and first alert are the worst.
* `FailureKeepsAge`: failures do not make figures look newer or current.
* `WeeklyNeverBlocks`: a collect whose daily part is complete ends with its items
  served, whatever the weekly requests do (under fairness).

Local usage:

* `RowsOfFile`: while the stored parse state describes the file, its rows are
  exactly the lines before the offset, for scans that overlap. Two things are
  excepted (`replaced = "during"`). A file replaced *while* a collect scans it: the
  collect that began before the replacement may save the new file's state
  without deleting the old rows, as it has no state to reset. And a save that
  resets the file under a collect that read on from the stored state: the rows
  before its offset are gone when it saves that offset. Either stays until the
  file is truncated or replaced again.
* `TotalIsTruth`: the total of a file that only grows misses no line that was
  there when the collect began and counts none twice.
* `NoExpiredQuota`: no window past its reset and no report past its bound is shown.
* `CachedIsRecent`: a cached answer is at most `StaleAfter` old, in whatever order
  overlapping fetches store theirs.
* `RateLimitRespected`: after a 429 no fetch sends a request for `RateLimitTTL`.

The trio panel:

* `Accounted`: no record that the collector counts vanishes silently between
  CPA's queue and the database. The ones it does not count, and discards without a
  trace, are those that cannot be read, those of another provider and, with a
  configured account, those of another credential.
* `UsageIsTruth`: no request is counted twice and, when nothing is lost or on its
  way, none that can be read and is of the provider is missing.
* `PinnedOnly`: with a configured account, records of another are stored only by
  a collect that asked for the quota before any refresh had succeeded since the
  start. Selecting the credential is not enough: while its quota cannot be fetched
  it is not remembered, and every collect stores the records of all
  (`cpa.go:128-142`).
* `KeepsLastGood`: no failure makes a quota of Claude that was shown unknown again,
  but for a collect that began before the last refresh.
* `SpentIsNotUnlimited`: a spent window is not shown as one that does not exist.
* `ShownAsRead`: what a cell says is what the upstream said not long before. An
  answer of Switch without a date may be of any age, and a static one of the prod
  host says 100%; everything else is bounded and true.
* `TokensCountedOnce`: repeated or half-stored pushes count no token twice. One
  case is excepted: a cycle over midnight makes the total of the day that ended
  count for the new day too.
* `KeepsGroups`: no push takes away the groups of a machine.

Login sessions:

* `NewestToken`: the cache never goes back to an older token, and a refused
  request is repeated with a newer one.
* `LoginsAreCaused`: sessions share their login; only refusals and failures add
  logins.
* `TokenWaitEnds`: waiting for the mutex ends (under fairness).

Each module also has one type invariant, `TypeOK`.

## Runs

| Run | Instance | Result |
|---|---|---|
| `agent_sync` | one file, at most 2 lines, chunks of 1 record, mtimes 0..1, parsers 1..2 | `TypeOK`, `IInv`, `NothingLost`, `NothingExtra`, `KeepsLedger` hold (172 402 states) |
| `agent_recovery` | files of 1 line, chunks of 1 record: two files of one source, or one file in each of two sources | `KeepsLedger`, `CatchesUp` hold (338 446 states) |
| `agent_torn_line` | as `agent_sync`, one parser, `torn` | `NothingLost` violated |
| `agent_codex_model` | a Codex file, model names | `ModelsInherited` violated |
| `agent_lost_state` | one file, `lose` | `NothingExtra` violated |
| `snapshot_store` | two collectors, one of them dated, two runs, seconds 0..2, no overlap | `TypeOK`, `Persisted`, `StoreInv`, `KeepsLatest` hold (279 952 states) |
| `snapshot_mending` | one collector without dated items, three runs that may overlap | `Mended` holds (696 982 states) |
| `snapshot_split` | one collector, two runs that may overlap | `Persisted` violated |
| `sub2api_panel` | six configurations, 2 days over a Sunday midnight, 2 units of usage, 2 collects | the nine properties hold (88 668 states) |
| `local_usage` | five configurations, two collects, 2 lines, moments 0..3 | the six properties hold (2 660 771 states) |
| `trio_panel` | eleven configurations, two collects, up to 2 requests, two machines, moments 0..3 | the nine properties hold (1 005 630 states) |
| `login_sessions` | three sessions, 4 logins, 3 refusals | the four properties hold (23 845 states) |

The bounds: two lines and chunks of one record make a push of two chunks, a file
that is partly read, and an offset inside the file; two mtimes let the clock go
back; two parser versions let a state be out of date; two sources give a state
file that one source's success saves after another's failure, and two files of one
source (`Layouts`) a push of two chunks that is cut, resets included, in the run
that checks what happens after the last fault. A third line, file
or version repeats these cases. `MaxLines`, `MaxMTime` and `MaxParser` only
bound the writers and upgrades; `late` is bounded because a run sends finitely
many requests and the next waits for them. For the store, three seconds (`MaxTime`)
give an older, a newer and a failed collect; two collectors show that one's save
leaves the other alone, two runs that they may be concurrent; three overlapping
runs let a third stand beside two that disturb each other.

The configurations of a run (`Setups`) are chosen in its initial states, so that
one run covers each of them and the small ones stay small. `sub2api_panel`: two
days are enough for a midnight at every request, and that midnight begins a
week; two units of usage tell a sum from a maximum and a value counted twice
from one counted once; 36 accounts at every pair of thresholds test rows, focus
and alerts. `local_usage`: two collects, two lines and three modification times
give a scan that overtakes another, a reset and a regrowth; four moments with
durations of 1, 2 and 3 let each break and the cache end while a fetch is out.
`trio_panel`: a batch of one record and two batches per drain make a full, a
short and a last batch of two requests; two moments a day and two days give a
midnight and an interval that ends; a report goes stale after one. The setups
keep CPA and Antigravity apart because they share nothing but the clock; `Again`
has entries of every kind, `Static` and `Undated` the answers without a live quota or
a date, `Refused` a cycle over midnight.
`login_sessions`: three sessions let one refused request race a login and a
waiting session. Collects of one collector that overlap are two in these runs,
three in `snapshot_mending`; the proofs bound neither them nor anything else here.

*Fairness.* `RecoverySpec` assumes weak fairness of the agent's own progress and
of the end of handlers left behind: `main` starts a run at every tick
(`cmd/infohub-agent/main.go:82-90`), every HTTP call has the client's timeout,
and a handler ends. Nothing is assumed about writers, faults or upgrades; that
they stop is the antecedent of `CatchesUp`, made explicit by the variable `calm`.
`Sub2API` assumes weak fairness of the collect's steps: every request ends, if
only by the context's deadline. `LoginSession` assumes weak fairness of logins
and requests (the HTTP client's timeout) and strong fairness of taking the
mutex: `sync.Mutex` hands itself to a waiter that has waited for a millisecond,
so a mutex that is free again and again is not missed for ever.

## Findings

* `agent_torn_line`: `parseJSONLRecords` counts a half-written last line into
  the offset, so the line is lost when it is completed
  (`internal/localscan/scanner.go:274-298`).
* `agent_codex_model`: an incremental read starts with no model, so a Codex
  usage row loses the model that an earlier line, read by an earlier scan, named
  (`scanner.go:271`).
* `agent_lost_state`: after the loss of the state file rows of truncated content
  are counted beside the new ones, although the README and a comment say that
  the upsert makes the re-scan idempotent (`internal/agent/state.go:36-39`).
  The same happens when the state was never saved (`unsaved` above).

* `snapshot_split`: two runs of one collector that overlap can leave the served
  snapshot different from the persisted one (`internal/store/sqlite.go:90-94`).

Met while modelling, with no run of their own: a collect that resets a file and
saves late deletes a row that another collect saved since and a third relies on,
so that one line is not counted until the file is reset again
(`local_usage.go`, `SaveLocalUsageBatch`); of two overlapping runs of one
collector the one that collected first can save last, and its older items are
served until the next collect (`scheduler.go:109`); user targets alone select
the quota of every account, although `docs/zh/infohub-services-usage.md:284` says
that only matching targets are collected (`sub2api.go:83`); a spent 5H window
read through AntiGravity Switch is shown as not applicable
(`agent/antigravity.go:272`); a cycle of the agent that runs over midnight files the
tokens of the day that ended under the new day as well (`agent/antigravity.go:187`),
until a total of the new day replaces them; with a configured account whose
quota cannot be fetched, records of all credentials are stored and counted
(`cpa.go:128-142`, `cpa.go:266`); `claude_online_quota.go:334` and `cpa.go:208` read the
same field of the same endpoint as what remains and as what was used.

## Proofs

`AgentSync_proofs` proves, with no assumption on the constants but
`AgentConstants` and `ScanMarkers`:

| Theorem | Statement | Holds for |
|---|---|---|
| `TypeCorrect` | `Spec => []TypeOK` | every instance, any `Unruly` |
| `InvariantHolds` | `Spec => []IInv` | every instance with `Unruly = {}` |
| `NoUsageLost` | `Spec => []NothingLost` | the same |
| `NoUsageExtra` | `Spec => []NothingExtra` | the same |
| `ImplementsLedger` | `Spec => KeepsLedger` | the same |

`NothingLost` and `NothingExtra` speak of the saved parse states and the rows
only. They are not inductive: whether a save keeps them depends on the states in
memory, those on the records still waiting to be sent, and all of them on what a
request that was given up may still do. `IInv` states these dependencies:

* `Books`: where the three generations of parse states (saved, in memory, new
  from the scan) can differ, and that only a file that was read in this source's
  turn has records, a reset or a new state.
* `WholeText`: no offset lies inside the text of a line. This is where the
  assumption against half-written lines enters.
* `StatHolds`: what the file may have done between the stat and the read. If the
  read turns out not to describe the file, the state it started from does not
  either, so the next scan resets.
* `ReadHolds`: below the new offset every usage line is waiting to be sent or is
  stored and not about to be deleted; every row that will survive the resets is
  one of the file.
* `RowsHold`: a file that the next scan would continue, from the saved state or
  from the one in memory, has exactly the right rows below the offset.
* `LateHolds`: a request left behind only deletes rows of files that are due for
  a reset and only writes what the files still say. `RunOnce` waits for nothing
  here; this is where the assumption about late requests enters.
* `OffsetsGrow`: of two states that both describe a file the newer one reaches
  further; needed for the ledger's mark.

The first six are `Agreement`, proved inductive action by action: the writers
(`WriterStep`, from what a write can do to a file, `WriterEffect`), the walk
(`StatFileStep`, `ReadFileStep`, `SkipFileStep`), the end of a source's turn
(`TurnEnds` and its uses), the push (`PushAcceptedStep`, `IngestKeepsRows`), late
requests, the end of a run (`SaveStateStep`, `StopKeeps`), upgrades and lost
state files. For the refinement a step is split by what it does to the files
(`ReadingGrows`), the rows (`RowsGrow`) and the saved offset (`MarkGrows`);
`RowsAreRight` gives the rest of the ledger's step.

### The snapshot store

`SnapshotStore_proofs` proves, for any collectors, any number of runs and any
bound on the clock:

* `SnapshotsTyped`: `TypeOK`, with or without overlap, step by step.
* `CopiesPersisted` and `ImplementsLatest` (`Overlap = FALSE`), from `StoreInv`.
  `Persisted` alone is not inductive: the invariant adds that a source has one
  run (`OneRunEach`), that the write a run has still to make to memory is the one
  the database has (`CopyPending`), and that what a run brings is not older than
  either copy (`InOrder`). `ImplementsLatest` takes one step at one source
  (`ShownStep`): only `Exit`, `CopyItems` and `CopyFailure` change what is shown.
* `CopiesMend` (any `Overlap`), from `WatchInv`: runs that stand between their
  writes together have all disturbed each other and their source is in `split`,
  so an undisturbed run is alone, and what it writes to memory is what the
  database has.

`StoreConstants` is the only assumption on the constants.

### The trio panel

`TrioPanel_proofs` proves every property of the run `trio_panel`, for any collects,
credentials, queue, batch size, limits, machines, groups, clock and quotas over
time, and whatever a setup allows to happen:

* `RecordsAccounted` and `RecordsPinned`, from `RecordInv`. `Accounted` alone is not
  inductive: a save replaces rows of its keys, so a row must be of the request
  its key numbers and of the provider (`Delivered`), and two requests have two numbers
  (`Numbered`); a record is dropped for its kind or for its credential, and for the
  latter the account a collect has must be the configured one (`Accounts`, which also says what the quota cache has and that a
  collect has records in its hands only to save them). Each of the four parts
  has its own step lemma; `PopAccounted` and `SaveAccounted` are the two steps
  where a record changes hands, and `Stays` is all the others.
* `UsageTrue` (`UsageIsTruth`), from `CountsInv`: the panel counts a set of records
  that are still stored, a record has one row (`OneRow`), and a collect that lost
  nothing counted every one made before it began. `CountOfRows` turns the sum
  over rows into the number of requests of those days.
* `LastGoodKept` (`KeepsLastGood`), from `CollectInv` and `LastGoodInv`: who refreshes
  holds the lock and began at `quota.at`; and a collect that goes on with nothing
  began before the last refresh, or within `QuotaInterval` of a refresh that failed
  with nothing to keep.
* `GroupsKept`, from `PushInv`: a push on its way has groups or totals.
* `CellsShownAsRead` and `SpentIsShown`, from `ReadInv` (agents, pushes and server
  have groups as upstream or Switch had them at the reading, or full ones from a
  static answer, each not long before unless it came without a date) and `ShownInv` (the quota items of the snapshot are exactly those of the
  groups it shows). `RowsSaved` and its lemmas say what a row of the panel is made
  of, whatever the order of the items.
* `TokensCounted` (`TokensCountedOnce`), from `TotalsInv` and `FiguresInv`. The first
  says of a machine that it has one row a day, that a row and a push on its way hold
  no more than was used on their day or misfiled for it (`FiledOf`), that what is
  misfiled is at most the use of an earlier day (`Moved`), and that an answer of Switch
  not yet dated is of its own day or earlier ones (`Asked`); the second says that
  the figures shown hold no more either. `TypesHold` follows from `TotalsInv` and `CollectInv`.

`Dashboard_proofs` has what the panel's operators make of a sequence: `Picked` keeps
exactly the elements at its positions, in order (`PickedOne`, `PickedNone` and what
they rest on), and the totals of a product are those of its items (`FiguresShown`,
`NoFigures`, `FigureIsSum`); no row is worse than the one in
focus (`FocusIsWorst`), and sorting the alerts puts the least first
(`OrderRanks`, `LeastAlertFirst`). The sums are folds, of which the prover knows nothing: `NatSets` shows
that the recursion of `SumFunctionOnSet` has a solution (`SumsExist`,
`SumIsOfSums`), and from it that a sum is the sum without an element and that
element (`SumWithout`), is a number (`SumIsNat`), and is at most the sum of an
injective image (`SumWithin`); the sizes of disjoint parts add up to the size of
their union (`PartsCounted`).

The assumptions used are `CPAConstants` (batches of at least one record, `Auth` a
sequence without `NoAuth`, a run is not named `"free"`, the deadline of a collect
ends before the next refresh is due), `GroupConstants` (the groups are distinct),
`WindowConstants`, `CellConstants` (no marker is a number), `ClockConstants` and
`SetupConstants` (finitely many machines; quotas are windows or none; the prod host
answers live or static, Switch with or without a date).

Two things came out of the proofs. `fetchQuota` takes an answer that has neither
window for a failure (`cpa.go:216`), and `LastGoodInv` needs that guard of
`Refreshed`. And `KeepsLastGood` was stated without its condition on `claude'.at`: it
held in a run whose failures all happened at one moment, and the proof of the
step where a collect lists failed. A collect is given nothing within the
interval of a refresh that failed; another that begins later refreshes and shows a
quota; then the first one lists. The condition says which collect may do that,
and the configuration `Late` of `trio_panel` reaches it.

### Login sessions

`LoginSession_proofs` proves `LoginsTyped`, `TokensNewest` and `LoginsCaused` for any
finite set of sessions. The invariant ties every token to the login that issued
it: one session is in a login, the one that holds the mutex, while it is there
the cache is empty, and the number of logins is accounted for by the first one,
the refusals and the logins that failed.

### The local usage collector and the quota clients

`LocalUsage_proofs` proves every property of the run `local_usage`, for any setups,
collects, file, clock, paths and answers:

* `RateLimitKept`: `BreakerInv` says that the breaker stays open for `RateLimitTTL`
  after the last 429 whoever opened it last, which needs that the other breaks
  are no shorter (`QuotaConstants`, the constants of `codex_online_quota.go` and
  `claude_online_quota.go`).
* `Typed`, from `TypeInv`: `TypeOK` and that a fetch goes on only in a collect that
  waits for it (`FetchesGoOn`).
* `CacheKeepsTime` (`CachedIsRecent`), from `RecentInv`: the cache has what upstream
  gave after `cache.at`, the start of the fetch that stored it, and an answer is
  seen after its fetch started. So a fetch that ends late stores limits under
  its own, older time, and the cache is never dated newer than what it has.
* `ShownIsAlive` (`NoExpiredQuota`), from `QuotaInv`: what a collect holds was alive when
  it built its items, and a report it took is not older than `ReportStale` then.
* `RowsFollowFile` (`RowsOfFile`), from `RowsInv`. `RowsOfFile` is about a stored state
  that describes the file; a collect under way saves a state and rows that depend on
  what it loaded, statted and read (`ScanOf`, one clause for each of its steps),
  and on the rows stored meanwhile by another (`Covers`, `RowsOnly`).
* `TotalKept` (`TotalIsTruth`), from `TotalInv`: of a file that only grows the stored
  state describes the file, and whatever a collect still has to do its rows will
  reach every line that was there when it began (`CountOf`).

The assumptions are `LocalConstants`, `QuotaConstants` and `ScanMarkers`. The proof of
`RowsSave` failed for the second exception of `RowsOfFile`, which the property
did not name at first. It is real, and beyond the run's bounds: with three lines
and five modification times TLC finds the 26 states that lose a line (Findings),
and `replaced` has counted it since.

### Sub2API and its panel

`Sub2API_proofs` proves every safety property of the run `sub2api_panel`, for any
setups, days, bound on usage and number of collects:

* `TypesHold` (`TypeOK`), `FiguresOfTheUser` (`UserFigures`) and `FailureShowsAge`
  (`FailureKeepsAge`), from `ServedInv`. The first half of it, `CollectInv`, says
  what a collect has fetched at each request (`Accounted`, `Resolved`, `AskedWeeks`)
  and what a setup comes to (`ConfigInv`: no account is selected twice,
  `SelectedOnce`). The second, `Serving`, says that a snapshot with items is `ServedBy`
  one collect: each item is an answer to one of its requests, every user and
  account has its own, every item of a day has one of the week `Paired` with it and
  with no other, and no scope has two weeks when the targets are `Apart`
  (`MadePaired`, from `EachConcat` and `EachFlat` over the way the items are put
  together).
* `WorstShownFirst` (`WorstFirst`) and `EmailsShowTheirs` (`EmailsShowOwnQuota`), from
  `ServedInv` too: `AccountFacts` and `RowsServed` say which account a row of the
  panel belongs to, `FocusIsWorst` and `LeastAlertFirst` (in `Dashboard_proofs`) what
  is picked of any rows.
* `WeekIsTrue` (`WeekIsTruth`), `TodayIsTrue` (`TodayIsTruth`) and `WeekCovers`
  (`WeekCoversToday`), from `FiguresInv`, which adds what the figures are worth. The
  requests of one collect see different moments, so each figure has bounds of its
  own: a week is at least what was counted when the collect began and at most
  what is counted now (`Between`), a day at most what is counted now (`AtMost`), and
  a week no less than a day's figure of the same scope, because it was asked for
  later (`Covers`). All three stay true while the upstream counts on
  (`AmountsStay`). `UseOfScopes` adds them up: where no scope has two items, the sum
  counts a set of units (`PartsCounted`), and where one may have two, one of them
  will do for the lower bound (`OnePerScope`); `Paired` gives `WeekCovers` without
  regard to scopes. `DaysOfWeek` ties the arithmetic of `WeekStart` to the days
  since the last Monday.

The assumptions are `BoundAssumption` (the days are an interval), `CellConstants` and
`SetupAssumption`, on what a setup is: sequences of records with the fields the code
reads, quota windows of the kinds it knows, and percentages (`remainingPercent`
keeps what it shows between 0 and 100), and that the ids of accounts differ, as
they are keys of the upstream. That the user targets name different users, and no
id of an account, is no assumption: it is the hypothesis `Apart` of the two upper
bounds that need it, and `WeekCovers` and the lower bound of `WeekIsTrue` do without.
(A user and an account of one id the code tells apart by the `scope` of
`weekTargets`, `sub2api.go:108`, and the model does not.)

To be proved about, the model came to say some things in another form: `Picked`
instead of `SelectSeq`, the order of alerts by rank instead of by sorting, selection
by the first matching target, and targets that are normalised once, in the
initial state, as the constructor does it.

### Only model-checked

The liveness properties `CatchesUp`, `WeeklyNeverBlocks` and `TokenWaitEnds` (liveness
under fairness is out of the prover's reach), and the violations, which are about
one behaviour each.

## Not modelled, and the plan

The modules planned at first are all there: the server's own scan and the quota
clients (`LocalUsage`, `OnlineQuota`), Antigravity (`QuotaGroups`), CPA
(`CPAUsage`), the login token (`LoginSession`), and the calendar and panel
operators. Next, in order of importance:

1. The window aggregation of the local usage collector as a pure algorithm
   against a reference definition.
2. The union of reports: what the collector of a remote source shows when
   several machines report different windows.
3. The three forms of the request for today's usage (`sub2api.go:585`), of which the
   model takes one to be understood.

Left out: the rolling windows and price table of `local_usage.go` (arithmetic on
one list of events) and its ccusage mode (one external command); the Claude
relay and Feishu collectors (one request, one conversion, no state); API reads,
middleware and health (no state of their own); configuration (read once at the
start); print mode, text formats and layout; the ESPHome panels and deployment
files (not part of the Go program). The contents of JSON payloads are abstract
everywhere: a payload is what the code takes from it.
