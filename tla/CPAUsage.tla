------------------------------ MODULE CPAUsage ------------------------------
(***************************************************************************)
(* infohub: the collector of a CLIProxyAPI (CPA), "Claude Pro" on the trio *)
(* panel.  CPA keeps a record of every request in a queue that a read      *)
(* empties; a collect drains it batch by batch into the store and shows    *)
(* the totals of the stored records.  The quota of one of its credentials  *)
(* is asked for at most once per interval, under a lock, and kept when a   *)
(* refresh fails.                                                          *)
(***************************************************************************)
EXTENDS TrioClock, Dashboard, FiniteSets

CONSTANTS
  Run,           \* the collects that can overlap
  Auth,          \* auth_index of CPA's credentials, in the order of auth-files
  NoAuth,        \* no credential known
  Retries,       \* the copies in which CPA may deliver a record
  BatchSize,     \* cpaUsageBatchSize
  MaxBatches,    \* cpaUsageMaxBatches
  QuotaInterval, \* how often the quota is asked for at most
  Timeout        \* how long a collect lasts at most

ASSUME CPAConstants ==
  /\ BatchSize \in Nat \ {0} /\ MaxBatches \in Nat \ {0}
  /\ Timeout \in Nat /\ QuotaInterval \in Nat /\ Timeout < QuotaInterval
  /\ Auth \in Seq(Range(Auth)) /\ NoAuth \notin Range(Auth)
  /\ Retries \subseteq Nat /\ "free" \notin Run

VARIABLES
  cpa,    \* what is configured, and what CPA and the database may do: see MCTrioPanel
  files,  \* the active credentials of auth-files
  made,   \* history: the requests made
  queue,  \* CPA's usage queue
  rows,   \* the records in local_usage_events
  quota,  \* quotaAt, quotaErr, quotaItems and quotaAccount
  lock,   \* quotaM: who holds it
  drain,  \* the collects in progress
  claude, \* the snapshot of the collector
  lost,   \* history: requests whose record is in no one's hands any more
  known   \* history: whether a refresh of the quota ever succeeded since the start

cpaVars == <<cpa, files, made, queue, rows, quota, lock, drain, claude, lost, known>>

NoDrain == [step |-> "idle", at |-> 0, account |-> NoAuth, quota |-> <<>>, quotaErr |-> FALSE,
            drainErr |-> FALSE, left |-> 0, batch |-> {}, blind |-> FALSE, made |-> {}]

NoCache == [at |-> Never, err |-> FALSE, items |-> <<>>, account |-> NoAuth]

CPAInit ==
  /\ files = {Auth[n] : n \in DOMAIN Auth}
  /\ made = {} /\ queue = <<>> /\ rows = {} /\ lost = {} /\ known = FALSE
  /\ quota = NoCache /\ lock = "free"
  /\ drain = [r \in Run |-> NoDrain]
  /\ claude = [status |-> "none", items |-> <<>>, at |-> 0, whole |-> FALSE, made |-> {}]

Pinned == cpa.account # NoAuth

---------------------------------------------------------------------------
(* CPA.                                                                    *)

RecordsOf(entries) == {e.record : e \in entries}

\* A client's request through one of the credentials. Its entry may be of another provider
\* than the configured one, or one that does not decode or has no timestamp.
Request(auth, kind) ==
  /\ Cardinality(made) < cpa.requests
  /\ LET record == [n |-> Cardinality(made) + 1, auth |-> auth, kind |-> kind, at |-> now]
     IN  /\ made' = made \cup {record}
         /\ queue' = Append(queue, [record |-> record, copy |-> 1])
  /\ UNCHANGED <<cpa, files, rows, quota, lock, drain, claude, lost, known>>

\* A record already read is delivered again.
Redeliver ==
  /\ cpa.redelivers
  /\ \E record \in made \ RecordsOf(Range(queue)), copy \in Retries :
       queue' = Append(queue, [record |-> record, copy |-> copy])
  /\ UNCHANGED <<cpa, files, made, rows, quota, lock, drain, claude, lost, known>>

\* Records read from the queue and about to be saved.
Held == UNION {RecordsOf(drain[r].batch) : r \in {d \in Run : drain[d].step = "save"}}

\* Records that were in someone's hands and will not be saved by him.
Loses(records) == lost' = lost \cup records

\* The retention of the queue ends.
Expire ==
  /\ cpa.expires /\ queue # <<>>
  /\ Loses({queue[1].record}) /\ queue' = Tail(queue)
  /\ UNCHANGED <<cpa, files, made, rows, quota, lock, drain, claude, known>>

\* A credential is disabled, or enabled again.
Switch(auth) ==
  /\ files' = IF auth \in files THEN files \ {auth} ELSE files \cup {auth}
  /\ UNCHANGED <<cpa, made, queue, rows, quota, lock, drain, claude, lost, known>>

---------------------------------------------------------------------------
(* Collect.                                                                *)

At(r, step) == drain[r].step = step

Start(r) ==
  /\ At(r, "idle")
  /\ drain' = [drain EXCEPT ![r] = [NoDrain EXCEPT !.step = "quota", !.at = now,
                                                   !.left = MaxBatches, !.made = made]]
  /\ UNCHANGED <<cpa, files, made, queue, rows, quota, lock, claude, lost, known>>

\* quota() returns.
Quota(r, account, items, err, blind) ==
  drain' = [drain EXCEPT ![r].step = "pop", ![r].account = account, ![r].quota = items,
                         ![r].quotaErr = err, ![r].blind = blind]

\* Within the interval the outcome of the last refresh is returned, good or bad.
Throttled(r) ==
  /\ At(r, "quota") /\ lock = "free"
  /\ quota.at # Never /\ drain[r].at - quota.at < QuotaInterval
  /\ Quota(r, quota.account, quota.items, quota.err, ~known)
  /\ UNCHANGED <<cpa, files, made, queue, rows, quota, lock, claude, lost, known>>

Refresh(r) ==
  /\ At(r, "quota") /\ lock = "free"
  /\ quota.at = Never \/ drain[r].at - quota.at >= QuotaInterval
  /\ lock' = r /\ quota' = [quota EXCEPT !.at = drain[r].at]
  /\ drain' = [drain EXCEPT ![r].step = "select"]
  /\ UNCHANGED <<cpa, files, made, queue, rows, claude, lost, known>>

\* Mutated form: a failed refresh returns no account.
Kept_NoAccount == [account |-> NoAuth, items |-> quota.items]

\* Mutated form: a failed refresh drops the items.
Kept_Nothing == [account |-> quota.account, items |-> <<>>]

\* What a failed refresh returns: the last good account and items.
Kept == [account |-> quota.account, items |-> quota.items]

\* selectAccount fails, or finds no credential, or fetchQuota fails.
RefreshFails(r) ==
  /\ drain[r].step \in {"select", "fetch"}
  /\ quota' = [quota EXCEPT !.err = TRUE, !.items = Kept.items]
  /\ lock' = "free" /\ UNCHANGED known
  /\ Quota(r, Kept.account, Kept.items, TRUE, ~known)
  /\ UNCHANGED <<cpa, files, made, queue, rows, claude, lost>>

\* The credentials selectAccount chooses from: active, and of the configured account.
Candidates == {n \in DOMAIN Auth : Auth[n] \in files /\ (Pinned => Auth[n] = cpa.account)}

\* The first of them.
Select(r) ==
  /\ At(r, "select")
  /\ \E n \in Candidates :
       /\ \A m \in 1..(n - 1) : m \notin Candidates
       /\ drain' = [drain EXCEPT ![r].step = "fetch", ![r].account = Auth[n]]
  /\ UNCHANGED <<cpa, files, made, queue, rows, quota, lock, claude, lost, known>>

\* fetchQuota: an item for each window of the answer; one without any is a failure.
WindowItems(account, windows) ==
  LET all == <<"5H", "Week">>
  IN  Picked([n \in 1..2 |-> [category |-> "quota", key |-> account, name |-> "Claude Pro",
                               email |-> account, window |-> all[n], left |-> 50]],
             {n \in 1..2 : all[n] \in windows})

Refreshed(r) ==
  /\ At(r, "fetch")
  /\ \E windows \in cpa.windows :
       LET items == WindowItems(drain[r].account, windows)
       IN  /\ items # <<>>
           /\ quota' = [quota EXCEPT !.err = FALSE, !.items = items, !.account = drain[r].account]
           /\ known' = TRUE /\ Quota(r, drain[r].account, items, FALSE, FALSE)
  /\ lock' = "free"
  /\ UNCHANGED <<cpa, files, made, queue, rows, claude, lost>>

---------------------------------------------------------------------------
(* drainUsage.                                                             *)

\* Mutated form: the records of every provider are kept.
Converts_AnyProvider(entry, account) ==
  /\ entry.record.kind # "unread"
  /\ Pinned /\ account # NoAuth => entry.record.auth = account

\* convertUsage: only what can be read and is of the provider; with a pinned account, once
\* its credential is known, only its records. The rest is gone from the queue, untold.
Converts(entry, account) ==
  /\ entry.record.kind = "own"
  /\ Pinned /\ account # NoAuth => entry.record.auth = account

\* Mutated form: the queue is read without a limit.
BatchLen_All(seq) == Len(seq)

\* usage-queue?count=
BatchLen(seq) == IF Len(seq) < BatchSize THEN Len(seq) ELSE BatchSize
Batch(seq)    == SubSeq(seq, 1, BatchLen(seq))
Rest(seq)     == SubSeq(seq, 1 + BatchLen(seq), Len(seq))

\* Mutated form: a short batch ends the drain before it is saved.
AfterPop_ShortEnds(kept, left) ==
  IF left = 0 THEN "list" ELSE IF kept # {} THEN "save" ELSE "pop"

\* Where a batch leads: to its save if anything of it is kept.
AfterPop(kept, left) ==
  IF kept # {} THEN "save" ELSE IF left = 0 THEN "list" ELSE "pop"

\* A batch is read, and with that gone from the queue. The drain ends with a batch that is
\* not full, or the MaxBatches-th.
Pop(r) ==
  LET kept == {e \in Range(Batch(queue)) : Converts(e, drain[r].account)}
      left == IF Len(queue) < BatchSize THEN 0 ELSE drain[r].left - 1
  IN  /\ At(r, "pop")
      /\ queue' = Rest(queue)
      /\ drain' = [drain EXCEPT ![r].step = AfterPop(kept, left), ![r].batch = kept, ![r].left = left]
      /\ UNCHANGED <<cpa, files, made, rows, quota, lock, claude, lost, known>>

\* The request fails, before or after the queue was emptied.
PopFails(r) ==
  /\ At(r, "pop") /\ cpa.fails
  /\ \/ UNCHANGED <<queue, lost>>
     \/ queue' = Rest(queue) /\ Loses(RecordsOf(Range(Batch(queue))))
  /\ drain' = [drain EXCEPT ![r].step = "list", ![r].drainErr = TRUE]
  /\ UNCHANGED <<cpa, files, made, rows, quota, lock, claude, known>>

\* Mutated form: a copy of a record is a row of its own.
Key_Copy(entry) == <<entry.record.n, entry.copy>>

\* The file_path of the row: the request id, or credential and time.
Key(entry) == entry.record.n

\* SaveIngestedUsage, one transaction.
Save(r) ==
  LET batch == drain[r].batch
  IN  /\ At(r, "save")
      /\ rows' = {row \in rows : \A e \in batch : Key(e) # row.key}
                   \cup {[key |-> Key(e), record |-> e.record, blind |-> drain[r].blind] : e \in batch}
      /\ drain' = [drain EXCEPT ![r].step = IF drain[r].left = 0 THEN "list" ELSE "pop",
                                ![r].batch = {}]
      /\ UNCHANGED <<cpa, files, made, queue, quota, lock, claude, lost, known>>

SaveFails(r) ==
  /\ At(r, "save") /\ cpa.fails
  /\ Loses(RecordsOf(drain[r].batch))
  /\ drain' = [drain EXCEPT ![r].step = "list", ![r].batch = {}, ![r].drainErr = TRUE]
  /\ UNCHANGED <<cpa, files, made, queue, rows, quota, lock, claude, known>>

---------------------------------------------------------------------------
(* usageItems, and what the scheduler makes of the collect.                *)

UsageItem(category, product, value, start, end) ==
  [category |-> category, product |-> product, value |-> value, start |-> start, end |-> end]

\* The totals of the rows from the start of the week to the end of the day.
UsageItems(at) ==
  LET today == DayOf(at)
      count(from) == Cardinality({row \in rows : DayOf(row.record.at) \in from..today})
  IN  <<UsageItem("token_usage_product", "claude", count(today), today, today),
        UsageItem("token_usage_product_week", "claude", count(WeekStart(today)),
                  WeekStart(today), today)>>

\* The collect fails only when neither the quota nor the usage could be read.
List(r) ==
  /\ At(r, "list")
  /\ claude' = IF drain[r].quotaErr /\ drain[r].drainErr
               THEN [claude EXCEPT !.status = "error"]
               ELSE [status |-> "ok", items |-> UsageItems(drain[r].at) \o drain[r].quota,
                     at |-> drain[r].at, made |-> drain[r].made,
                     whole |-> ~drain[r].drainErr /\ queue = <<>> /\ Held = {} /\ lost = {}]
  /\ drain' = [drain EXCEPT ![r] = NoDrain]
  /\ UNCHANGED <<cpa, files, made, queue, rows, quota, lock, lost, known>>

\* The rows cannot be listed.
ListFails(r) ==
  /\ At(r, "list") /\ cpa.fails
  /\ claude' = [claude EXCEPT !.status = "error"]
  /\ drain' = [drain EXCEPT ![r] = NoDrain]
  /\ UNCHANGED <<cpa, files, made, queue, rows, quota, lock, lost, known>>

\* The process ends and starts again: the database is kept.
Restart ==
  /\ cpa.restarts
  /\ Loses(Held)
  /\ quota' = NoCache /\ lock' = "free" /\ known' = FALSE
  /\ drain' = [r \in Run |-> NoDrain]
  /\ UNCHANGED <<cpa, files, made, queue, rows, claude>>

CPACollect(r) ==
  \/ Start(r) \/ Throttled(r) \/ Refresh(r) \/ RefreshFails(r) \/ Select(r) \/ Refreshed(r)
  \/ Pop(r) \/ PopFails(r) \/ Save(r) \/ SaveFails(r) \/ List(r) \/ ListFails(r)

\* A collect ends before its timeout, and the next refresh comes after that.
InTime(t) == \A r \in Run : At(r, "idle") \/ t - drain[r].at <= Timeout
=============================================================================
