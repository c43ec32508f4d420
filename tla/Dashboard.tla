------------------------------ MODULE Dashboard ------------------------------
(***************************************************************************)
(* infohub: what the e-ink panels show of the items of a snapshot.  The    *)
(* functions of internal/api/dashboard*.go have no state; each is an       *)
(* operator here, from a sequence of items to the figures of a panel.      *)
(*                                                                         *)
(* An item of usage is [category, product, value, start, end], one of a    *)
(* product's quota [category, product, window, left], one of an account's  *)
(* quota [category, key, name, email, window, left, reset].  A value that  *)
(* does not parse, and a cell or figure shown as "--", is Missing; texts   *)
(* and number formats are left out.                                        *)
(***************************************************************************)
EXTENDS Sequences, SequencesExt, FiniteSetsExt, UsagePeriod

CONSTANTS
  Missing,    \* "--", or a value that is not a number
  NoFiveHour  \* the 5H cell of a group that has only a weekly limit

ASSUME CellConstants == Missing \notin Int /\ NoFiveHour \notin Int

\* The elements of a sequence at some of its positions, in their order.
Picked(seq, positions) ==
    [n \in 1..Cardinality(positions) |->
     seq[CHOOSE k \in positions : Cardinality({j \in positions : j <= k}) = n]]

Total(items) == SumFunction([n \in DOMAIN items |-> items[n].value])

OfProduct(items, category, product) ==
  Picked(items, {n \in DOMAIN items : items[n].category = category /\ items[n].product = product})

Parsed(items) == Picked(items, {n \in DOMAIN items : items[n].value # Missing})

---------------------------------------------------------------------------
(* Usage figures.                                                          *)

\* Mutated form: weekly items enter today's figure.
ProductToday_CountsWeek(items, product) ==
  LET usable == Parsed(OfProduct(items, "token_usage_product", product)
                         \o OfProduct(items, "token_usage_product_week", product))
  IN  IF usable = <<>> THEN Missing ELSE Total(usable)

\* buildProductDashboard: what does not parse is left out of the sum.
ProductToday(items, product) ==
  LET usable == Parsed(OfProduct(items, "token_usage_product", product))
  IN  IF usable = <<>> THEN Missing ELSE Total(usable)

\* Mutated form: a week that could not be fetched is left out of the sum.
ProductWeek_SkipsMissing(items, product) ==
  LET weeks == Parsed(OfProduct(items, "token_usage_product_week", product))
  IN  IF weeks = <<>> THEN Missing ELSE Total(weeks)

\* buildProductWeek: one week that is missing, is not a calendar week or is
\* another week than the others' leaves the figure unknown.
ProductWeek(items, product) ==
  LET weeks == OfProduct(items, "token_usage_product_week", product)
      whole == \A n \in DOMAIN weeks :
                 /\ weeks[n].value # Missing
                 /\ weeks[n].start = WeekStart(weeks[n].end)
                 /\ weeks[n].start = weeks[1].start /\ weeks[n].end = weeks[1].end
  IN  IF weeks # <<>> /\ whole THEN Total(weeks) ELSE Missing

\* The days the two figures are said to cover: dashboardUsageRanges.
RangeStart(items, category, default) ==
  LET dated == OfProduct(items, category, "codex")
  IN  IF dated = <<>> THEN default ELSE dated[Len(dated)].start

DailyRange(items, updated)  == RangeStart(items, "token_usage_product", updated)
WeeklyRange(items, updated) == RangeStart(items, "token_usage_product_week", WeekStart(updated))

WindowPriority == [daily |-> 1, weekly |-> 2, monthly |-> 3, balance |-> 4]

\* buildDeepSeekQuota: the first of the window with the lowest priority.
DeepSeekQuota(items) ==
  LET quotas == OfProduct(items, "product_quota", "deepseek")
      before(m, n) == \/ WindowPriority[quotas[m].window] < WindowPriority[quotas[n].window]
                      \/ quotas[m].window = quotas[n].window /\ m <= n
  IN  IF quotas = <<>> THEN Missing
      ELSE quotas[CHOOSE m \in DOMAIN quotas : \A n \in DOMAIN quotas : before(m, n)]

---------------------------------------------------------------------------
(* Quota rows.                                                             *)

Unknown(row) == row.five = Missing \/ row.week = Missing

\* quotaStatus, the first condition that holds.
QuotaStatus(five, week) ==
  LET both(percent) == five >= percent /\ week >= percent
  IN  IF five = Missing \/ week = Missing THEN "unknown"
      ELSE IF week <= 0 THEN "exhausted"
      ELSE IF both(95)  THEN "best"
      ELSE IF both(75)  THEN "ample"
      ELSE IF both(60)  THEN "normal"
      ELSE IF five <= 20 \/ week <= 10 THEN "alarm"
      ELSE "watch"

\* buildQuotaRow
Row(name, email, five, week) ==
  [account |-> name, email |-> email, five |-> five, week |-> week,
   status |-> QuotaStatus(five, week)]

\* Mutated form: the accounts are told apart by the name alone.
AccountKey_Name(item) == item.name

\* buildQuotaAccounts: an account is its account_id, or its name.
AccountKey(item) == IF item.key = Missing THEN item.name ELSE item.key

\* The rows in the order the accounts first appear; a window reported twice
\* counts as reported last.
QuotaRows(items) ==
  LET quotas == {n \in DOMAIN items : items[n].category = "quota" /\ items[n].window \in {"5H", "Week"}}
      key(n) == AccountKey(items[n])
      cell(k, window) ==
        LET shown == {n \in quotas : key(n) = k /\ items[n].window = window}
        IN  IF shown = {} THEN Missing ELSE items[Max(shown)].left
      firsts == {n \in quotas : \A m \in quotas : m < n => key(m) # key(n)}
  IN  Picked([n \in firsts |-> Row(items[n].name, items[n].email, cell(key(n), "5H"),
                                   cell(key(n), "Week"))], firsts)

EmptyRow(name) == [account |-> name, email |-> Missing, five |-> Missing, week |-> Missing,
                   status |-> Missing]

Percent(cell) == IF cell \in {Missing, NoFiveHour} THEN 0 ELSE cell

\* Mutated form: an account with nothing left this week is no worse than one
\* that runs low.
Severity_ExhaustedAsLow(row) ==
  IF Unknown(row) \/ row.five <= 20 \/ row.week <= 10 THEN 4
  ELSE IF row.five <= 50 \/ row.week <= 50 \/ row.status = "watch" THEN 3 ELSE 1

\* quotaRowSeverity
Severity(row) ==
  IF Unknown(row) THEN 4
  ELSE IF row.week = 0 THEN 5
  ELSE IF row.five <= 20 \/ row.week <= 10 THEN 4
  ELSE IF row.five <= 50 \/ row.week <= 50 \/ row.status = "watch" THEN 3 ELSE 1

\* quotaRowFloor
Floor(row) == Min({Percent(row.five), Percent(row.week)})

Worse(row, than) == \/ Severity(row) > Severity(than)
                    \/ Severity(row) = Severity(than) /\ Floor(row) < Floor(than)

\* pickFocusQuotaRow: the first of the worst rows.
FocusRow(rows) ==
  IF rows = <<>> THEN EmptyRow(Missing)
  ELSE rows[Min({n \in DOMAIN rows : \A m \in DOMAIN rows : ~Worse(rows[m], rows[n])})]

\* The test of filterCodexAccounts.
IsAccountOf(row, email) ==
  row.email = email \/ (row.email = Missing /\ row.account = email)

\* filterCodexAccounts: one row for each configured email, in order.
AccountRows(rows, emails) ==
  LET distinct == Picked(emails, {n \in DOMAIN emails : \A m \in 1..(n - 1) : emails[m] # emails[n]})
  IN  [n \in DOMAIN distinct |->
         LET email == distinct[n]
             focus == FocusRow(Picked(rows, {m \in DOMAIN rows : IsAccountOf(rows[m], email)}))
         IN  [focus EXCEPT !.account = email, !.email = email]]

\* markMissingFiveHour
MarkMissingFiveHour(rows) ==
  [n \in DOMAIN rows |-> IF rows[n].five = Missing /\ rows[n].week # Missing
                         THEN [rows[n] EXCEPT !.five = NoFiveHour] ELSE rows[n]]

\* trioQuotaRows: a placeholder keeps the shape of the panel.
TrioRows(items, placeholder) ==
  LET rows == QuotaRows(items) IN IF rows = <<>> THEN <<EmptyRow(placeholder)>> ELSE rows

---------------------------------------------------------------------------
(* Alerts and status.                                                      *)

NoPercent == 101

Alert(account, percent, critical) ==
  [account |-> account, percent |-> percent, critical |-> critical]

\* buildAlert: no alert, or one with the percentage it names.
AlertsOf(row) ==
  IF Unknown(row) THEN <<Alert(row.account, NoPercent, FALSE)>>
  ELSE IF row.week <= 10 THEN <<Alert(row.account, row.week, TRUE)>>
  ELSE IF row.five < 60  THEN <<Alert(row.account, row.five, FALSE)>> ELSE <<>>

\* mergeDashboardAlerts: the alerts of a table, the least percentage first.
Alerts(rows) ==
  LET raised == FlattenSeq([n \in DOMAIN rows |-> AlertsOf(rows[n])])
      before(m, n) == \/ raised[m].percent < raised[n].percent
                      \/ raised[m].percent = raised[n].percent /\ m <= n
      rank(n) == Cardinality({m \in DOMAIN raised : before(m, n)})
  IN  [n \in DOMAIN raised |-> raised[CHOOSE m \in DOMAIN raised : rank(m) = n]]

\* codexDashboardStatus
PanelStatus(snapshot, rows) ==
  IF snapshot.status = "error" THEN (IF rows # <<>> THEN "stale" ELSE "failed")
  ELSE IF rows = <<>> THEN "waiting"
  ELSE IF Unknown(FocusRow(rows)) THEN "unknown" ELSE FocusRow(rows).status

\* Mutated form: the time of the last attempt.
UpdatedAt_LastFetch(snapshot) == snapshot.fetched

\* snapshotDataUpdatedAt: the age of the items.
UpdatedAt(snapshot) ==
  IF snapshot.items = <<>> THEN snapshot.fetched
  ELSE Max({snapshot.items[n].fetched : n \in DOMAIN snapshot.items})
=============================================================================
