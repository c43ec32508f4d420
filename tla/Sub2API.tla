------------------------------- MODULE Sub2API -------------------------------
(***************************************************************************)
(* infohub: the sub2api collector and the panel that shows its items.      *)
(*                                                                         *)
(* One Collect is a series of requests to an upstream whose counters and   *)
(* date move on meanwhile: the accounts, their usage today, for every user *)
(* target its id, its usage today and its quota, and at last one week of   *)
(* usage for every target.  A request may fail.  The daily ones end the    *)
(* collect, the weekly ones leave an item without a value.                 *)
(*                                                                         *)
(* A text (a name, an id, an email) is a set of words, {} when empty; one  *)
(* text contains another when its words include the other's.               *)
(***************************************************************************)
EXTENDS Dashboard

CONSTANTS
  Setups,    \* what may be configured, and what the upstream has: see Setup
  FirstDay,  \* the day the process starts on
  LastDay,   \* bound: the last day
  MaxUse,    \* bound: units of usage
  MaxRounds  \* bound: collects

ASSUME BoundAssumption ==
  /\ FirstDay \in Int /\ LastDay \in Int /\ FirstDay <= LastDay
  /\ MaxUse \in Nat /\ MaxRounds \in Nat

\* A setup: the targets as configured, the accounts and users upstream has,
\* their quota (a user's as windows or a balance, and which of the two endpoints
\* for it are configured), which of them use which product meanwhile, and the
\* emails the panel is configured to show.
VARIABLES
  setup,
  targets,   \* the targets as the collector keeps them
  day,       \* the date in Asia/Shanghai
  used,      \* what the upstream has counted: one record for each unit of usage
  step,      \* the request the collect is at
  round,     \* history: collects started
  today,     \* the date the collect started on
  selected,  \* the accounts the targets select, each with usage
  stats,     \* the accounts' usage today, as answered
  users,     \* what is known of the user targets so far
  items,     \* the weekly items fetched so far
  snapshot,  \* what the store serves of this collector
  began      \* history: units counted when the collect started, and the day it read stats

collectVars == <<step, round, today, selected, stats, users, items, began>>
vars == <<setup, targets, day, used, collectVars, snapshot>>

Days == FirstDay..LastDay
Products == {"codex", "deepseek"}

Scopes == {a.id : a \in Range(setup.accounts)} \cup {u.id : u \in Range(setup.users)}

Unit == [n : 1..MaxUse, scope : Scopes, product : Products, day : Days]

\* The usage the upstream answers with for a range of dates.
UsedIn(scope, product, from, to) ==
  Cardinality({u \in used : u.scope = scope /\ u.product = product /\ u.day \in from..to})

---------------------------------------------------------------------------
(* Targets.                                                                *)

\* Mutated form: an email is taken for an id.
EmailLike_Never(text) == FALSE

EmailLike(text) == "@" \in text

\* normalizeSub2APITargets
Normalized(t) ==
  LET type  == IF t.type # {} THEN t.type ELSE IF t.email # {} THEN {"user"} ELSE {"account"}
      isUser == type = {"user"}
      email == IF isUser /\ t.email = {} /\ EmailLike(t.id) THEN t.id ELSE t.email
      match == IF t.match # {} THEN t.match
               ELSE IF isUser /\ email # {} THEN email
               ELSE IF t.name # {} THEN t.name ELSE t.id
  IN  [t EXCEPT !.type = type, !.email = email, !.match = match, !.usage = @ \/ isUser]

Configured(s) == [n \in DOMAIN s.targets |-> Normalized(s.targets[n])]

AccountTargets ==
  Picked(targets, {n \in DOMAIN targets : targets[n].type \in {{"account"}, {"gpt_account"}, {"gpt"}}})

UserTargets == Picked(targets, {n \in DOMAIN targets : targets[n].type = {"user"}})

\* sub2apiAccountMatchesTarget
Matches(a, t) ==
  \/ t.email # {} /\ t.email \in {a.email, a.name}
  \/ t.id # {}    /\ a.id = t.id
  \/ t.name # {}  /\ a.name = t.name
  \/ t.match # {} /\ t.match \subseteq a.name

\* sub2apiAccountEnabled: the accounts that are active and schedulable.
Enabled(accounts) == {k \in DOMAIN accounts : accounts[k].enabled}

\* Mutated form: an account is selected by every target that matches it.
Selected_Again(accounts, wanted, n) ==
  Picked(accounts, {k \in Enabled(accounts) : Matches(accounts[k], wanted[n])})

\* The accounts a target selects: those it is the first to match.
Selected(accounts, wanted, n) ==
  Picked(accounts, {k \in Enabled(accounts) :
    Matches(accounts[k], wanted[n]) /\ \A m \in 1..(n - 1) : ~Matches(accounts[k], wanted[m])})

Marked(accounts, usage) == [m \in DOMAIN accounts |-> [accounts[m] EXCEPT !.usage = usage]]

\* selectSub2APIAccounts: without a target every account is selected.
SelectAccounts(accounts, wanted) ==
  IF wanted = <<>> THEN Picked(accounts, Enabled(accounts))
  ELSE FlattenSeq([n \in DOMAIN wanted |->
         Marked(Selected(accounts, wanted, n), wanted[n].usage)])

\* accountsWithUsageTarget, and the accounts whose week is asked for.
WithUsage(accounts) ==
  IF targets = <<>> THEN accounts ELSE Picked(accounts, {n \in DOMAIN accounts : accounts[n].usage})

\* A user is searched for unless the target has its id.
Searched(t) == t.id = {} \/ EmailLike(t.id)
Keyword(t)  == IF t.email # {} THEN t.email ELSE t.match

\* The search answers with users whose email contains the keyword, in any order.
Similar(all, keyword) == {u \in Range(all) : keyword \subseteq u.email}

\* The ids a user target may stand for: its own, or that of the users with exactly the
\* email searched for, or when there is none of those whose email contains it.
NamedBy(all, t) ==
  LET similar == Similar(all, Keyword(t))
      exact   == {u \in similar : u.email = Keyword(t)}
  IN  IF Searched(t) THEN {u.id : u \in IF exact # {} THEN exact ELSE similar} ELSE {t.id}

\* What the proofs assume of a setup.  The ids of accounts differ; a quota is a percentage
\* (remainingPercent), and the windows of a user are those fetchUserPlatformQuotas knows.
Texts(a) == {a.id, a.name, a.email}

IsSequence(s) == s \in Seq(Range(s))

IsSetup(s) ==
  /\ IsSequence(s.targets) /\ IsSequence(s.accounts) /\ IsSequence(s.users)
  /\ IsSequence(s.windows) /\ IsSequence(s.balance) /\ IsSequence(s.emails)
  /\ \A t \in Range(s.targets) : t = [type |-> t.type, id |-> t.id, name |-> t.name,
                                      match |-> t.match, email |-> t.email, usage |-> t.usage]
  /\ \A a \in Range(s.accounts) :
       /\ a = [id |-> a.id, name |-> a.name, email |-> a.email, enabled |-> a.enabled,
               usage |-> FALSE, five |-> a.five, week |-> a.week]
       /\ {a.five, a.week} \subseteq 0..100 /\ Missing \notin Texts(a)
  /\ Missing \notin Range(s.emails)
  /\ \A n, m \in DOMAIN s.accounts : s.accounts[n].id = s.accounts[m].id => n = m
  /\ \A q \in Range(s.windows) : q.window \in {"daily", "weekly", "monthly"}
  /\ \A q \in Range(s.balance) : q.window = "balance"

ASSUME SetupAssumption == \A s \in Setups : IsSetup(s)

---------------------------------------------------------------------------
NotBegun == [units |-> 0, read |-> FirstDay]

Init ==
  /\ setup \in Setups
  /\ targets = Configured(setup)
  /\ day = FirstDay
  /\ used = {}
  /\ step = "idle" /\ round = 0 /\ today = FirstDay
  /\ selected = <<>> /\ stats = <<>> /\ users = <<>> /\ items = <<>>
  /\ began = NotBegun
  /\ snapshot = [status |-> "none", fetched |-> FirstDay, items |-> <<>>,
                 began |-> began, today |-> FirstDay, round |-> 0]

Use(scope, product) ==
  /\ <<scope, product>> \in setup.traffic
  /\ Cardinality(used) < MaxUse
  /\ used' = used \cup {[n |-> Cardinality(used) + 1, scope |-> scope,
                         product |-> product, day |-> day]}
  /\ UNCHANGED <<setup, targets, day, collectVars, snapshot>>

Midnight ==
  /\ day < LastDay /\ day' = day + 1
  /\ UNCHANGED <<setup, targets, used, collectVars, snapshot>>

---------------------------------------------------------------------------
(* Collect.                                                                *)

Begin ==
  /\ step = "idle" /\ round < MaxRounds
  /\ step' = "accounts" /\ round' = round + 1 /\ today' = day
  /\ began' = [units |-> Cardinality(used), read |-> day]
  /\ UNCHANGED <<setup, targets, day, used, selected, stats, users, items, snapshot>>

\* Collect has returned, its variables are gone.
Returned ==
  /\ step' = "idle" /\ today' = FirstDay /\ began' = NotBegun
  /\ selected' = <<>> /\ stats' = <<>> /\ users' = <<>> /\ items' = <<>>
  /\ UNCHANGED <<setup, targets, day, used, round>>

AfterStats == IF UserTargets # <<>> THEN "resolve" ELSE "week"

\* newSession and fetchAccounts, without those that are not active or not schedulable.
FetchAccounts ==
  /\ step = "accounts"
  /\ selected' = SelectAccounts(setup.accounts, AccountTargets)
  /\ step' = IF WithUsage(selected') = <<>> THEN AfterStats ELSE "stats"
  /\ UNCHANGED <<setup, targets, day, used, round, today, stats, users, items, snapshot, began>>

\* fetchTodayStats: no date is sent, the upstream answers for its own today;
\* three forms of the body are tried, and one of them is understood.
FetchTodayStats ==
  LET ids == {a.id : a \in Range(WithUsage(selected))}
  IN  /\ step = "stats"
      /\ stats' = [s \in ids |-> UsedIn(s, "codex", day, day)]
      /\ began' = [began EXCEPT !.read = day]
      /\ step' = AfterStats
      /\ UNCHANGED <<setup, targets, day, used, round, today, selected, users, items, snapshot>>

Target == UserTargets[Len(users) + 1]

\* Mutated form: the first user of the answer.
PickUser_First(found, keyword) == found[1]

\* resolveUser: the user with exactly that email, or the first one.
PickUser(found, keyword) ==
  LET exact == Picked(found, {n \in DOMAIN found : found[n].email = keyword})
  IN  IF exact # <<>> THEN exact[1] ELSE found[1]

ResolveUser ==
  /\ step = "resolve" /\ step' = "usage"
  /\ IF Searched(Target)
     THEN \E found \in SetToSeqs(Similar(setup.users, Keyword(Target))) :
            /\ Keyword(Target) # {} /\ found # <<>>
            /\ users' = Append(users, [id |-> PickUser(found, Keyword(Target)).id])
     ELSE users' = Append(users, [id |-> Target.id])
  /\ UNCHANGED <<setup, targets, day, used, round, today, selected, stats, items, snapshot, began>>

\* usage_stats with explicit dates.
UserUsage(id, p) == UsedIn(id, p, today, today)

\* fetchUserTodayStats
FetchUsage ==
  LET id == users[Len(users)].id
  IN  /\ step = "usage" /\ step' = "quota"
      /\ users' = [users EXCEPT ![Len(users)] =
                     [id |-> id, usage |-> [p \in Products |-> UserUsage(id, p)]]]
      /\ UNCHANGED <<setup, targets, day, used, round, today, selected, stats, items, snapshot, began>>

\* Whether the platform quota is asked for: an endpoint for it is configured.
AsksQuota == "user_platform_quotas" \in setup.endpoints

\* The platform quota, or the balance when there is no window or it is not asked for.
UserQuota ==
  IF AsksQuota /\ setup.windows # <<>> THEN setup.windows
  ELSE IF "user_detail" \in setup.endpoints THEN setup.balance
  ELSE <<>>

FetchQuota ==
  /\ step = "quota"
  /\ users' = [users EXCEPT ![Len(users)] =
                 [id |-> @.id, usage |-> @.usage, quota |-> UserQuota]]
  /\ step' = IF Len(users) < Len(UserTargets) THEN "resolve" ELSE "week"
  /\ UNCHANGED <<setup, targets, day, used, round, today, selected, stats, items, snapshot, began>>

\* The items of one user target; a product without an endpoint in the answer
\* has none.
UserItems(u) ==
  LET all   == <<"codex", "deepseek">>
      shown == Picked(all, {n \in 1..2 : u.usage[all[n]] > 0})
  IN  <<[category |-> "token_usage_user", scope |-> u.id,
         value |-> SumFunction(u.usage)]>>
      \o [n \in DOMAIN shown |->
            [category |-> "token_usage_product", product |-> shown[n], scope |-> u.id,
             value |-> u.usage[shown[n]], start |-> today, end |-> today]]
      \o [n \in DOMAIN u.quota |->
            [category |-> "product_quota", product |-> "deepseek",
             window |-> u.quota[n].window, left |-> u.quota[n].left]]

QuotaItem(a, window, left) ==
  [category |-> "quota", key |-> a.id, name |-> a.name,
   email |-> IF a.email = {} THEN Missing ELSE a.email, window |-> window, left |-> left]

\* The items of one account: its usage when it was asked for, and its quota.
AccountItems(a) ==
  (IF a.id \in DOMAIN stats
   THEN <<[category |-> "token_usage_product", product |-> "codex", scope |-> a.id,
           value |-> stats[a.id], start |-> today, end |-> today]>>
   ELSE <<>>)
  \o <<QuotaItem(a, "5H", a.five), QuotaItem(a, "Week", a.week)>>

DailyTotal ==
  SumFunction([n \in DOMAIN users |-> SumFunction(users[n].usage)])
    + SumFunction([n \in DOMAIN selected |->
                     IF selected[n].id \in DOMAIN stats THEN stats[selected[n].id] ELSE 0])

DailyItems ==
  <<[category |-> "token_usage", value |-> DailyTotal]>>
    \o FlattenSeq([n \in DOMAIN users |-> UserItems(users[n])])
    \o FlattenSeq([n \in DOMAIN selected |-> AccountItems(selected[n])])

\* The scopes whose week is asked for, users first.
WeekScopes ==
  [n \in DOMAIN users |-> users[n].id]
    \o [n \in DOMAIN WithUsage(selected) |-> WithUsage(selected)[n].id]

WeekItem(scope, value) ==
  [category |-> "token_usage_product_week", product |-> "codex", scope |-> scope,
   value |-> value, start |-> WeekStart(today), end |-> today]

NextWeek == WeekScopes[Len(items) + 1]

FetchWeek ==
  /\ step = "week" /\ Len(items) < Len(WeekScopes)
  /\ items' = Append(items,
       WeekItem(NextWeek, UsedIn(NextWeek, "codex", WeekStart(today), today)))
  /\ UNCHANGED <<setup, targets, day, used, step, round, today, selected, stats, users, snapshot, began>>

\* The collect ends without items; SaveFailure keeps those of the snapshot.
Failed ==
  /\ Returned
  /\ snapshot' = [snapshot EXCEPT !.status = "error", !.fetched = day]

\* Mutated form: a week that cannot be fetched ends the collect.
WeekFails_Ends ==
  /\ step = "week" /\ Len(items) < Len(WeekScopes)
  /\ Failed

\* fetchCodexWeekUsage answers with an item without a value.
WeekFails ==
  /\ step = "week" /\ Len(items) < Len(WeekScopes)
  /\ items' = Append(items, WeekItem(NextWeek, Missing))
  /\ UNCHANGED <<setup, targets, day, used, step, round, today, selected, stats, users, snapshot, began>>

\* withFetchedAt
FetchedAt(item, time) ==
  [f \in DOMAIN item \cup {"fetched"} |-> IF f = "fetched" THEN time ELSE item[f]]

Fetched(list) == [n \in DOMAIN list |-> FetchedAt(list[n], day)]

\* Every week was asked for: Collect returns and its items are saved.
Finish ==
  /\ step = "week" /\ Len(items) = Len(WeekScopes)
  /\ Returned
  /\ \E made \in {DailyItems \o items} :
       snapshot' = [status |-> "ok", fetched |-> day, items |-> Fetched(made),
                    began |-> began, today |-> today, round |-> round]

\* The login or a daily request fails, or the deadline of the collect passes in one.
Fails ==
  /\ step \in {"accounts", "stats", "resolve", "usage", "quota"}
  /\ step = "quota" => setup.endpoints # {}
  /\ Failed

Collect ==
  \/ Fails \/ FetchAccounts \/ FetchTodayStats \/ ResolveUser \/ FetchUsage \/ FetchQuota
  \/ WeekFails \/ FetchWeek \/ Finish

Next ==
  \/ \E s \in Scopes, p \in Products : Use(s, p)
  \/ Midnight
  \/ Begin
  \/ Collect

\* A request ends, if only by its timeout, and Collect goes on.
Spec == Init /\ [][Next]_vars /\ WF_vars(Collect)

---------------------------------------------------------------------------
(* Properties.                                                             *)

Steps == {"idle", "accounts", "stats", "resolve", "usage", "quota", "week"}

\* What usage can be asked of: accounts, users, and the ids in targets, which are no emails.
Asked == Scopes \cup {t.id : t \in {c \in Range(setup.targets) : "@" \notin c.id}}

\* The types of the state: counters and dates within their bounds, a collect at one
\* of its requests, figures only for scopes the upstream knows.
TypeOK ==
  /\ setup \in Setups /\ Len(targets) = Len(setup.targets) /\ {day, today} \subseteq Days
  /\ used \subseteq Unit
  /\ step \in Steps /\ round \in 0..MaxRounds
  /\ DOMAIN stats \subseteq Scopes /\ Range(stats) \subseteq 0..MaxUse
  /\ \A n \in DOMAIN users : users[n].id \in Asked
  /\ \A n \in DOMAIN items : items[n].scope \in Asked /\ items[n].value \in 0..MaxUse \cup {Missing}
  /\ snapshot.status \in {"none", "ok", "error"}
  /\ \A n \in DOMAIN snapshot.items : snapshot.items[n].fetched \in Days

Served(category) ==
  {snapshot.items[n] : n \in {m \in DOMAIN snapshot.items : snapshot.items[m].category = category}}

\* The scopes whose usage is asked for.
Wanted ==
  {i.scope : i \in Served("token_usage_user")}
    \cup {a.id : a \in Range(WithUsage(SelectAccounts(setup.accounts, AccountTargets)))}

\* Their codex usage on some days, among the first units counted.
CodexUsed(units, days) ==
  Cardinality({u \in used : /\ u.n <= units /\ u.day \in days
                            /\ u.scope \in Wanted /\ u.product = "codex"})

\* The days since the last Monday, up to the day the collect started on.
CalendarWeek ==
  {d \in Days : d <= snapshot.today
                 /\ \A monday \in (d + 1)..snapshot.today : Weekday(monday) # 1}

Today == ProductToday(snapshot.items, "codex")
Week  == ProductWeek(snapshot.items, "codex")
Rows  == QuotaRows(snapshot.items)

\* Different user targets name different users, and none an account.  The code looks for
\* neither: two targets that name one user count it twice; a user and an account of one id
\* it keeps in fields of their own, which are one set here.
Apart ==
  LET ids(n) == NamedBy(setup.users, UserTargets[n])
  IN  \A n \in DOMAIN UserTargets :
        /\ \A m \in DOMAIN UserTargets : n # m => ids(n) \cap ids(m) = {}
        /\ ids(n) \cap {a.id : a \in Range(setup.accounts)} = {}

\* A week's total is shown whole or as "--": it counts every wanted user and account,
\* and when the targets are apart none twice, from the last Monday on, as the upstream
\* had it at some moment of the collect, and the range shown is that week
\* (buildProductWeek over fetchCodexWeekUsage; README.md:129).
WeekIsTruth ==
  Week # Missing =>
    /\ Week >= CodexUsed(snapshot.began.units, CalendarWeek)
    /\ Apart => Week <= CodexUsed(MaxUse, CalendarWeek)
    /\ CalendarWeek = Days \cap (WeeklyRange(snapshot.items, UpdatedAt(snapshot))..snapshot.today)

\* When the accounts' usage was read on the day the collect started, today's total
\* counts that day's usage, and no user or account twice, however account targets overlap;
\* that day is the one the panel says (buildProductDashboard, dashboardUsageRanges).
TodayIsTruth ==
  Today # Missing =>
    /\ DailyRange(snapshot.items, UpdatedAt(snapshot)) = snapshot.today
    /\ Apart /\ snapshot.began.read = snapshot.today =>
         Today <= CodexUsed(MaxUse, {snapshot.today})

\* The week shown beside it is then never less than today's total: the two are read by
\* different requests, at different times.
WeekCoversToday ==
  Today # Missing /\ Week # Missing /\ snapshot.began.read = snapshot.today => Today <= Week

\* What is collected for a user target is that user's usage, also when the search finds
\* others whose email contains the keyword; and where the quota in dollars is asked for, a
\* balance is shown only for a user without one: a quota request that fails must not pass
\* for one that finds none. Where its endpoint is not configured the balance is shown
\* whatever quota the user has (resolveUser, fetchUserTodayStats, buildDeepSeekQuota).
UserFigures ==
  /\ \A i \in Served("token_usage_user") : \E t \in Range(UserTargets) : i.scope \in NamedBy(setup.users, t)
  /\ snapshot.items # <<>> => \A t \in Range(UserTargets) :
       \E i \in Served("token_usage_user") : i.scope \in NamedBy(setup.users, t)
  /\ LET shown == DeepSeekQuota(snapshot.items)
     IN  shown # Missing /\ shown.window = "balance" /\ AsksQuota => setup.windows = <<>>

\* An email of the panel shows the quota of an account that has it, an account whose
\* quota is known is not shown as unknown, and none is shown under another's email.
EmailsShowOwnQuota ==
  \A row \in Range(AccountRows(Rows, setup.emails)) :
    LET own == {a \in Range(setup.accounts) :
                  /\ \E i \in Served("quota") : i.key = a.id
                  /\ row.email = IF a.email = {} THEN a.name ELSE a.email}
    IN  IF own = {} THEN Unknown(row)
        ELSE \E a \in own : row.five = a.five /\ row.week = a.week

\* The row in focus is one no other is worse than, an account with nothing left this
\* week before one that is only low or unknown, and the first alert is about the least
\* quota left of all alerts (pickFocusQuotaRow, mergeDashboardAlerts).
WorstFirst ==
  LET focus  == FocusRow(Rows)
      alerts == Alerts(Rows)
  IN  /\ \A row \in Range(Rows) :
           /\ row.status = "exhausted" => focus.status = "exhausted"
           /\ focus.status \in {"best", "ample", "normal"} => AlertsOf(row) = <<>>
      /\ \A n \in DOMAIN alerts : alerts[1].percent <= alerts[n].percent

\* A collect that fails does not make the figures look newer or pass for current: the time
\* shown is that of the items, not of the last attempt, and a panel with rows is stale
\* (snapshotDataUpdatedAt, codexDashboardStatus).
FailureKeepsAge ==
  [][snapshot.items # <<>> /\ snapshot'.status = "error"
       => /\ UpdatedAt(snapshot') = UpdatedAt(snapshot)
          /\ Rows # <<>> => PanelStatus(snapshot', Rows) = "stale"]_snapshot

\* sub2api.go:186: a collect whose daily part is complete ends with its items served,
\* whatever becomes of the weekly requests.
WeeklyNeverBlocks == (step = "week") ~> (step = "idle" /\ snapshot.status = "ok")
=============================================================================
