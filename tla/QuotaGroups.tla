----------------------------- MODULE QuotaGroups -----------------------------
(***************************************************************************)
(* infohub: Antigravity on the trio panel.  An agent asks Cloud Code for   *)
(* the quota of each group of models, or AntiGravity Switch when it has no *)
(* answer, then Switch for the token totals of each day, and pushes both.  *)
(* The server saves the totals and replaces the groups of the machine in   *)
(* two transactions; its collector shows the freshest report of a group.   *)
(***************************************************************************)
EXTENDS TrioClock, Dashboard, FiniteSets

CONSTANTS
  Group,        \* the groups of the account, in the order they are shown
  NoWindow,     \* a window the upstream does not limit
  Unstated,     \* a bucket whose remaining fraction is left out
  NoToken,      \* no access token in memory
  GroupStale,   \* how long a report counts
  SwitchMaxAge, \* how old an answer of Switch may be that says when it was read
  PushDelay,    \* how long after the reading the server handles a push, at most
  MaxTokens     \* bound: units of tokens used

ASSUME GroupConstants ==
  /\ GroupStale \in Nat \ {0} /\ SwitchMaxAge \in Nat /\ PushDelay \in Nat /\ MaxTokens \in Nat
  /\ Group \in Seq(Range(Group)) /\ IsInjective(Group)

\* A window upstream limits: what is left of it, and when it starts anew.
Window == [left : 0..100 \cup {Unstated}, reset : Int]

ASSUME WindowConstants == NoWindow \notin Window

VARIABLES
  agy,     \* how upstream and Switch may answer and their quota over time: see MCTrioPanel
  tokens,  \* what each machine used on each day
  misfiled,\* history: the most of an earlier day that each machine reported of a day
  client,  \* the access token and the project in the memory of each agent
  agent,   \* the cycle each agent is in
  push,    \* the push of each machine the server has still to handle
  groups,  \* agent_quota_observations: each machine's groups
  totals,  \* local_usage_events: each machine's totals of days
  gemini   \* the snapshot of the collector

agyVars == <<agy, tokens, misfiled, client, agent, push, groups, totals, gemini>>

NoClient  == [token |-> NoToken, project |-> FALSE]
NoReading == [step |-> "idle", groups |-> <<>>, from |-> "none", read |-> 0, at |-> 0,
              days |-> <<>>, day |-> FirstDay]
NoGroups  == [groups |-> <<>>, from |-> "none", read |-> 0, at |-> 0]

GroupsInit ==
  /\ tokens = [m \in agy.machines |-> [d \in Days |-> 0]] /\ misfiled = tokens
  /\ client = [m \in agy.machines |-> NoClient]
  /\ agent = [m \in agy.machines |-> NoReading]
  /\ push = [m \in agy.machines |-> NoReading]
  /\ groups = [m \in agy.machines |-> NoGroups]
  /\ totals = [m \in agy.machines |-> {}]
  /\ gemini = [status |-> "none", items |-> <<>>, at |-> 0, shown |-> <<>>]

\* The account's quota is used on a machine.
UseTokens(m) ==
  /\ agy.uses /\ tokens[m][DayOf(now)] < MaxTokens
  /\ tokens' = [tokens EXCEPT ![m][DayOf(now)] = @ + 1]
  /\ UNCHANGED <<agy, misfiled, client, agent, push, groups, totals, gemini>>

---------------------------------------------------------------------------
(* FetchGroups: one cycle of an agent reads, under the client's lock.      *)

\* Mutated form: a bucket without a fraction is left out.
Bucket_Dropped(b) == IF b # NoWindow /\ b.left = Unstated THEN NoWindow ELSE b

\* A bucket of Cloud Code: one without a fraction is spent.
Bucket(b) == IF b # NoWindow /\ b.left = Unstated THEN [b EXCEPT !.left = 0] ELSE b

\* A bucket of Switch: one whose fraction is not known is left out.
SwitchBucket(b) == IF b # NoWindow /\ b.left = Unstated THEN NoWindow ELSE b

\* A bucket of a static answer of the prod host.
StaticBucket(b) == IF b = NoWindow THEN NoWindow ELSE [b EXCEPT !.left = 100]

\* The groups of an answer that have a window.
GroupsOf(quota, from) ==
  LET bucket(b) == CASE from = "cloud"  -> Bucket(b)
                     [] from = "static" -> StaticBucket(b)
                     [] OTHER           -> SwitchBucket(b)
      read == [n \in DOMAIN Group |->
                 [name |-> Group[n], five |-> bucket(quota[Group[n]].five),
                                     week |-> bucket(quota[Group[n]].week)]]
  IN  Picked(read, {n \in DOMAIN Group : read[n].five # NoWindow \/ read[n].week # NoWindow})

\* token(): the one in memory, the one of the token file, or a refreshed one. A token
\* is the moment it expires.
TokensFor(m) ==
  IF client[m].token # NoToken /\ now < client[m].token THEN {client[m].token}
  ELSE IF now < agy.file THEN {agy.file}
  ELSE {NoToken} \cup (IF agy.refreshes THEN {now + DayLength} ELSE {})

\* The client after calls that failed: a 401 forgets the token.
After(c, calls) ==
  IF \E n \in DOMAIN calls : calls[n] = "unauthorized" THEN [c EXCEPT !.token = NoToken] ELSE c

Reads(m, c, read, at, from) ==
  /\ client' = [client EXCEPT ![m] = c]
  /\ agent' = [agent EXCEPT ![m] = [NoReading EXCEPT !.step = "read", !.groups = read,
                                                     !.from = from, !.read = at, !.at = now]]

\* The hosts are asked in turn with the same token: the daily one, which reports live
\* quota, and the prod one, whose answer may be static.
Hosts == 1..2
Answers(host) == IF host = 1 THEN {"cloud"} ELSE agy.prod

FromCloud(m, c, host) ==
  \E from \in Answers(host) : Reads(m, c, GroupsOf(agy.quota[now], from), now, from)

\* fetchSwitchQuotaGroups, when Cloud Code has no answer: a reading not too old, one of any
\* age that does not say when it was made, or none.
FromSwitch(m, c) ==
  \/ Reads(m, c, <<>>, now, "none")
  \/ \E from \in agy.switch, age \in 0..now :
       /\ from = "undated" \/ age <= SwitchMaxAge
       /\ Reads(m, c, GroupsOf(agy.quota[now - age], from), now - age, from)

FetchGroups(m) ==
  /\ agent[m].step = "idle"
  /\ \E token \in TokensFor(m) :
       LET c == [client[m] EXCEPT !.token = token]
       IN  \/ token = NoToken /\ FromSwitch(m, client[m])
           \/ /\ token # NoToken /\ ~c.project
              /\ \E call \in agy.calls \ {"ok"} : FromSwitch(m, After(c, <<call>>))
           \/ /\ token # NoToken /\ (c.project \/ "ok" \in agy.calls)
              /\ \E calls \in [Hosts -> agy.calls] :
                   LET found == {n \in Hosts : calls[n] = "ok"}
                       loaded == [c EXCEPT !.project = TRUE]
                   IN  IF found = {} THEN FromSwitch(m, After(loaded, calls))
                       ELSE FromCloud(m, After(loaded, [n \in 1..(Min(found) - 1) |-> calls[n]]),
                                      Min(found))
  /\ UNCHANGED <<agy, tokens, misfiled, push, groups, totals, gemini>>

\* FetchUsageRecords runs agy-switch: the totals of the days with usage, and which day is
\* today; or nothing.
ReadStats(m) ==
  LET used == {d \in Days : tokens[m][d] > 0}
  IN  /\ agent[m].step = "read"
      /\ \E days \in {<<>>, [d \in used |-> tokens[m][d]]} :
           /\ days # <<>> => agy.uses
           /\ agent' = [agent EXCEPT ![m].step = "dated", ![m].days = days, ![m].day = DayOf(now)]
      /\ UNCHANGED <<agy, tokens, misfiled, client, push, groups, totals, gemini>>

\* Then it takes the date: what was today when Switch was asked counts for the day it is
\* now, besides its own. Days before the last week are left out.
Records(reading, today) ==
  LET listed == {d \in DOMAIN reading.days : d >= WeekStart(today) - 7}
      filed  == IF reading.day \in DOMAIN reading.days THEN {today} ELSE {}
  IN  [d \in listed \cup filed |->
         IF d \in listed THEN reading.days[d] ELSE reading.days[reading.day]]

\* The push: with neither groups nor totals nothing is pushed. A push the server has not
\* handled by then is lost.
Push(m) ==
  LET days == Records(agent[m], DayOf(now))
      late == DOMAIN days \ DOMAIN agent[m].days
  IN  /\ agent[m].step = "dated"
      /\ push' = IF agent[m].groups = <<>> /\ days = <<>> THEN push
                 ELSE [push EXCEPT ![m] = [agent[m] EXCEPT !.step = "sent", !.days = days]]
      /\ misfiled' = [misfiled EXCEPT ![m] =
                        [d \in Days |-> IF d \in late /\ days[d] > @[d] THEN days[d] ELSE @[d]]]
      /\ agent' = [agent EXCEPT ![m] = NoReading]
      /\ UNCHANGED <<agy, tokens, client, groups, totals, gemini>>

---------------------------------------------------------------------------
(* ingestQuotaGroups.                                                      *)

\* The request is lost, refused before anything is stored, or its transaction fails.
Lose(m) ==
  /\ push[m].step # "idle" /\ push' = [push EXCEPT ![m] = NoReading]
  /\ UNCHANGED <<agy, tokens, misfiled, client, agent, groups, totals, gemini>>

\* Mutated form: the totals of every push are rows of their own.
DayKey_Push(p, day) == <<day, p.at>>

\* The file_path of a day's total.
DayKey(p, day) == day

\* SaveIngestedUsage, one transaction.
SaveTotals(m) ==
  LET reported == DOMAIN push[m].days
      keys     == {DayKey(push[m], d) : d \in reported}
  IN  /\ push[m].step = "sent"
      /\ totals' = [totals EXCEPT ![m] = {row \in @ : row.key \notin keys}
           \cup {[key |-> DayKey(push[m], d), day |-> d, total |-> push[m].days[d]] : d \in reported}]
      /\ push' = [push EXCEPT ![m].step = "saved"]
      /\ UNCHANGED <<agy, tokens, misfiled, client, agent, groups, gemini>>

\* Mutated form: a push without groups replaces them too.
Replaces_Always(p) == TRUE

\* A push of totals alone keeps the groups.
Replaces(p) == p.groups # <<>> \/ p.days = <<>>

\* ReplaceAgentQuotaGroups, one transaction: the report counts from this moment. A group
\* name that is given twice ends the request here, after the totals were saved.
ReplaceGroups(m) ==
  /\ push[m].step = "saved"
  /\ \E repeated \in agy.badNames :
       groups' = IF ~Replaces(push[m]) \/ repeated THEN groups
                 ELSE [groups EXCEPT ![m] = [groups |-> push[m].groups, from |-> push[m].from,
                                             read |-> push[m].read, at |-> now]]
  /\ push' = [push EXCEPT ![m] = NoReading]
  /\ UNCHANGED <<agy, tokens, misfiled, client, agent, totals, gemini>>

---------------------------------------------------------------------------
(* AntigravityCollector.Collect.                                           *)

\* Mutated form: a report counts for ever.
Fresh_Always(m) == TRUE

Fresh(m) == now - groups[m].at <= GroupStale

NamesOf(m) == {groups[m].groups[n].name : n \in DOMAIN groups[m].groups}

\* The machines whose report of a group is the latest.
Latest(name) ==
  LET reporting == {m \in agy.machines : Fresh(m) /\ name \in NamesOf(m)}
  IN  {m \in reporting : \A n \in reporting : groups[n].at <= groups[m].at}

ReportOf(m, name) ==
  groups[m].groups[CHOOSE n \in DOMAIN groups[m].groups : groups[m].groups[n].name = name]

\* A window whose reset has passed is full.
LeftOf(window) == IF window.reset <= now THEN 100 ELSE window.left

QuotaItem(name, window, left) ==
  [category |-> "quota", key |-> name, name |-> name, email |-> Missing,
   window |-> window, left |-> left]

\* The 5H item of each report and its weekly one, of the windows it has.
QuotaItems(reports) ==
  LET report(k) == reports[(k + 1) \div 2]
      cell(k)   == IF k % 2 = 1 THEN report(k).five ELSE report(k).week
      stated    == {k \in 1..(2 * Len(reports)) : cell(k) # NoWindow}
  IN  Picked([k \in stated |-> QuotaItem(report(k).name, IF k % 2 = 1 THEN "5H" ELSE "Week",
                                         LeftOf(cell(k)))], stated)

\* The totals of the stored days, when there are any.
TotalItems ==
  LET today == DayOf(now)
      stored == UNION {totals[m] \X {m} : m \in agy.machines}
      sum(from) == SumFunction([p \in {q \in stored : q[1].day \in from..today} |-> p[1].total])
      item(category, from) ==
        [category |-> category, product |-> "antigravity", value |-> sum(from),
         start |-> from, end |-> today]
  IN  IF \A p \in stored : p[1].day < WeekStart(today) THEN <<>>
      ELSE <<item("token_usage_product", today),
             item("token_usage_product_week", WeekStart(today))>>

CollectGroups ==
  LET names == Picked(Group, {n \in DOMAIN Group : Latest(Group[n]) # {}})
  IN  \E from \in [DOMAIN names -> agy.machines] :
        /\ \A n \in DOMAIN names : from[n] \in Latest(names[n])
        /\ gemini' = [status |-> "ok", at |-> now,
             items |-> TotalItems \o QuotaItems([n \in DOMAIN names |-> ReportOf(from[n], names[n])]),
             shown |-> [n \in DOMAIN names |-> [name |-> names[n], read |-> groups[from[n]].read,
                                                from |-> groups[from[n]].from]]]
        /\ UNCHANGED <<agy, tokens, misfiled, client, agent, push, groups, totals>>

\* A cycle ends, and its push is handled, in time.
Timely(t) ==
  \A m \in agy.machines :
    /\ agent[m].step = "idle" \/ t - agent[m].at <= PushDelay
    /\ push[m].step = "idle" \/ t - push[m].at <= PushDelay
=============================================================================
