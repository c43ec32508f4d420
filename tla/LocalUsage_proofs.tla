-------------------------- MODULE LocalUsage_proofs --------------------------
(***************************************************************************)
(* The theorems about the local usage collector and its quota clients, for *)
(* any setups, collects that overlap, files, clocks, paths, intervals and  *)
(* answers of an upstream: types, the breaker, the cache, expired quotas,  *)
(* the rows of a file and their total.                                     *)
(***************************************************************************)
EXTENDS LocalUsage, NatSets, TLAPS

\* The breaker is open for RateLimitTTL from the last 429 on, whichever answer opened it.
BreakerInv ==
  /\ now \in Nat /\ limited \in Int /\ breaker.until \in Int
  /\ DOMAIN breaker = {"until", "status"}
  /\ limited # Never =>
       limited <= now /\ breaker.until # Never /\ breaker.until >= limited + RateLimitTTL

\* A step of the client: a fetch begins, is answered, or returns; all others leave its
\* breaker alone and begin no fetch.
LEMMA ClientSteps ==
  ASSUME [Next]_vars
  PROVE  \/ now' = now + 1 /\ UNCHANGED <<cache, breaker, limited, fetch>>
         \/ now' = now /\ \E r \in Run : StartFetch(r)
         \/ now' = now /\ setup.fetcher = "store" /\ \E r \in Run : FetchReport(r)
         \/ now' = now /\ \E r \in Run : Respond(r) \/ Handle(r)
         \/ /\ now' = now /\ UNCHANGED <<cache, breaker, limited>>
            /\ fetch' = fetch \/ \E r \in Run : fetch' = [fetch EXCEPT ![r] = NoFetch]
<1> DEFINE Idle == /\ now' = now /\ UNCHANGED <<cache, breaker, limited>>
                   /\ fetch' = fetch \/ \E r \in Run : fetch' = [fetch EXCEPT ![r] = NoFetch]
<1>1. CASE Time
  BY <1>1 DEF Time, Tick, clientVars
<1>2. CASE \/ AppendLine \/ ReplaceLog \/ \E k \in LineNo : PushRecord(k)
           \/ \E m \in setup.machines : Push(m)
  <2>1. now' = now /\ UNCHANGED clientVars
    BY <1>2 DEF AppendLine, ReplaceLog, WriteLog, PushRecord, Push
  <2>2. QED
    BY <2>1 DEF clientVars
<1>3. ASSUME NEW r \in Run, Begin(r) \/ Stat(r) \/ Read(r) \/ Save(r) \/ Fails(r) \/ List(r)
      PROVE  Idle
  <2>1. now' = now /\ UNCHANGED clientVars
    BY <1>3 DEF Begin, Stat, Read, Save, Fails, List
  <2>2. QED
    BY <2>1 DEF clientVars
<1>4. ASSUME NEW r \in Run, Ask(r)
      PROVE  \/ now' = now /\ setup.fetcher = "store" /\ FetchReport(r)
             \/ now' = now /\ StartFetch(r)
  BY <1>4 DEF Ask
<1>5. ASSUME NEW r \in Run, Fetching(r)
      PROVE  now' = now /\ (Respond(r) \/ Handle(r))
  BY <1>5 DEF Fetching
<1>6. ASSUME NEW r \in Run, Finish(r)
      PROVE  Idle
  BY <1>6 DEF Finish, Items
<1>7. CASE UNCHANGED vars
  BY <1>7 DEF vars, clientVars
<1>8. ASSUME NEW r \in Run, Collect(r)
      PROVE  \/ Idle
             \/ now' = now /\ setup.fetcher = "store" /\ FetchReport(r)
             \/ now' = now /\ StartFetch(r)
             \/ now' = now /\ (Respond(r) \/ Handle(r))
  BY <1>3, <1>4, <1>5, <1>6, <1>8, Zenon DEF Collect
<1> HIDE DEF Idle
<1>9. CASE \E r \in Run : Begin(r) \/ Collect(r)
  BY <1>3, <1>8, <1>9 DEF Idle
<1>10. QED
  BY <1>1, <1>2, <1>7, <1>9 DEF Next

LEMMA BreakerInit == Init => BreakerInv
BY QuotaConstants DEF Init, ClientInit, BreakerInv, Never

\* The breaks opened by other answers are not shorter.
LEMMA Opened ==
  ASSUME BreakerInv, NEW r, NEW why, NEW ttl \in Nat, ttl >= RateLimitTTL,
         OpenBreaker(r, why, ttl), now' = now, limited' \in {limited, now}
  PROVE  BreakerInv'
<1>1. breaker' = [until |-> now + ttl, status |-> why]
  BY DEF OpenBreaker
<1>2. /\ breaker'.until = now + ttl /\ breaker'.until \in Int
      /\ DOMAIN breaker' = {"until", "status"}
  BY <1>1 DEF BreakerInv
<1>3. Never \in Int /\ Never < 0 /\ RateLimitTTL \in Nat
  BY QuotaConstants DEF Never
<1>4. limited' # Never => limited' <= now /\ limited' \in Int
  BY <1>3 DEF BreakerInv
<1>5. limited' \in Int
  BY DEF BreakerInv
<1>6. now \in Nat /\ now' \in Nat
  BY DEF BreakerInv
<1>7. breaker'.until # Never
  BY <1>2, <1>3, <1>6
<1>8. limited' # Never => limited' <= now' /\ breaker'.until >= limited' + RateLimitTTL
  <2> DEFINE at == limited'
             until == breaker'.until
  <2>1. until = now + ttl /\ until \in Int /\ at \in Int /\ (at # Never => at <= now)
    BY <1>2, <1>4, <1>5
  <2> HIDE DEF at, until
  <2>2. at # Never => until >= at + RateLimitTTL
    BY <1>3, <1>6, <2>1
  <2>3. QED
    BY <1>4, <2>2 DEF at, until
<1>9. QED
  BY <1>2, <1>5, <1>6, <1>7, <1>8 DEF BreakerInv

LEMMA BreakerStep ==
  ASSUME BreakerInv, [Next]_vars
  PROVE  BreakerInv'
<1>1. CASE UNCHANGED <<breaker, limited>> /\ now' \in {now, now + 1}
  BY <1>1 DEF BreakerInv
<1>2. ASSUME NEW r \in Run, Handle(r), now' = now
      PROVE  BreakerInv'
  <2>1. CASE Ok(r) \/ Unauthorized(r) \/ Unexpected(r)
    BY <1>1, <1>2, <2>1 DEF Ok, Unauthorized, Unexpected
  <2>2. CASE RateLimited(r)
    BY <1>2, <2>2, Opened, QuotaConstants DEF RateLimited
  <2>3. CASE Unavailable(r)
    BY <1>2, <2>3, Opened, QuotaConstants DEF Unavailable
  <2>4. CASE NotFound(r)
    BY <1>1, <1>2, <2>4, Opened, QuotaConstants DEF NotFound
  <2>5. QED
    BY <1>2, <2>1, <2>2, <2>3, <2>4 DEF Handle
<1>3. ASSUME NEW r \in Run, StartFetch(r) \/ FetchReport(r) \/ Respond(r)
      PROVE  UNCHANGED <<breaker, limited>>
  BY <1>3 DEF StartFetch, FetchReport, Respond
<1>4. QED
  BY <1>1, <1>2, <1>3, ClientSteps

\* No fetch sends its first request while the breaker is open.
LEMMA FetchWaits ==
  ASSUME BreakerInv, [Next]_vars, NEW r \in Run, DOMAIN fetch = Run,
         fetch[r].step = "none", fetch'[r].step = "sent", limited # Never
  PROVE  now >= limited + RateLimitTTL
<1>1. PICK x \in Run : StartFetch(x) \/ FetchReport(x) \/ Respond(x) \/ Handle(x)
                          \/ fetch' = [fetch EXCEPT ![x] = NoFetch]
  BY ClientSteps
<1>2. CASE StartFetch(x)
  <2>1. ~Broken(now)
    BY <1>2 DEF StartFetch, Return, NoFetch
  <2>2. QED
    BY <2>1, QuotaConstants DEF Broken, BreakerInv
<1>3. CASE FetchReport(x) \/ fetch' = [fetch EXCEPT ![x] = NoFetch]
  <2>1. \/ fetch' = [fetch EXCEPT ![x] = NoFetch]
        \/ \E l, ok : Return(x, l, ok)
    BY <1>3, Zenon DEF FetchReport
  <2>2. \A l, ok : [NoFetch EXCEPT !.step = "returned", !.limits = l, !.ok = ok].step = "returned"
    BY DEF NoFetch
  <2>3. NoFetch.step = "none"
    BY DEF NoFetch
  <2>4. CASE fetch' = [fetch EXCEPT ![x] = NoFetch]
    BY <2>3, <2>4
  <2>5. ASSUME NEW l, NEW ok, Return(x, l, ok)
        PROVE  FALSE
    <3> DEFINE d == [NoFetch EXCEPT !.step = "returned", !.limits = l, !.ok = ok]
    <3>1. fetch' = [fetch EXCEPT ![x] = d] /\ d.step # "sent"
      BY <2>2, <2>5 DEF Return
    <3> HIDE DEF d
    <3>2. QED
      BY <3>1
  <2>6. QED
    BY <2>1, <2>4, <2>5
<1>4. CASE Respond(x)
  BY <1>4 DEF Respond
<1>5. CASE Handle(x)
  <2>1. fetch[x].step = "answered"
    BY <1>5 DEF Handle, Ok, Unauthorized, RateLimited, Unavailable, Unexpected, NotFound, Answered
  <2>2. x # r
    BY <2>1
  <2>3. fetch'[r] = fetch[r]
    BY <1>5, <2>2 DEF Handle, Ok, Unauthorized, RateLimited, Unavailable, Unexpected, NotFound,
       Fail, Return
  <2>4. QED
    BY <2>3
<1>6. QED
  BY <1>1, <1>2, <1>3, <1>4, <1>5

LEMMA FetchingRuns == ASSUME DOMAIN fetch = Run, [Next]_vars PROVE DOMAIN fetch' = Run
BY ClientSteps DEF StartFetch, FetchReport, Respond, Handle, Ok, Unauthorized, RateLimited,
   Unavailable, Unexpected, NotFound, Fail, Return

\* After a 429 no fetch of any collect sends a request for RateLimitTTL, whichever break
\* another fetch that overlaps opens meanwhile, and in whatever order they end (openBreaker).
THEOREM RateLimitKept == Spec => RateLimitRespected
<1> DEFINE Inv == BreakerInv /\ DOMAIN fetch = Run
<1>1. Init => Inv
  BY BreakerInit DEF Init, ClientInit
<1>2. Inv /\ [Next]_vars => Inv'
  BY BreakerStep, FetchingRuns
<1>3. Inv /\ [Next]_vars =>
        [\A r \in Run :
           fetch[r].step = "none" /\ fetch'[r].step = "sent" /\ limited # Never =>
             now >= limited + RateLimitTTL]_fetch
  BY FetchWaits
<1>4. QED
  BY <1>1, <1>2, <1>3, PTL DEF Spec, RateLimitRespected

---------------------------------------------------------------------------
(* The types.                                                              *)

\* A fetch that goes on has a path to try.
FetchesGoOn ==
  \A r \in Run : fetch[r].step \in {"sent", "answered"} => fetch[r].left # <<>>

TypeInv == TypeOK /\ FetchesGoOn

USE DEF Moments

LEMMA NoLimitsType == NoLimits \in Limits /\ Limits = [five : Obs \cup {NoObs}, week : Obs \cup {NoObs}]
BY DEF NoLimits, Limits

LEMMA NoFetchType == NoFetch \in Fetch
BY QuotaConstants, NoLimitsType DEF NoFetch, Fetch

LEMMA EmptyRows == [k \in LineNo |-> NoRow] \in [LineNo -> Row \cup {NoRow}]
OBVIOUS

LEMMA NoCollectType == NoCollect \in Collects
BY QuotaConstants, LocalConstants, NoLimitsType, EmptyRows DEF NoCollect, Collects, Steps

LEMMA CurrentType ==
  ASSUME NEW limits \in Limits, NEW t
  PROVE  CurrentLimits(limits, t) \in Limits
BY DEF Limits, CurrentLimits, Current

\* What a client's upstream, and the setup of the collects, may be.
LEMMA SetupType ==
  ASSUME setup \in Setups
  PROVE  /\ setup.mode \in {"builtin", "remote"}
         /\ setup.lines \in Seq(Line) /\ Len(setup.lines) <= MaxLines
         /\ setup.usage \subseteq Usage \cup {NoUsage}
         /\ setup.upstream.answers \subseteq Answers
         /\ \A t \in Moments : setup.upstream.limits[t] \in Limits
BY LocalConstants

LEMMA NotEmpty == ASSUME NEW S, NEW s \in Seq(S), Len(s) > 0 PROVE s # <<>>
OBVIOUS

LEMMA PathsType ==
  ASSUME goodPath \in PathSet \cup {"none"}
  PROVE  OrderedPaths \in Seq(PathSet) /\ OrderedPaths # <<>>
<1>1. Paths \in Seq(PathSet) /\ Len(Paths) > 0
  BY QuotaConstants DEF PathSet
<1>2. CASE upstream.client = "claude"
  <2>1. SubSeq(Paths, 1, 1) \in Seq(PathSet) /\ Len(SubSeq(Paths, 1, 1)) > 0
    BY <1>1
  <2>2. SubSeq(Paths, 1, 1) # <<>>
    BY <2>1, NotEmpty, Zenon
  <2>3. QED
    BY <1>2, <2>1, <2>2 DEF OrderedPaths
<1>3. CASE goodPath = "none"
  BY <1>1, <1>2, <1>3 DEF OrderedPaths
<1>4. CASE goodPath # "none" /\ upstream.client # "claude"
  <2> DEFINE good == CHOOSE n \in DOMAIN Paths : Paths[n] = goodPath
  <2>1. goodPath \in PathSet /\ good \in DOMAIN Paths
    BY <1>4 DEF PathSet
  <2> HIDE DEF good
  <2>2. good \in 1..Len(Paths)
    BY <1>1, <2>1
  <2>3. /\ SubSeq(Paths, 1, good - 1) \in Seq(PathSet)
        /\ SubSeq(Paths, good + 1, Len(Paths)) \in Seq(PathSet)
        /\ <<goodPath>> \in Seq(PathSet) /\ Len(<<goodPath>>) = 1
    BY <1>1, <2>1, <2>2
  <2> DEFINE all == <<goodPath>> \o SubSeq(Paths, 1, good - 1) \o SubSeq(Paths, good + 1, Len(Paths))
  <2>4. all \in Seq(PathSet) /\ Len(all) > 0
    BY <2>3
  <2>5. OrderedPaths = all
    BY <1>4 DEF OrderedPaths, good
  <2> HIDE DEF all
  <2>6. all # <<>>
    BY <2>4, NotEmpty
  <2>7. QED
    BY <2>4, <2>5, <2>6
<1>5. QED
  BY <1>2, <1>3, <1>4

\* The rest of the state is typed as before, whatever a collect does.
LEMMA CollectTyped ==
  ASSUME TypeInv, NEW r \in Run, NEW c \in Collects,
         collect' = [collect EXCEPT ![r] = c],
         UNCHANGED <<setup, now, clientVars, log, reports, shown>>,
         ps' \in ParseState \cup {NoState}, rows' \in [LineNo -> Row \cup {NoRow}]
  PROVE  TypeInv'
<1>1. collect' \in [Run -> Collects]
  BY DEF TypeInv, TypeOK
<1>2. QED
  BY <1>1 DEF TypeInv, TypeOK, ClientTypeOK, FetchesGoOn, clientVars

\* What the fetch of a collect may become.
LEMMA FetchTyped ==
  ASSUME TypeInv, NEW r \in Run, NEW f \in Fetch, fetch' = [fetch EXCEPT ![r] = f],
         f.step \in {"sent", "answered"} => f.left # <<>>
  PROVE  fetch' \in [Run -> Fetch] /\ FetchesGoOn'
<1>1. fetch \in [Run -> Fetch] /\ FetchesGoOn
  BY DEF TypeInv, TypeOK, ClientTypeOK
<1>2. \A q \in Run : fetch'[q] = IF q = r THEN f ELSE fetch[q]
  BY <1>1
<1>3. fetch' \in [Run -> Fetch]
  BY <1>1
<1>4. QED
  BY <1>1, <1>2, <1>3 DEF FetchesGoOn

LEMMA ReturnTyped ==
  ASSUME TypeInv, NEW r \in Run, NEW limits \in Limits, NEW found \in BOOLEAN,
         Return(r, limits, found)
  PROVE  fetch' \in [Run -> Fetch] /\ FetchesGoOn'
<1> DEFINE f == [NoFetch EXCEPT !.step = "returned", !.limits = limits, !.ok = found]
<1>1. f \in Fetch /\ f.step = "returned"
  BY NoFetchType DEF Fetch
<1>2. fetch' = [fetch EXCEPT ![r] = f]
  BY DEF Return
<1> HIDE DEF f
<1>3. QED
  BY <1>1, <1>2, FetchTyped

LEMMA ScanTyped ==
  ASSUME TypeInv, NEW file \in Log, NEW offset \in Nat
  PROVE  /\ NextOffset(file, offset) \in Nat
         /\ \A k \in LineNo : k \in UsageLines(file, offset) =>
              RowOf(file, offset, k, FALSE, Version) \in Row
<1>1. Size(file) \in Nat
  <2>1. Len(file.lines) \in Nat /\ file.cut \in 1..W /\ (Len(file.lines) = 0 => file.cut = W)
    BY DEF Log
  <2>2. QED
    BY <2>1 DEF Size, W
<1>2. ASSUME NEW k \in LineNo, k \in UsageLines(file, offset)
      PROVE  RowOf(file, offset, k, FALSE, Version) \in Row
  <2>1. k \in 1..Len(file.lines) /\ file.lines[k].usage # NoUsage
    BY <1>2 DEF UsageLines
  <2>2. file.lines[k] \in Line
    BY <2>1 DEF Log
  <2>3. QED
    BY <2>1, <2>2 DEF RowOf, ModelOf, Row, Line, Version
<1>3. QED
  BY <1>1, <1>2 DEF NextOffset

\* The rows that say something of the quota, and the last of them.
Observes(k) == rows[k] # NoRow /\ (rows[k].usage.five # NoObs \/ rows[k].usage.week # NoObs)

NotAfter(j, k) ==
  \/ rows[j].usage.at < rows[k].usage.at
  \/ rows[j].usage.at = rows[k].usage.at /\ k <= j

LEMMA LastExists ==
  ASSUME rows \in [LineNo -> Row \cup {NoRow}], {k \in LineNo : Observes(k)} # {}
  PROVE  \E k \in LineNo : Observes(k) /\ \A j \in LineNo : Observes(j) => NotAfter(j, k)
<1> DEFINE with == {k \in LineNo : Observes(k)}
           At0  == [k \in 1..MaxLines |-> IF k \in with THEN rows[k].usage.at ELSE 0]
           Ats  == {At0[k] : k \in with}
<1>1. /\ with \subseteq 1..MaxLines /\ with # {} /\ MaxLines \in Nat
      /\ \A k \in with : rows[k].usage.at \in Nat
  BY LocalConstants DEF LineNo, Observes, Row
<1>2. At0 \in [1..MaxLines -> Nat] /\ \A k \in with : At0[k] = rows[k].usage.at
  BY <1>1
<1> HIDE DEF At0, with
<1>3. PICK b \in Nat : \A k \in 1..MaxLines : At0[k] <= b
  BY <1>1, <1>2, BoundedFunction
<1>4. Ats \in SUBSET Nat /\ Ats # {} /\ \A m \in Ats : m <= b
  BY <1>1, <1>2, <1>3
<1> HIDE DEF Ats
<1>5. PICK at \in Ats : \A m \in Ats : m <= at
  BY <1>4, GreatestNat
<1> DEFINE Last == {k \in with : At0[k] = at}
<1>6. Last \in SUBSET Nat /\ Last # {}
  <2>1. PICK k \in with : at = At0[k]
    BY <1>5 DEF Ats
  <2>2. k \in Last /\ Last \subseteq with /\ \A n \in 1..MaxLines : n \in Nat
    BY <1>1, <2>1
  <2>3. QED
    BY <1>1, <2>2
<1> HIDE DEF Last
<1>7. PICK k \in Last : \A j \in Last : k <= j
  BY <1>6, LeastNat
<1>8. k \in with /\ rows[k].usage.at = at /\ at \in Nat
  BY <1>1, <1>2, <1>4, <1>7 DEF Last
<1>9. ASSUME NEW j \in with
      PROVE  NotAfter(j, k)
  <2>1. At0[j] <= at /\ rows[j].usage.at = At0[j] /\ At0[j] \in Nat
    BY <1>1, <1>2, <1>5 DEF Ats
  <2>2. CASE At0[j] = at
    BY <1>7, <1>8, <2>1, <2>2 DEF Last, NotAfter
  <2>3. CASE At0[j] < at
    BY <1>8, <2>1, <2>3 DEF NotAfter
  <2>4. QED
    BY <1>8, <2>1, <2>2, <2>3
<1>10. QED
  BY <1>8, <1>9 DEF with

LEMMA LastObserved ==
  ASSUME rows \in [LineNo -> Row \cup {NoRow}], {k \in LineNo : Observes(k)} # {}
  PROVE  \E k \in LineNo :
           /\ Observes(k)
           /\ LatestObserved = [five |-> rows[k].usage.five, week |-> rows[k].usage.week]
<1> DEFINE with == {k \in LineNo : Observes(k)}
           last == CHOOSE k \in with : \A j \in with : NotAfter(j, k)
<1>1. LatestObserved = [five |-> rows[last].usage.five, week |-> rows[last].usage.week]
  BY DEF LatestObserved, Observes, NotAfter
<1>2. \E k \in with : \A j \in with : NotAfter(j, k)
  BY LastExists
<1>3. last \in with
  BY <1>2
<1> HIDE DEF last
<1>4. QED
  BY <1>1, <1>3

LEMMA ObservedType ==
  ASSUME rows \in [LineNo -> Row \cup {NoRow}]
  PROVE  LatestObserved \in Limits
<1>1. CASE {k \in LineNo : Observes(k)} = {}
  BY <1>1, NoLimitsType DEF LatestObserved, Observes
<1>2. CASE {k \in LineNo : Observes(k)} # {}
  <2>1. PICK last \in LineNo :
           /\ Observes(last)
           /\ LatestObserved = [five |-> rows[last].usage.five, week |-> rows[last].usage.week]
    BY <1>2, LastObserved
  <2>2. rows[last].usage \in Usage
    BY <2>1 DEF Observes, Row
  <2>3. QED
    BY <2>1, <2>2, LocalConstants DEF Limits
<1>3. QED
  BY <1>1, <1>2

LEMMA ScanSteps ==
  ASSUME TypeInv, NEW r \in Run,
         Begin(r) \/ Stat(r) \/ Read(r) \/ Save(r) \/ Fails(r) \/ List(r)
  PROVE  TypeInv'
<1>1. /\ collect \in [Run -> Collects] /\ collect[r] \in Collects /\ log \in Log
      /\ ps \in ParseState \cup {NoState} /\ rows \in [LineNo -> Row \cup {NoRow}]
  BY DEF TypeInv, TypeOK
<1>2. CASE Begin(r)
  <2> DEFINE c == [NoCollect EXCEPT !.step = IF setup.mode = "remote" THEN "list" ELSE "stat",
                                    !.ps = ps, !.began = Used(log)]
  <2>1. Used(log) \in 0..MaxLines
    <3>1. UsageLines(log, 0) \subseteq 1..MaxLines
      BY <1>1, LocalConstants DEF UsageLines, TypeInv, TypeOK, Log
    <3>2. QED
      BY <3>1, Within, LocalConstants DEF Used
  <2>2. c \in Collects
    BY <1>1, <2>1, NoCollectType DEF Collects, Steps
  <2>3. collect' = [collect EXCEPT ![r] = c]
    BY <1>2 DEF Begin
  <2> HIDE DEF c
  <2>4. QED
    BY <1>1, <1>2, <2>2, <2>3, CollectTyped DEF Begin
<1>3. CASE Stat(r)
  <2> DEFINE due    == collect[r].ps # NoState /\ NeedsReset(collect[r].ps, log, Version)
             offset == IF collect[r].ps = NoState \/ due THEN 0 ELSE collect[r].ps.offset
             c      == [collect[r] EXCEPT !.step = "list"]
             d      == [collect[r] EXCEPT !.step = "read", !.offset = offset,
                                          !.reset = due, !.mtime = log.mtime]
  <2>1. collect' \in {[collect EXCEPT ![r] = c], [collect EXCEPT ![r] = d]}
    BY <1>1, <1>3 DEF Stat, Goes
  <2>2. offset \in Nat /\ due \in BOOLEAN /\ log.mtime \in Nat
    BY <1>1 DEF Collects, ParseState, Log
  <2> HIDE DEF offset, due
  <2>3. c \in Collects /\ d \in Collects
    BY <1>1, <2>2 DEF Collects, Steps
  <2> HIDE DEF c, d
  <2>4. QED
    BY <1>1, <1>3, <2>1, <2>3, CollectTyped DEF Stat
<1>4. CASE Read(r)
  <2> DEFINE offset == collect[r].offset
             next   == [offset |-> NextOffset(log, offset), mtime |-> collect[r].mtime,
                        parser |-> Version]
             read   == [k \in LineNo |-> IF k \in UsageLines(log, offset)
                                         THEN RowOf(log, offset, k, FALSE, Version) ELSE NoRow]
             c      == [collect[r] EXCEPT !.step = "save", !.next = next, !.read = read]
  <2>1. offset \in Nat /\ collect[r].mtime \in Nat
    BY <1>1 DEF Collects
  <2> HIDE DEF offset
  <2>2. next \in ParseState
    BY <1>1, <2>1, ScanTyped DEF ParseState, Version
  <2>3. read \in [LineNo -> Row \cup {NoRow}]
    BY <1>1, <2>1, ScanTyped
  <2> HIDE DEF next, read
  <2>4. c \in Collects
    BY <1>1, <2>2, <2>3 DEF Collects, Steps
  <2>5. collect' = [collect EXCEPT ![r] = c]
    BY <1>4 DEF Read, offset, next, read
  <2> HIDE DEF c
  <2>6. QED
    BY <1>1, <1>4, <2>4, <2>5, CollectTyped DEF Read
<1>5. CASE Save(r)
  <2> DEFINE c == [NoCollect EXCEPT !.step = "list", !.began = collect[r].began]
  <2>1. c \in Collects /\ collect[r].next \in ParseState \cup {NoState}
        /\ collect[r].read \in [LineNo -> Row \cup {NoRow}]
    BY <1>1, NoCollectType DEF Collects, Steps
  <2>2. Saved(r) \in [LineNo -> Row \cup {NoRow}]
    BY <1>1, <2>1 DEF Saved
  <2>3. collect' = [collect EXCEPT ![r] = c]
    BY <1>5 DEF Save
  <2> HIDE DEF c
  <2>4. QED
    BY <1>1, <1>5, <2>1, <2>2, <2>3, CollectTyped DEF Save
<1>6. CASE Fails(r)
  BY <1>1, <1>6, NoCollectType, CollectTyped DEF Fails
<1>7. CASE List(r)
  <2> DEFINE total  == Cardinality({k \in LineNo : rows[k] # NoRow})
             limits == CurrentLimits(LatestObserved, now)
             c      == [NoCollect EXCEPT !.step = "quota", !.began = collect[r].began,
                                         !.built = now, !.total = total, !.limits = limits]
  <2>1. total \in 0..MaxLines
    BY LocalConstants, Within DEF LineNo
  <2>2. limits \in Limits
    BY <1>1, ObservedType, CurrentType
  <2> HIDE DEF total, limits
  <2>3. c \in Collects
    BY <1>1, <2>1, <2>2, NoCollectType DEF Collects, Steps, TypeInv, TypeOK, ClientTypeOK
  <2>4. collect' = [collect EXCEPT ![r] = c]
    BY <1>7 DEF List, total, limits
  <2> HIDE DEF c
  <2>5. QED
    BY <1>1, <1>7, <2>3, <2>4, CollectTyped DEF List
<1>8. QED
  BY <1>2, <1>3, <1>4, <1>5, <1>6, <1>7
---------------------------------------------------------------------------
(* The clients, and the environment.                                       *)

\* What a step of a client keeps typed.
ClientTyped == ClientTypeOK /\ FetchesGoOn

LEMMA ClientOf == TypeInv => ClientTyped /\ setup \in Setups
BY DEF TypeInv, TypeOK, ClientTyped

LEMMA StartTyped ==
  ASSUME TypeInv, upstream = setup.upstream, NEW r \in Run, StartFetch(r), now' = now
  PROVE  ClientTyped'
<1>1. /\ cache \in [at : Moments \cup {Never}, limits : Limits] /\ now \in Moments
      /\ goodPath \in PathSet \cup {"none"} /\ ClientTypeOK
  BY DEF TypeInv, TypeOK, ClientTypeOK
<1>2. CASE \E limits \in Limits, found \in BOOLEAN : Return(r, limits, found)
  BY <1>1, <1>2, ReturnTyped DEF StartFetch, ClientTyped, ClientTypeOK
<1>3. CASE fetch' = [fetch EXCEPT ![r] = [NoFetch EXCEPT !.step = "sent", !.started = now,
                                                         !.left = OrderedPaths]]
  <2> DEFINE f == [NoFetch EXCEPT !.step = "sent", !.started = now, !.left = OrderedPaths]
  <2>1. f \in Fetch /\ f.left # <<>>
    BY <1>1, NoFetchType, PathsType DEF Fetch
  <2> HIDE DEF f
  <2>2. fetch' \in [Run -> Fetch] /\ FetchesGoOn'
    BY <1>3, <2>1, FetchTyped DEF f
  <2>3. QED
    BY <1>1, <2>2 DEF StartFetch, ClientTyped, ClientTypeOK
<1>4. QED
  BY <1>1, <1>2, <1>3, NoLimitsType DEF StartFetch

LEMMA RespondTyped ==
  ASSUME TypeInv, upstream = setup.upstream, NEW r \in Run, Respond(r), now' = now
  PROVE  ClientTyped'
<1>1. fetch[r] \in Fetch /\ fetch[r].step = "sent" /\ fetch[r].left # <<>> /\ now \in Moments
      /\ ClientTypeOK /\ fetch \in [Run -> Fetch]
  BY DEF Respond, TypeInv, TypeOK, ClientTypeOK, FetchesGoOn
<1>2. PICK answer \in upstream.answers \ {"no_token"} :
        fetch' = [fetch EXCEPT ![r].step = "answered", ![r].answer = answer,
                               ![r].limits = IF answer = "ok" THEN upstream.limits[now]
                                                              ELSE NoLimits]
  BY DEF Respond
<1> DEFINE limits == IF answer = "ok" THEN upstream.limits[now] ELSE NoLimits
           f == [fetch[r] EXCEPT !.step = "answered", !.answer = answer, !.limits = limits]
<1>3. answer \in Answers /\ limits \in Limits
  BY <1>1, SetupType, ClientOf, NoLimitsType
<1> HIDE DEF limits
<1>4. f \in Fetch /\ f.left # <<>>
  BY <1>1, <1>3 DEF Fetch
<1>5. fetch' = [fetch EXCEPT ![r] = f]
  BY <1>1, <1>2 DEF limits
<1> HIDE DEF f
<1>6. fetch' \in [Run -> Fetch] /\ FetchesGoOn'
  BY <1>4, <1>5, FetchTyped
<1>7. QED
  BY <1>1, <1>6 DEF Respond, ClientTyped, ClientTypeOK

LEMMA FailTyped ==
  ASSUME TypeInv, NEW r \in Run, now' = now, NEW why \in Statuses, Fail(r, why),
         \/ breaker' = breaker
         \/ OpenBreaker(r, why, RateLimitTTL)
         \/ OpenBreaker(r, why, TransportTTL)
         \/ OpenBreaker(r, why, NotFoundTTL),
         limited' \in {limited, now}
  PROVE  ClientTyped'
<1>1. now \in Moments /\ ClientTypeOK
  BY DEF TypeInv, TypeOK, ClientTypeOK
<1>2. fetch' \in [Run -> Fetch] /\ FetchesGoOn'
  BY NoLimitsType, ReturnTyped DEF Fail
<1>3. breaker' \in [until : Nat \cup {Never}, status : Statuses]
  BY <1>1, QuotaConstants DEF OpenBreaker, ClientTypeOK
<1>4. QED
  BY <1>1, <1>2, <1>3 DEF Fail, ClientTyped, ClientTypeOK

LEMMA HandleTyped ==
  ASSUME TypeInv, NEW r \in Run, Handle(r), now' = now
  PROVE  ClientTyped'
<1>1. /\ fetch[r] \in Fetch /\ fetch[r].step = "answered" /\ fetch[r].left # <<>>
      /\ now \in Moments /\ ClientTypeOK /\ fetch \in [Run -> Fetch]
  BY DEF Handle, Ok, Unauthorized, RateLimited, Unavailable, Unexpected, NotFound, Answered,
         TypeInv, TypeOK, ClientTypeOK, FetchesGoOn
<1>2. CASE Ok(r)
  <2>1. fetch[r].limits \in Limits /\ fetch[r].started \in Moments /\ Head(fetch[r].left) \in PathSet
    BY <1>1 DEF Fetch
  <2>2. fetch' \in [Run -> Fetch] /\ FetchesGoOn'
    BY <1>2, <2>1, ReturnTyped DEF Ok
  <2>3. QED
    BY <1>1, <1>2, <2>1, <2>2 DEF Ok, ClientTyped, ClientTypeOK
<1>4. CASE NotFound(r) /\ Len(fetch[r].left) > 1
  <2> DEFINE f == [fetch[r] EXCEPT !.step = "sent", !.left = Tail(@)]
  <2>1. Tail(fetch[r].left) \in Seq(PathSet) /\ Len(Tail(fetch[r].left)) > 0
    BY <1>1, <1>4 DEF Fetch
  <2>2. Tail(fetch[r].left) # <<>>
    BY <2>1, NotEmpty, Zenon
  <2>3. f \in Fetch /\ f.left # <<>>
    BY <1>1, <2>1, <2>2 DEF Fetch
  <2>4. fetch' = [fetch EXCEPT ![r] = f]
    BY <1>1, <1>4 DEF NotFound
  <2> HIDE DEF f
  <2>5. fetch' \in [Run -> Fetch] /\ FetchesGoOn'
    BY <2>3, <2>4, FetchTyped
  <2>6. QED
    BY <1>1, <1>4, <2>5 DEF NotFound, ClientTyped, ClientTypeOK
<1>5. CASE Unauthorized(r) \/ Unexpected(r)
  <2>1. PICK why \in {"unauthorized", "transport_error"} : Fail(r, why)
    BY <1>5 DEF Unauthorized, Unexpected
  <2>2. UNCHANGED <<breaker, limited>>
    BY <1>5 DEF Unauthorized, Unexpected
  <2>3. QED
    BY <2>1, <2>2, FailTyped DEF Statuses
<1>6. CASE RateLimited(r)
  <2>1. Fail(r, "rate_limited") /\ OpenBreaker(r, "rate_limited", RateLimitTTL) /\ limited' = now
    BY <1>6 DEF RateLimited
  <2>2. QED
    BY <2>1, FailTyped DEF Statuses
<1>7. CASE Unavailable(r)
  <2>1. /\ Fail(r, "transport_error") /\ OpenBreaker(r, "transport_error", TransportTTL)
        /\ limited' = limited
    BY <1>7 DEF Unavailable
  <2>2. QED
    BY <2>1, FailTyped DEF Statuses
<1>8. CASE NotFound(r) /\ ~ (Len(fetch[r].left) > 1)
  <2>1. /\ Fail(r, "endpoint_404") /\ OpenBreaker(r, "endpoint_404", NotFoundTTL)
        /\ limited' = limited
    BY <1>8 DEF NotFound
  <2>2. QED
    BY <2>1, FailTyped DEF Statuses
<1>9. QED
  BY <1>2, <1>4, <1>5, <1>6, <1>7, <1>8 DEF Handle

LEMMA ReportTyped ==
  ASSUME TypeInv, NEW r \in Run, FetchReport(r), now' = now
  PROVE  ClientTyped'
<1>1. ASSUME NEW report \in LatestReports
      PROVE  Reported(report, now) \in Limits
  <2>1. report \in Reports
    BY DEF LatestReports, TypeInv, TypeOK
  <2>2. [five |-> report.five, week |-> report.week] \in Limits
    BY <2>1 DEF Reports, Limits
  <2>3. QED
    BY <2>2, CurrentType, NoLimitsType DEF Reported
<1>2. \E limits \in Limits : Return(r, limits, limits # NoLimits)
  BY <1>1, NoLimitsType DEF FetchReport
<1>3. fetch' \in [Run -> Fetch] /\ FetchesGoOn'
  BY <1>2, ReturnTyped
<1>4. QED
  BY <1>3 DEF FetchReport, TypeInv, TypeOK, ClientTypeOK, ClientTyped
\* The collect's own state is typed as before.
OwnTyped ==
  /\ setup \in Setups /\ log \in Log /\ Len(log.lines) <= MaxLines
  /\ ps \in ParseState \cup {NoState}
  /\ rows \in [LineNo -> Row \cup {NoRow}]
  /\ reports \in [setup.machines -> Reports \cup {NoReport}]
  /\ collect \in [Run -> Collects]
  /\ shown \in [total : 0..MaxLines, began : 0..MaxLines, built : Moments,
                 five : QuotaItems, week : QuotaItems]

LEMMA TypeParts == TypeInv <=> ClientTyped /\ OwnTyped
BY DEF TypeInv, TypeOK, ClientTyped, OwnTyped

LEMMA TypePartsNext == ClientTyped' /\ OwnTyped' => TypeInv'
BY DEF TypeInv, TypeOK, ClientTyped, OwnTyped

LEMMA AroundSteps ==
  ASSUME TypeInv,
         \/ Time \/ AppendLine \/ ReplaceLog
         \/ \E k \in LineNo : PushRecord(k)
         \/ \E m \in setup.machines : Push(m)
  PROVE  TypeInv'
<1>1. ClientTyped /\ OwnTyped /\ now \in Moments
  BY TypeParts DEF ClientTyped, ClientTypeOK
<1>2. CASE Time
  <2>1. now' \in Moments
    BY <1>1, <1>2, QuotaConstants DEF Time, Tick
  <2>2. ClientTyped' /\ OwnTyped'
    BY <1>1, <1>2, <2>1
       DEF Time, clientVars, localVars, ClientTyped, ClientTypeOK, FetchesGoOn, OwnTyped
  <2>3. QED
    BY <2>2, TypePartsNext
<1>3. ASSUME UNCHANGED <<now, clientVars>>
      PROVE  ClientTyped'
  BY <1>1, <1>3 DEF clientVars, ClientTyped, ClientTypeOK, FetchesGoOn
<1>4. CASE AppendLine
  <2>1. PICK usage \in setup.usage :
           WriteLog([log EXCEPT !.lines = Append(@, [usage |-> usage, model |-> NoModel]),
                                !.mtime = @ + 1])
    BY <1>4 DEF AppendLine
  <2> DEFINE line == [usage |-> usage, model |-> NoModel]
             lines == Append(log.lines, line)
             mtime == log.mtime + 1
             file == [log EXCEPT !.lines = lines, !.mtime = mtime]
  <2>2. line \in Line
    BY <1>1, SetupType DEF OwnTyped, Line
  <2> HIDE DEF line
  <2>3. /\ log \in [exists : BOOLEAN, lines : Seq(Line), cut : 1..W, mtime : Nat]
        /\ Len(log.lines) < MaxLines
    BY <1>1, <1>4 DEF OwnTyped, Log, AppendLine
  <2>4. lines \in Seq(Line) /\ Len(lines) = Len(log.lines) + 1 /\ mtime \in Nat
    BY <2>2, <2>3
  <2> HIDE DEF lines, mtime
  <2>5. /\ file \in [exists : BOOLEAN, lines : Seq(Line), cut : 1..W, mtime : Nat]
        /\ file.lines = lines
    BY <2>3, <2>4
  <2> HIDE DEF file
  <2>6. file \in Log /\ Len(file.lines) <= MaxLines
    BY <2>3, <2>4, <2>5, LocalConstants DEF Log
  <2>7. WriteLog(file)
    BY <2>1 DEF file, line, lines, mtime
  <2>8. OwnTyped'
    BY <1>1, <2>6, <2>7 DEF WriteLog, OwnTyped
  <2>9. QED
    BY <1>3, <2>7, <2>8, TypePartsNext DEF WriteLog
<1>5. CASE ReplaceLog
  <2> DEFINE file == [EmptyLog EXCEPT !.mtime = log.mtime + 1]
  <2>1. file \in Log /\ Len(file.lines) <= MaxLines
    <3>1. EmptyLog \in Log /\ EmptyLog.lines = <<>> /\ EmptyLog.cut = W
      BY DEF EmptyLog, Log, W
    <3>2. log.mtime \in Nat
      BY <1>1 DEF OwnTyped, Log
    <3>3. file \in Log /\ file.lines = <<>>
      BY <3>1, <3>2 DEF Log
    <3>4. QED
      BY <3>3, LocalConstants
  <2> HIDE DEF file
  <2>2. WriteLog(file)
    BY <1>5 DEF ReplaceLog, file
  <2>3. OwnTyped'
    BY <1>1, <2>1, <2>2 DEF WriteLog, OwnTyped
  <2>4. QED
    BY <1>3, <2>2, <2>3, TypePartsNext DEF WriteLog
<1>6. CASE \E k \in LineNo : PushRecord(k)
  <2>1. PICK k \in LineNo : PushRecord(k)
    BY <1>6
  <2>2. PICK usage \in setup.usage :
          rows' = [rows EXCEPT ![k] = IF usage = NoUsage THEN NoRow
                                      ELSE [usage |-> usage, model |-> NoModel, parser |-> Version]]
    BY <2>1 DEF PushRecord
  <2>3. rows' \in [LineNo -> Row \cup {NoRow}]
    BY <1>1, <2>2, SetupType DEF OwnTyped, Row, Version
  <2>4. OwnTyped'
    BY <1>1, <2>1, <2>3 DEF PushRecord, OwnTyped
  <2>5. QED
    BY <1>3, <2>1, <2>4, TypePartsNext DEF PushRecord
<1>7. CASE \E m \in setup.machines : Push(m)
  <2>1. PICK m \in setup.machines : Push(m)
    BY <1>7
  <2>2. PICK five \in {NoObs, [reset |-> now + 1, seen |-> now]} :
          reports' = [reports EXCEPT ![m] = [five |-> five, at |-> now,
                                             week |-> [reset |-> now + 3, seen |-> now]]]
    BY <2>1 DEF Push
  <2>3. reports' \in [setup.machines -> Reports \cup {NoReport}]
    BY <1>1, <2>2 DEF OwnTyped, Reports, Obs
  <2>4. OwnTyped'
    BY <1>1, <2>1, <2>3 DEF Push, OwnTyped
  <2>5. QED
    BY <1>3, <2>1, <2>4, TypePartsNext DEF Push
<1>8. QED
  BY <1>2, <1>4, <1>5, <1>6, <1>7
LEMMA ItemType ==
  ASSUME NEW own \in Obs \cup {NoObs}, NEW fetched \in Obs \cup {NoObs}
  PROVE  Item(own, fetched) \in QuotaItems
BY DEF Item, QuotaItems, NoItem

\* One window of an item says what the log or the fetch said of it.
LEMMA ItemSays ==
  ASSUME NEW own, NEW fetched, Item(own, fetched).from # "estimated"
  PROVE  \/ Item(own, fetched) = [obs |-> own, from |-> "log"] /\ own # NoObs
         \/ Item(own, fetched) = [obs |-> fetched, from |-> "fetched"] /\ fetched # NoObs
BY DEF Item, NoItem

LEMMA ClientSteps2 ==
  ASSUME TypeInv, upstream = setup.upstream, NEW r \in Run, Ask(r) \/ Fetching(r)
  PROVE  TypeInv'
<1>1. ClientTyped'
  BY StartTyped, RespondTyped, HandleTyped, ReportTyped DEF Ask, Fetching
<1>2. OwnTyped
  BY TypeParts
<1>3. CASE Ask(r)
  <2> DEFINE c == [collect[r] EXCEPT !.step = "fetch"]
  <2>1. collect \in [Run -> Collects] /\ collect[r] \in Collects
    BY <1>2 DEF OwnTyped
  <2>2. c \in Collects
    BY <2>1 DEF Collects, Steps
  <2>3. collect' = [collect EXCEPT ![r] = c]
    BY <1>3, <2>1 DEF Ask, Goes
  <2> HIDE DEF c
  <2>4. collect' \in [Run -> Collects]
    BY <2>1, <2>2, <2>3
  <2>5. OwnTyped'
    BY <1>2, <1>3, <2>4 DEF Ask, OwnTyped
  <2>6. QED
    BY <1>1, <2>5, TypePartsNext
<1>4. CASE Fetching(r)
  <2>1. OwnTyped'
    BY <1>2, <1>4 DEF Fetching, OwnTyped, localVars
  <2>2. QED
    BY <1>1, <2>1, TypePartsNext
<1>5. QED
  BY <1>3, <1>4

LEMMA FinishTyped ==
  ASSUME TypeInv, NEW r \in Run, Finish(r)
  PROVE  TypeInv'
<1>1. ClientTyped /\ OwnTyped /\ collect[r] \in Collects /\ fetch \in [Run -> Fetch]
  BY TypeParts DEF OwnTyped, ClientTyped, ClientTypeOK
<1>2. PICK fetched \in Limits : Items(r, fetched) /\ (fetch' = fetch \/ fetch' = [fetch EXCEPT ![r] = NoFetch])
  <2>1. CurrentLimits(fetch[r].limits, collect[r].built) \in Limits
    BY <1>1, CurrentType DEF Fetch
  <2>2. QED
    BY <2>1, NoLimitsType DEF Finish
<1>3. fetch' \in [Run -> Fetch] /\ FetchesGoOn'
  <2>1. NoFetch.step = "none"
    BY DEF NoFetch
  <2>2. CASE fetch' = fetch
    BY <1>1, <2>2 DEF ClientTyped, FetchesGoOn
  <2>3. CASE fetch' = [fetch EXCEPT ![r] = NoFetch]
    BY <2>1, <2>3, NoFetchType, FetchTyped
  <2>4. QED
    BY <1>2, <2>2, <2>3
<1>4. ClientTyped'
  BY <1>1, <1>2, <1>3 DEF Items, ClientTyped, ClientTypeOK
<1>5. collect' \in [Run -> Collects]
  BY <1>1, <1>2, NoCollectType DEF Items, OwnTyped
<1>6. shown' \in [total : 0..MaxLines, began : 0..MaxLines, built : Moments,
                  five : QuotaItems, week : QuotaItems]
  <2>1. /\ Item(collect[r].limits.five, fetched.five) \in QuotaItems
        /\ Item(collect[r].limits.week, fetched.week) \in QuotaItems
    BY <1>1, ItemType DEF Collects, Limits
  <2>2. QED
    BY <1>1, <1>2, <2>1 DEF Items, Collects
<1>7. OwnTyped'
  BY <1>1, <1>2, <1>5, <1>6 DEF Items, OwnTyped
<1>8. QED
  BY <1>4, <1>7, TypePartsNext

LEMMA TypeStep ==
  ASSUME TypeInv, upstream = setup.upstream, [Next]_vars
  PROVE  TypeInv' /\ upstream' = setup'.upstream /\ setup' = setup
<1>1. CASE UNCHANGED vars
  BY <1>1 DEF vars, clientVars, localVars, TypeInv, TypeOK, ClientTypeOK, FetchesGoOn
<1>2. CASE \/ Time \/ AppendLine \/ ReplaceLog
           \/ \E k \in LineNo : PushRecord(k)
           \/ \E m \in setup.machines : Push(m)
  <2>1. UNCHANGED <<setup, upstream>>
    BY <1>2 DEF Time, AppendLine, ReplaceLog, WriteLog, PushRecord, Push
  <2>2. QED
    BY <1>2, <2>1, AroundSteps
<1>3. ASSUME NEW r \in Run, Begin(r) \/ Collect(r)
      PROVE  TypeInv' /\ UNCHANGED <<setup, upstream>>
  <2>1. CASE Begin(r) \/ Stat(r) \/ Read(r) \/ Save(r) \/ Fails(r) \/ List(r)
    <3>1. UNCHANGED <<setup, upstream>>
      BY <2>1 DEF Begin, Stat, Read, Save, Fails, List
    <3>2. QED
      BY <2>1, <3>1, ScanSteps
  <2>2. CASE Ask(r) \/ Fetching(r)
    <3>1. UNCHANGED <<setup, upstream>>
      BY <2>2 DEF Ask, Fetching
    <3>2. QED
      BY <2>2, <3>1, ClientSteps2
  <2>3. CASE Finish(r)
    <3>1. UNCHANGED <<setup, upstream>>
      BY <2>3 DEF Finish, Items
    <3>2. QED
      BY <2>3, <3>1, FinishTyped
  <2>4. QED
    BY <1>3, <2>1, <2>2, <2>3 DEF Collect
<1>4. CASE \E r \in Run : Begin(r) \/ Collect(r)
  BY <1>3, <1>4
<1>5. QED
  BY <1>1, <1>2, <1>4 DEF Next

LEMMA TypeStart == Init => TypeInv /\ upstream = setup.upstream
<1> SUFFICES ASSUME Init PROVE TypeInv /\ upstream = setup.upstream
  OBVIOUS
<1>1. setup \in Setups /\ upstream = setup.upstream /\ log = [EmptyLog EXCEPT !.lines = setup.lines]
  BY DEF Init
<1>2. log \in Log /\ Len(log.lines) <= MaxLines
  <2>1. setup.lines \in Seq(Line) /\ Len(setup.lines) <= MaxLines
    BY <1>1, SetupType
  <2>2. EmptyLog \in [exists : BOOLEAN, lines : Seq(Line), cut : 1..W, mtime : Nat] /\ EmptyLog.cut = W
    BY DEF EmptyLog, W
  <2>3. /\ log \in [exists : BOOLEAN, lines : Seq(Line), cut : 1..W, mtime : Nat]
        /\ log.cut = W /\ log.lines = setup.lines
    BY <1>1, <2>1, <2>2
  <2>4. QED
    BY <2>1, <2>3 DEF Log
<1>3. ClientTyped
  <2>1. 0 \in Moments /\ NoLimits \in Limits
    BY QuotaConstants, NoLimitsType
  <2>2. fetch \in [Run -> Fetch] /\ FetchesGoOn
    BY NoFetchType DEF Init, ClientInit, FetchesGoOn, NoFetch
  <2>3. QED
    BY <2>1, <2>2 DEF Init, ClientInit, ClientTyped, ClientTypeOK, Statuses
<1>4. OwnTyped
  <2>1. NoItem \in QuotaItems /\ 0 \in Moments /\ 0 \in 0..MaxLines
    BY QuotaConstants, LocalConstants DEF NoItem, QuotaItems
  <2>2. QED
    BY <1>1, <1>2, <2>1, NoCollectType, EmptyRows DEF Init, OwnTyped
<1>5. QED
  BY <1>1, <1>3, <1>4, TypeParts

\* The state is typed in every reachable state, for any number of collects and machines,
\* any lines, intervals and answers.
THEOREM Typed == Spec => []TypeOK
<1>1. Init => TypeInv /\ upstream = setup.upstream
  BY TypeStart
<1>2. (TypeInv /\ upstream = setup.upstream) /\ [Next]_vars => (TypeInv /\ upstream = setup.upstream)'
  BY TypeStep
<1>3. TypeInv => TypeOK
  BY DEF TypeInv
<1>4. QED
  BY <1>1, <1>2, <1>3, PTL DEF Spec
---------------------------------------------------------------------------
(* Quotas served again.                                                    *)

\* What is known of a window was seen at a moment or later.
SeenFrom(limits, t) ==
  \A obs \in {limits.five, limits.week} : obs # NoObs => obs.seen >= t

\* The cached quota is not older than its stamp, an answer not older than its fetch; only
\* a fetch that returned has found something.
RecentInv ==
  /\ SeenFrom(cache.limits, cache.at)
  /\ \A r \in Run :
       /\ fetch[r].step \in {"sent", "answered"} => fetch[r].started <= now
       /\ fetch[r].step = "answered" /\ fetch[r].answer = "ok" =>
            SeenFrom(fetch[r].limits, fetch[r].started)
       /\ fetch[r].step # "returned" => ~fetch[r].ok

LEMMA NothingSeen == ASSUME NEW t PROVE SeenFrom(NoLimits, t)
BY DEF SeenFrom, NoLimits

LEMMA RecentStep ==
  ASSUME TypeInv, upstream = setup.upstream, RecentInv, [Next]_vars
  PROVE  RecentInv'
<1>1. /\ fetch \in [Run -> Fetch] /\ now \in Moments /\ setup \in Setups
      /\ cache \in [at : Moments \cup {Never}, limits : Limits]
  BY DEF TypeInv, TypeOK, ClientTypeOK
<1>2. NoFetch.step = "none" /\ ~NoFetch.ok
  BY DEF NoFetch
<1>3. ASSUME UNCHANGED cache, now' \in {now, now + 1}, NEW r \in Run, NEW f,
             fetch' = [fetch EXCEPT ![r] = f],
             f.step \in {"sent", "answered"} => f.started <= now',
             f.step = "answered" /\ f.answer = "ok" => SeenFrom(f.limits, f.started),
             f.step # "returned" => ~f.ok
      PROVE  RecentInv'
  <2>1. \A q \in Run : fetch'[q] = IF q = r THEN f ELSE fetch[q]
    BY <1>1, <1>3
  <2>2. ASSUME NEW q \in Run
        PROVE  /\ fetch'[q].step \in {"sent", "answered"} => fetch'[q].started <= now'
               /\ fetch'[q].step = "answered" /\ fetch'[q].answer = "ok" =>
                    SeenFrom(fetch'[q].limits, fetch'[q].started)
               /\ fetch'[q].step # "returned" => ~fetch'[q].ok
    <3>1. CASE q = r
      BY <1>3, <2>1, <3>1
    <3>2. CASE q # r
      <4>1. fetch'[q] = fetch[q] /\ fetch[q].started \in Moments
        BY <1>1, <2>1, <3>2 DEF Fetch
      <4>2. QED
        BY <1>1, <1>3, <4>1 DEF RecentInv
    <3>3. QED
      BY <3>1, <3>2
  <2>3. QED
    BY <1>3, <2>2 DEF RecentInv, SeenFrom
<1>4. ASSUME UNCHANGED <<cache, fetch>>, now' \in {now, now + 1}
      PROVE  RecentInv'
  <2>1. \A r \in Run : fetch[r].started \in Moments
    BY <1>1 DEF Fetch
  <2>2. QED
    BY <1>1, <1>4, <2>1 DEF RecentInv, SeenFrom
<1>5. ASSUME NEW r \in Run, NEW limits, NEW found, Return(r, limits, found), UNCHANGED cache,
             now' = now
      PROVE  RecentInv'
  <2> DEFINE f == [NoFetch EXCEPT !.step = "returned", !.limits = limits, !.ok = found]
  <2>1. f.step = "returned" /\ fetch' = [fetch EXCEPT ![r] = f]
    BY <1>5 DEF Return, NoFetch
  <2> HIDE DEF f
  <2>2. QED
    BY <1>3, <1>5, <2>1
<1>6. ASSUME NEW r \in Run, StartFetch(r), now' = now
      PROVE  RecentInv'
  <2>1. CASE \E limits, found : Return(r, limits, found)
    BY <1>5, <1>6, <2>1 DEF StartFetch
  <2>2. CASE fetch' = [fetch EXCEPT ![r] = [NoFetch EXCEPT !.step = "sent", !.started = now,
                                                           !.left = OrderedPaths]]
    <3> DEFINE f == [NoFetch EXCEPT !.step = "sent", !.started = now, !.left = OrderedPaths]
    <3>1. f.step = "sent" /\ f.started = now /\ ~f.ok
      BY DEF NoFetch
    <3>2. fetch' = [fetch EXCEPT ![r] = f] /\ UNCHANGED cache
      BY <1>6, <2>2 DEF StartFetch
    <3> HIDE DEF f
    <3>3. f.started <= now' /\ now' \in {now, now + 1}
      BY <1>1, <1>6, <3>1
    <3>4. QED
      BY <1>3, <3>1, <3>2, <3>3
  <2>3. QED
    BY <1>6, <2>1, <2>2 DEF StartFetch
<1>7. ASSUME NEW r \in Run, Respond(r), now' = now
      PROVE  RecentInv'
  <2>1. PICK answer \in upstream.answers \ {"no_token"} :
          fetch' = [fetch EXCEPT ![r].step = "answered", ![r].answer = answer,
                                 ![r].limits = IF answer = "ok" THEN upstream.limits[now]
                                                                ELSE NoLimits]
    BY <1>7 DEF Respond
  <2> DEFINE limits == IF answer = "ok" THEN upstream.limits[now] ELSE NoLimits
             f == [fetch[r] EXCEPT !.step = "answered", !.answer = answer, !.limits = limits]
  <2>2. /\ f.step = "answered" /\ f.answer = answer /\ f.limits = limits
        /\ f.started = fetch[r].started /\ f.ok = fetch[r].ok
    BY <1>1 DEF Fetch
  <2>3. fetch' = [fetch EXCEPT ![r] = f]
    BY <1>1, <2>1
  <2>4. fetch[r].step = "sent" /\ fetch[r].started <= now /\ ~fetch[r].ok /\ fetch[r].started \in Moments
    BY <1>1, <1>7 DEF Respond, RecentInv, Fetch
  <2>5. answer = "ok" => SeenFrom(limits, fetch[r].started)
    BY <1>1, <2>4, LocalConstants DEF SeenFrom
  <2> HIDE DEF f, limits
  <2>6. QED
    BY <1>3, <1>7, <2>2, <2>3, <2>4, <2>5 DEF Respond
<1>8. ASSUME NEW r \in Run, Handle(r), now' = now
      PROVE  RecentInv'
  <2>1. CASE Ok(r)
    <3>1. fetch[r].step = "answered" /\ fetch[r].answer = "ok"
      BY <2>1 DEF Ok, Answered
    <3>2. /\ cache' = [at |-> fetch[r].started, limits |-> fetch[r].limits]
          /\ Return(r, fetch[r].limits, TRUE)
      BY <2>1 DEF Ok
    <3>3. SeenFrom(cache'.limits, cache'.at)
      BY <3>1, <3>2 DEF RecentInv
    <3> DEFINE f == [NoFetch EXCEPT !.step = "returned", !.limits = fetch[r].limits, !.ok = TRUE]
    <3>4. f.step = "returned" /\ fetch' = [fetch EXCEPT ![r] = f]
      BY <3>2 DEF Return, NoFetch
    <3> HIDE DEF f
    <3>5. \A q \in Run : fetch'[q] = IF q = r THEN f ELSE fetch[q]
      BY <1>1, <3>4
    <3>6. ASSUME NEW q \in Run
          PROVE  /\ fetch'[q].step \in {"sent", "answered"} => fetch'[q].started <= now'
                 /\ fetch'[q].step = "answered" /\ fetch'[q].answer = "ok" =>
                      SeenFrom(fetch'[q].limits, fetch'[q].started)
                 /\ fetch'[q].step # "returned" => ~fetch'[q].ok
      <4>1. CASE q = r
        BY <3>4, <3>5, <4>1
      <4>2. CASE q # r
        BY <1>8, <3>5, <4>2 DEF RecentInv
      <4>3. QED
        BY <4>1, <4>2
    <3>7. QED
      BY <3>3, <3>6 DEF RecentInv, SeenFrom
  <2>2. CASE \E why : Fail(r, why)
    BY <1>5, <1>8, <2>2 DEF Fail
  <2>3. CASE NotFound(r) /\ Len(fetch[r].left) > 1
    <3> DEFINE f == [fetch[r] EXCEPT !.step = "sent", !.left = Tail(@)]
    <3>1. fetch' = [fetch EXCEPT ![r] = f] /\ UNCHANGED cache
      BY <1>1, <2>3 DEF NotFound
    <3>2. f.step = "sent" /\ f.started = fetch[r].started /\ f.ok = fetch[r].ok
      BY <1>1 DEF Fetch
    <3> HIDE DEF f
    <3>3. fetch[r].step = "answered" /\ ~fetch[r].ok /\ fetch[r].started <= now
      BY <2>3 DEF NotFound, Answered, RecentInv
    <3>4. QED
      BY <1>3, <1>8, <3>1, <3>2, <3>3
  <2>4. QED
    BY <1>8, <2>1, <2>2, <2>3
       DEF Handle, Unauthorized, RateLimited, Unavailable, Unexpected, NotFound
<1>9. ASSUME NEW r \in Run, FetchReport(r), now' = now
      PROVE  RecentInv'
  BY <1>5, <1>9 DEF FetchReport<1>10. ASSUME NEW r \in Run, fetch' = [fetch EXCEPT ![r] = NoFetch], UNCHANGED cache, now' = now
      PROVE  RecentInv'
  BY <1>2, <1>3, <1>10
<1>11. QED
  BY <1>4, <1>6, <1>7, <1>8, <1>9, <1>10, ClientSteps
LEMMA RecentStart == Init => RecentInv
<1> SUFFICES ASSUME Init PROVE RecentInv
  OBVIOUS
<1>1. cache.limits = NoLimits /\ \A r \in Run : fetch[r] = NoFetch
  BY DEF Init, ClientInit
<1>2. NoFetch.step = "none" /\ ~NoFetch.ok
  BY DEF NoFetch
<1>3. QED
  BY <1>1, <1>2, NothingSeen DEF RecentInv

\* A fetch that returns at once what it found returns the cached quota.
LEMMA ServedAgain ==
  ASSUME TypeInv, RecentInv, [Next]_vars, NEW r \in Run,
         setup.fetcher = "online", fetch[r].step = "none", fetch'[r].ok
  PROVE  fetch'[r].limits = cache.limits /\ Cached(now)
<1>1. fetch \in [Run -> Fetch] /\ ~fetch[r].ok
  BY DEF TypeInv, TypeOK, ClientTypeOK, RecentInv
<1>2. fetch'[r] # fetch[r]
  BY <1>1
<1>3. ASSUME NEW q \in Run, NEW f, fetch' = [fetch EXCEPT ![q] = f]
      PROVE  f = fetch'[r] /\ r = q
  BY <1>1, <1>2, <1>3
<1>4. ASSUME NEW q \in Run, NEW limits, NEW found, Return(q, limits, found)
      PROVE  fetch'[r].limits = limits /\ found
  <2> DEFINE f == [NoFetch EXCEPT !.step = "returned", !.limits = limits, !.ok = found]
  <2>1. f.limits = limits /\ f.ok = found
    BY DEF NoFetch
  <2>2. fetch' = [fetch EXCEPT ![q] = f]
    BY <1>4 DEF Return
  <2> HIDE DEF f
  <2>3. f = fetch'[r]
    BY <1>3, <2>2
  <2>4. QED
    BY <2>1, <2>3
<1>5. ASSUME NEW q \in Run, StartFetch(q)
      PROVE  fetch'[r].limits = cache.limits /\ Cached(now)
  <2>1. CASE Cached(now) /\ Return(q, cache.limits, TRUE)
    BY <1>4, <2>1
  <2>2. CASE Return(q, NoLimits, FALSE)
    BY <1>4, <2>2
  <2>3. CASE fetch' = [fetch EXCEPT ![q] = [NoFetch EXCEPT !.step = "sent", !.started = now,
                                                           !.left = OrderedPaths]]
    <3> DEFINE f == [NoFetch EXCEPT !.step = "sent", !.started = now, !.left = OrderedPaths]
    <3>1. ~f.ok
      BY DEF NoFetch
    <3> HIDE DEF f
    <3>2. f = fetch'[r]
      BY <1>3, <2>3 DEF f
    <3>3. QED
      BY <3>1, <3>2
  <2>4. QED
    BY <1>5, <2>1, <2>2, <2>3 DEF StartFetch
<1>6. ASSUME NEW q \in Run, Respond(q) \/ Handle(q)
      PROVE  FALSE
  <2>1. fetch[q].step \in {"sent", "answered"}
    BY <1>6 DEF Respond, Handle, Ok, Unauthorized, RateLimited, Unavailable, Unexpected, NotFound,
       Answered
  <2>2. q # r
    BY <2>1
  <2>3. fetch'[r] = fetch[r]
    BY <1>1, <1>6, <2>2 DEF Respond, Handle, Ok, Unauthorized, RateLimited, Unavailable, Unexpected,
       NotFound, Fail, Return
  <2>4. QED
    BY <1>2, <2>3
<1>7. ASSUME NEW q \in Run, fetch' = [fetch EXCEPT ![q] = NoFetch]
      PROVE  FALSE
  <2>1. ~NoFetch.ok
    BY DEF NoFetch
  <2>2. QED
    BY <1>3, <1>7, <2>1
<1>8. QED
  BY <1>2, <1>5, <1>6, <1>7, ClientSteps

\* A quota served from the cache is less than StaleAfter old, in whatever order overlapping
\* fetches of any number of collects store their answers (cachedResult, storeResult).
THEOREM CacheKeepsTime == Spec => CachedIsRecent
<1> DEFINE Inv == TypeInv /\ upstream = setup.upstream /\ RecentInv
           Recent == \A r \in Run :
                       setup.fetcher = "online" /\ fetch[r].step = "none" /\ fetch'[r].ok =>
                         \A obs \in {fetch'[r].limits.five, fetch'[r].limits.week} :
                           obs # NoObs => obs.seen + StaleAfter > now
<1>1. Init => Inv
  BY TypeStart, RecentStart
<1>2. Inv /\ [Next]_vars => Inv'
  BY TypeStep, RecentStep
<1>3. Inv /\ [Next]_vars => [Recent]_fetch
  <2>1. SUFFICES ASSUME Inv, [Next]_vars, NEW r \in Run, setup.fetcher = "online",
                        fetch[r].step = "none", fetch'[r].ok,
                        NEW obs \in {fetch'[r].limits.five, fetch'[r].limits.week}, obs # NoObs
                 PROVE  obs.seen + StaleAfter > now
    OBVIOUS
  <2>2. Cached(now) /\ obs \in {cache.limits.five, cache.limits.week}
    BY <2>1, ServedAgain
  <2>3. obs.seen >= cache.at /\ obs \in Obs
    BY <2>1, <2>2 DEF RecentInv, SeenFrom, TypeInv, TypeOK, ClientTypeOK, Limits
  <2>4. cache.at \in Int /\ now \in Int /\ StaleAfter \in Int /\ obs.seen \in Int
    BY <2>1, <2>3, QuotaConstants DEF TypeInv, TypeOK, ClientTypeOK, Obs, Never
  <2>5. QED
    BY <2>2, <2>3, <2>4 DEF Cached
<1>4. QED
  BY <1>1, <1>2, <1>3, PTL DEF Spec, CachedIsRecent
---------------------------------------------------------------------------
(* No expired quota is shown.                                              *)

\* No window had passed its reset at a moment.
Alive(limits, t) ==
  \A obs \in {limits.five, limits.week} :
    obs # NoObs /\ obs.reset # NoReset => obs.reset > t

\* The quota of a collect, and of a fetch that reads reports, when the items are built.
QuotaInv ==
  /\ \A r \in Run :
       collect[r].step \in {"quota", "fetch"} =>
         Alive(collect[r].limits, collect[r].built) /\ collect[r].built <= now
  /\ \A m \in setup.machines :
       reports[m] # NoReport => SeenFrom(reports[m], reports[m].at)
  /\ setup.fetcher = "store" =>
       \A r \in Run :
         /\ fetch[r].step \in {"none", "returned"}
         /\ collect[r].step = "fetch" => SeenFrom(fetch[r].limits, collect[r].built - ReportStale)
  /\ NoExpiredQuota

LEMMA CurrentAlive ==
  ASSUME NEW limits \in Limits, NEW t \in Int
  PROVE  /\ Alive(CurrentLimits(limits, t), t)
         /\ \A s : SeenFrom(limits, s) => SeenFrom(CurrentLimits(limits, t), s)
<1>1. ASSUME NEW obs \in Obs \cup {NoObs}
      PROVE  /\ Current(obs, t) \in {obs, NoObs}
             /\ Current(obs, t) # NoObs /\ Current(obs, t).reset # NoReset => Current(obs, t).reset > t
  BY DEF Current, Obs, NoReset
<1>2. limits.five \in Obs \cup {NoObs} /\ limits.week \in Obs \cup {NoObs}
  BY DEF Limits
<1>3. /\ CurrentLimits(limits, t).five = Current(limits.five, t)
      /\ CurrentLimits(limits, t).week = Current(limits.week, t)
  BY DEF CurrentLimits
<1>4. QED
  BY <1>1, <1>2, <1>3 DEF Alive, SeenFrom

\* A collect goes on, or ends, and nothing else changes.
LEMMA QuotaOfCollect ==
  ASSUME TypeInv, QuotaInv, NEW r \in Run, NEW c, collect' = [collect EXCEPT ![r] = c],
         UNCHANGED <<setup, now, reports, fetch, shown>>,
         c.step # "fetch",
         c.step = "quota" => Alive(c.limits, c.built) /\ c.built <= now
  PROVE  QuotaInv'
<1>1. \A q \in Run : collect'[q] = IF q = r THEN c ELSE collect[q]
  BY DEF TypeInv, TypeOK
<1>2. NoExpiredQuota'
  BY DEF QuotaInv, NoExpiredQuota, Windows
<1>3. \A q \in Run : collect'[q].step \in {"quota", "fetch"} =>
        Alive(collect'[q].limits, collect'[q].built) /\ collect'[q].built <= now'
  BY <1>1 DEF QuotaInv
<1>4. \A m \in setup'.machines : reports'[m] # NoReport => SeenFrom(reports'[m], reports'[m].at)
  BY DEF QuotaInv
<1>5. setup'.fetcher = "store" =>
        \A q \in Run :
          /\ fetch'[q].step \in {"none", "returned"}
          /\ collect'[q].step = "fetch" => SeenFrom(fetch'[q].limits, collect'[q].built - ReportStale)
  BY <1>1 DEF QuotaInv
<1>6. QED
  BY <1>2, <1>3, <1>4, <1>5 DEF QuotaInv, Alive, SeenFrom

LEMMA QuotaOfScan ==
  ASSUME TypeInv, QuotaInv, NEW r \in Run,
         Begin(r) \/ Stat(r) \/ Read(r) \/ Save(r) \/ Fails(r) \/ List(r)
  PROVE  QuotaInv'
<1>1. collect[r] \in Collects /\ now \in Int /\ rows \in [LineNo -> Row \cup {NoRow}]
      /\ collect \in [Run -> Collects]
  BY DEF TypeInv, TypeOK, ClientTypeOK
<1>2. UNCHANGED <<setup, now, reports, fetch, shown>>
  BY DEF Begin, Stat, Read, Save, Fails, List, clientVars
<1>3. CASE \E c : collect' = [collect EXCEPT ![r] = c] /\ c.step \notin {"quota", "fetch"}
  BY <1>2, <1>3, QuotaOfCollect
<1>4. CASE Begin(r)
  <2> DEFINE c == [NoCollect EXCEPT !.step = IF setup.mode = "remote" THEN "list" ELSE "stat",
                                    !.ps = ps, !.began = Used(log)]
  <2>1. c.step \in {"list", "stat"} /\ collect' = [collect EXCEPT ![r] = c]
    BY <1>4 DEF Begin, NoCollect
  <2> HIDE DEF c
  <2>2. QED
    BY <1>3, <2>1
<1>5. CASE Stat(r)
  <2>1. CASE Goes(r, "list")
    <3>1. [collect[r] EXCEPT !.step = "list"].step = "list"
      BY <1>1 DEF Collects
    <3>2. collect' = [collect EXCEPT ![r] = [collect[r] EXCEPT !.step = "list"]]
      BY <2>1, <1>1 DEF Goes
    <3>3. QED
      BY <1>3, <3>1, <3>2
  <2>2. CASE \E offset, due, mtime :
               collect' = [collect EXCEPT ![r].step = "read", ![r].offset = offset,
                                          ![r].reset = due, ![r].mtime = mtime]
    <3>1. PICK offset, due, mtime :
               collect' = [collect EXCEPT ![r].step = "read", ![r].offset = offset,
                                          ![r].reset = due, ![r].mtime = mtime]
      BY <2>2
    <3> DEFINE c == [collect[r] EXCEPT !.step = "read", !.offset = offset, !.reset = due,
                                       !.mtime = mtime]
    <3>2. c.step = "read" /\ collect' = [collect EXCEPT ![r] = c]
      BY <1>1, <3>1 DEF Collects
    <3> HIDE DEF c
    <3>3. QED
      BY <1>3, <3>2
  <2>3. QED
    BY <1>5, <2>1, <2>2 DEF Stat
<1>6. CASE Read(r)
  <2>1. PICK next, read :
          collect' = [collect EXCEPT ![r].step = "save", ![r].next = next, ![r].read = read]
    BY <1>6 DEF Read
  <2> DEFINE c == [collect[r] EXCEPT !.step = "save", !.next = next, !.read = read]
  <2>2. c.step = "save" /\ collect' = [collect EXCEPT ![r] = c]
    BY <1>1, <2>1 DEF Collects
  <2> HIDE DEF c
  <2>3. QED
    BY <1>3, <2>2
<1>7. CASE Save(r)
  <2> DEFINE c == [NoCollect EXCEPT !.step = "list", !.began = collect[r].began]
  <2>1. c.step = "list" /\ collect' = [collect EXCEPT ![r] = c]
    BY <1>7 DEF Save, NoCollect
  <2> HIDE DEF c
  <2>2. QED
    BY <1>3, <2>1
<1>8. CASE Fails(r)
  <2>1. NoCollect.step = "idle"
    BY DEF NoCollect
  <2>2. QED
    BY <1>3, <1>8, <2>1 DEF Fails
<1>9. CASE List(r)
  <2> DEFINE limits == CurrentLimits(LatestObserved, now)
             total  == Cardinality({k \in LineNo : rows[k] # NoRow})
             c      == [NoCollect EXCEPT !.step = "quota", !.began = collect[r].began,
                                         !.built = now, !.total = total, !.limits = limits]
  <2>1. Alive(limits, now)
    BY <1>1, ObservedType, CurrentAlive
  <2>2. collect' = [collect EXCEPT ![r] = c]
    BY <1>9 DEF List
  <2> HIDE DEF limits, total
  <2>3. c.step = "quota" /\ c.limits = limits /\ c.built = now
    BY DEF NoCollect
  <2> HIDE DEF c
  <2>4. c.step # "fetch" /\ Alive(c.limits, c.built) /\ c.built <= now
    BY <1>1, <2>1, <2>3
  <2>5. QED
    BY <1>2, <2>2, <2>4, QuotaOfCollect
<1>10. QED
  BY <1>4, <1>5, <1>6, <1>7, <1>8, <1>9
LEMMA QuotaOfReports ==
  ASSUME TypeInv, NEW r \in Run, FetchReport(r),
         \A m \in setup.machines : reports[m] # NoReport => SeenFrom(reports[m], reports[m].at)
  PROVE  \E limits, found : Return(r, limits, found) /\ SeenFrom(limits, now - ReportStale)
<1>1. now \in Int /\ ReportStale \in Int
  BY LocalConstants DEF TypeInv, TypeOK, ClientTypeOK
<1>2. PICK limits : /\ Return(r, limits, limits # NoLimits)
                    /\ \/ limits = NoLimits
                       \/ \E report \in LatestReports : limits = Reported(report, now)
  BY DEF FetchReport
<1>3. SeenFrom(limits, now - ReportStale)
  <2>1. CASE limits = NoLimits
    BY <2>1, NothingSeen
  <2>2. ASSUME NEW report \in LatestReports, limits = Reported(report, now)
        PROVE  SeenFrom(limits, now - ReportStale)
    <3>1. report \in Reports /\ SeenFrom(report, report.at)
      BY DEF LatestReports, TypeInv, TypeOK
    <3> DEFINE all == [five |-> report.five, week |-> report.week]
    <3>2. all \in Limits /\ report.at \in Int
      BY <3>1 DEF Reports, Limits
    <3>3. ASSUME now - report.at <= ReportStale
          PROVE  SeenFrom(all, now - ReportStale)
      <4>1. report.at >= now - ReportStale
        BY <1>1, <3>2, <3>3
      <4>2. \A obs \in {report.five, report.week} : obs # NoObs => obs.seen \in Int
        BY <3>1 DEF Reports, Obs
      <4>3. QED
        BY <1>1, <3>1, <3>2, <4>1, <4>2 DEF SeenFrom
    <3> HIDE DEF all
    <3>4. CASE now - report.at > ReportStale
      BY <2>2, <3>4, NothingSeen DEF Reported
    <3>5. CASE ~(now - report.at > ReportStale)
      <4>1. limits = CurrentLimits(all, now)
        BY <2>2, <3>5 DEF Reported, all
      <4>2. QED
        BY <1>1, <3>2, <3>3, <3>5, <4>1, CurrentAlive
    <3>6. QED
      BY <3>4, <3>5
  <2>3. QED
    BY <1>2, <2>1, <2>2
<1>4. QED
  BY <1>2, <1>3

LEMMA QuotaOfAsk ==
  ASSUME TypeInv, QuotaInv, NEW r \in Run, Ask(r)
  PROVE  QuotaInv'
<1> DEFINE c == [collect[r] EXCEPT !.step = "fetch"]
<1>1. /\ collect \in [Run -> Collects] /\ fetch \in [Run -> Fetch] /\ now \in Int
      /\ collect[r].built \in Int /\ ReportStale \in Int
  BY LocalConstants DEF TypeInv, TypeOK, ClientTypeOK, Collects
<1>2. collect' = [collect EXCEPT ![r] = c]
  BY <1>1 DEF Ask, Goes
<1>3. c.step = "fetch" /\ c.limits = collect[r].limits /\ c.built = collect[r].built
  BY <1>1 DEF Collects
<1> HIDE DEF c
<1>4. \A q \in Run : collect'[q] = IF q = r THEN c ELSE collect[q]
  BY <1>1, <1>2
<1>5. UNCHANGED <<setup, now, reports, shown>> /\ collect[r].step = "quota"
  BY DEF Ask, At
<1>6. NoExpiredQuota'
  BY <1>5 DEF QuotaInv, NoExpiredQuota, Windows
<1>7. \A q \in Run : collect'[q].step \in {"quota", "fetch"} =>
        Alive(collect'[q].limits, collect'[q].built) /\ collect'[q].built <= now'
  BY <1>3, <1>4, <1>5 DEF QuotaInv
<1>8. \A m \in setup'.machines : reports'[m] # NoReport => SeenFrom(reports'[m], reports'[m].at)
  BY <1>5 DEF QuotaInv
<1>9. ASSUME setup'.fetcher = "store", NEW q \in Run
      PROVE  /\ fetch'[q].step \in {"none", "returned"}
             /\ collect'[q].step = "fetch" =>
                  SeenFrom(fetch'[q].limits, collect'[q].built - ReportStale)
  <2>1. PICK limits, found : Return(r, limits, found) /\ SeenFrom(limits, now - ReportStale)
    BY <1>5, <1>9, QuotaOfReports DEF Ask, QuotaInv
  <2> DEFINE f == [NoFetch EXCEPT !.step = "returned", !.limits = limits, !.ok = found]
  <2>2. fetch' = [fetch EXCEPT ![r] = f]
    BY <2>1 DEF Return
  <2>3. f.step = "returned" /\ f.limits = limits
    BY DEF NoFetch
  <2>4. collect[r].built <= now
    BY <1>5 DEF QuotaInv
  <2> HIDE DEF f
  <2>5. CASE q # r
    BY <1>1, <1>4, <1>5, <1>9, <2>2, <2>5 DEF QuotaInv
  <2>6. CASE q = r
    <3>1. f = fetch'[r] /\ fetch' \in [Run -> Fetch]
      BY <1>1, <2>2, ReportTyped, <1>5, <1>9 DEF Ask, ClientTyped, ClientTypeOK
    <3>2. \A obs \in {f.limits.five, f.limits.week} : obs # NoObs => obs.seen \in Int
      BY <3>1 DEF Fetch, Limits, Obs
    <3>3. SeenFrom(f.limits, collect[r].built - ReportStale)
      BY <1>1, <2>1, <2>3, <2>4, <3>2 DEF SeenFrom
    <3>4. QED
      BY <1>3, <1>4, <2>3, <2>6, <3>1, <3>3
  <2>7. QED
    BY <2>5, <2>6
<1>10. QED
  BY <1>6, <1>7, <1>8, <1>9 DEF QuotaInv, Alive, SeenFrom
LEMMA QuotaOfFetching ==
  ASSUME TypeInv, QuotaInv, NEW r \in Run, Fetching(r)
  PROVE  QuotaInv'
<1>1. UNCHANGED <<setup, now, reports, collect, shown>>
  BY DEF Fetching, localVars
<1>2. fetch[r].step \in {"sent", "answered"}
  BY DEF Fetching, Respond, Handle, Ok, Unauthorized, RateLimited, Unavailable, Unexpected,
     NotFound, Answered
<1>3. setup.fetcher # "store"
  BY <1>2 DEF QuotaInv
<1>4. NoExpiredQuota'
  BY <1>1 DEF QuotaInv, NoExpiredQuota, Windows
<1>5. QED
  BY <1>1, <1>3, <1>4 DEF QuotaInv, Alive, SeenFrom

\* The items a collect builds show no quota that is not alive.
LEMMA NothingExpired ==
  ASSUME TypeInv, QuotaInv, NEW r \in Run, Finish(r)
  PROVE  NoExpiredQuota'
<1>1. /\ collect[r] \in Collects /\ fetch[r] \in Fetch /\ collect[r].built \in Int
      /\ setup' = setup
  BY DEF TypeInv, TypeOK, ClientTypeOK, Collects, Finish, Items
<1>2. collect[r].step \in {"quota", "fetch"}
  BY DEF Finish, At
<1> DEFINE own == collect[r].limits
           t   == collect[r].built
<1>3. Alive(own, t) /\ own \in Limits /\ t \in Int
  BY <1>1, <1>2 DEF QuotaInv, Collects
<1>4. PICK fetched \in Limits :
        /\ Items(r, fetched) /\ Alive(fetched, t)
        /\ setup.fetcher = "store" => SeenFrom(fetched, t - ReportStale)
  <2>1. CASE Items(r, NoLimits)
    BY <2>1, NoLimitsType, NothingSeen DEF Alive, NoLimits
  <2>2. CASE At(r, "fetch") /\ Items(r, CurrentLimits(fetch[r].limits, t))
    <3>1. fetch[r].limits \in Limits
      BY <1>1 DEF Fetch
    <3>2. CurrentLimits(fetch[r].limits, t) \in Limits
      BY <3>1, CurrentType
    <3>3. setup.fetcher = "store" => SeenFrom(fetch[r].limits, t - ReportStale)
      BY <2>2 DEF At, QuotaInv
    <3>4. QED
      BY <1>1, <2>2, <3>1, <3>2, <3>3, CurrentAlive
  <2>3. QED
    BY <2>1, <2>2 DEF Finish
<1>5. /\ shown'.built = t
      /\ shown'.five = Item(own.five, fetched.five) /\ shown'.week = Item(own.week, fetched.week)
  BY <1>4 DEF Items
<1> HIDE DEF own, t
<1>6. ASSUME NEW item \in {shown'.five, shown'.week}, item.from # "estimated"
      PROVE  /\ item.obs.reset = NoReset \/ item.obs.reset > t
             /\ setup.fetcher = "store" /\ item.from = "fetched" => item.obs.seen >= t - ReportStale
  <2>1. PICK o \in {own.five, own.week}, f \in {fetched.five, fetched.week} : item = Item(o, f)
    BY <1>5, <1>6
  <2>2. CASE item = [obs |-> o, from |-> "log"] /\ o # NoObs
    BY <1>3, <2>1, <2>2 DEF Alive
  <2>3. CASE item = [obs |-> f, from |-> "fetched"] /\ f # NoObs
    BY <1>4, <2>1, <2>3 DEF Alive, SeenFrom
  <2>4. QED
    BY <1>6, <2>1, <2>2, <2>3, ItemSays
<1>7. QED
  BY <1>1, <1>5, <1>6 DEF NoExpiredQuota, Windows

LEMMA QuotaOfFinish ==
  ASSUME TypeInv, QuotaInv, NEW r \in Run, Finish(r)
  PROVE  QuotaInv'
<1>1. NoExpiredQuota'
  BY NothingExpired
<1>2. /\ UNCHANGED <<setup, now, reports>> /\ collect' = [collect EXCEPT ![r] = NoCollect]
      /\ fetch' = fetch \/ fetch' = [fetch EXCEPT ![r] = NoFetch]
      /\ collect \in [Run -> Collects] /\ fetch \in [Run -> Fetch]
  BY DEF Finish, Items, TypeInv, TypeOK, ClientTypeOK
<1>3. NoCollect.step = "idle" /\ NoFetch.step = "none"
  BY DEF NoCollect, NoFetch
<1>4. /\ \A q \in Run : collect'[q] = IF q = r THEN NoCollect ELSE collect[q]
      /\ \A q \in Run : q # r => fetch'[q] = fetch[q]
      /\ fetch'[r] \in {fetch[r], NoFetch}
  BY <1>2
<1>5. \A q \in Run : collect'[q].step \in {"quota", "fetch"} =>
        Alive(collect'[q].limits, collect'[q].built) /\ collect'[q].built <= now'
  BY <1>2, <1>3, <1>4 DEF QuotaInv
<1>6. ASSUME setup'.fetcher = "store", NEW q \in Run
      PROVE  /\ fetch'[q].step \in {"none", "returned"}
             /\ collect'[q].step = "fetch" =>
                  SeenFrom(fetch'[q].limits, collect'[q].built - ReportStale)
  BY <1>2, <1>3, <1>4, <1>6 DEF QuotaInv
<1>7. \A m \in setup'.machines : reports'[m] # NoReport => SeenFrom(reports'[m], reports'[m].at)
  BY <1>2 DEF QuotaInv
<1>8. QED
  BY <1>1, <1>5, <1>6, <1>7 DEF QuotaInv, Alive, SeenFrom

LEMMA QuotaAround ==
  ASSUME TypeInv, QuotaInv,
         \/ Time \/ AppendLine \/ ReplaceLog
         \/ \E k \in LineNo : PushRecord(k)
         \/ \E m \in setup.machines : Push(m)
  PROVE  QuotaInv'
<1>1. UNCHANGED <<setup, collect, fetch, shown>> /\ now' \in {now, now + 1} /\ now \in Int
  <2>1. now \in Int
    BY DEF TypeInv, TypeOK, ClientTypeOK
  <2>2. CASE Time
    BY <2>1, <2>2 DEF Time, Tick, clientVars, localVars
  <2>3. CASE ~Time
    BY <2>1, <2>3 DEF AppendLine, ReplaceLog, WriteLog, PushRecord, Push, clientVars
  <2>4. QED
    BY <2>2, <2>3
<1>2. NoExpiredQuota'
  BY <1>1 DEF QuotaInv, NoExpiredQuota, Windows
<1>3. \A q \in Run : collect'[q].step \in {"quota", "fetch"} =>
        Alive(collect'[q].limits, collect'[q].built) /\ collect'[q].built <= now'
  <2>1. \A q \in Run : collect[q].built \in Int
    BY DEF TypeInv, TypeOK, Collects
  <2>2. QED
    BY <1>1, <2>1 DEF QuotaInv
<1>4. setup'.fetcher = "store" =>
        \A q \in Run :
          /\ fetch'[q].step \in {"none", "returned"}
          /\ collect'[q].step = "fetch" => SeenFrom(fetch'[q].limits, collect'[q].built - ReportStale)
  BY <1>1 DEF QuotaInv
<1>5. ASSUME NEW m \in setup.machines, reports'[m] # NoReport
      PROVE  SeenFrom(reports'[m], reports'[m].at)
  <2>1. CASE reports' = reports
    BY <1>5, <2>1 DEF QuotaInv
  <2>2. ASSUME NEW l \in setup.machines, Push(l)
        PROVE  SeenFrom(reports'[m], reports'[m].at)
    <3>1. PICK five \in {NoObs, [reset |-> now + 1, seen |-> now]} :
            reports' = [reports EXCEPT ![l] = [five |-> five, at |-> now,
                                               week |-> [reset |-> now + 3, seen |-> now]]]
      BY <2>2 DEF Push
    <3> DEFINE report == [five |-> five, at |-> now, week |-> [reset |-> now + 3, seen |-> now]]
    <3>2. SeenFrom(report, report.at)
      BY <1>1 DEF SeenFrom
    <3> HIDE DEF report
    <3>3. reports'[m] = IF m = l THEN report ELSE reports[m]
      BY <3>1 DEF report, TypeInv, TypeOK
    <3>4. QED
      BY <1>5, <3>2, <3>3 DEF QuotaInv
  <2>3. reports' = reports \/ \E l \in setup.machines : Push(l)
    BY DEF Time, AppendLine, ReplaceLog, WriteLog, PushRecord, localVars
  <2>4. QED
    BY <2>1, <2>2, <2>3
<1>6. QED
  BY <1>1, <1>2, <1>3, <1>4, <1>5 DEF QuotaInv, Alive, SeenFrom

LEMMA QuotaStep ==
  ASSUME TypeInv, QuotaInv, [Next]_vars
  PROVE  QuotaInv'
<1>1. CASE UNCHANGED vars
  BY <1>1 DEF vars, clientVars, localVars, QuotaInv, Alive, SeenFrom, NoExpiredQuota, Windows
<1>2. CASE \/ Time \/ AppendLine \/ ReplaceLog
           \/ \E k \in LineNo : PushRecord(k)
           \/ \E m \in setup.machines : Push(m)
  BY <1>2, QuotaAround
<1>3. CASE \E r \in Run : Begin(r) \/ Collect(r)
  BY <1>3, QuotaOfScan, QuotaOfAsk, QuotaOfFetching, QuotaOfFinish DEF Collect
<1>4. QED
  BY <1>1, <1>2, <1>3 DEF Next

LEMMA QuotaStart == Init => QuotaInv
<1> SUFFICES ASSUME Init PROVE QuotaInv
  OBVIOUS
<1>1. NoCollect.step = "idle" /\ NoFetch.step = "none" /\ NoItem.from = "estimated"
  BY DEF NoCollect, NoFetch, NoItem
<1>2. /\ \A r \in Run : collect[r] = NoCollect /\ fetch[r] = NoFetch
      /\ \A m \in setup.machines : reports[m] = NoReport
      /\ shown.five = NoItem /\ shown.week = NoItem
  BY DEF Init, ClientInit
<1>3. QED
  BY <1>1, <1>2 DEF QuotaInv, NoExpiredQuota, Windows

\* No window is shown that was reset before the items were built, and none an agent reported
\* too long before, however collects, fetches, pushes and the clock interleave (buildItems,
\* DiscardExpired, StoreQuotaFetcher).
THEOREM ShownIsAlive == Spec => []NoExpiredQuota
<1> DEFINE Inv == TypeInv /\ upstream = setup.upstream /\ QuotaInv
<1>1. Init => Inv
  BY TypeStart, QuotaStart
<1>2. Inv /\ [Next]_vars => Inv'
  BY TypeStep, QuotaStep
<1>3. Inv => NoExpiredQuota
  BY DEF QuotaInv
<1>4. QED
  BY <1>1, <1>2, <1>3, PTL DEF Spec
---------------------------------------------------------------------------
(* The rows are those of the file.                                         *)

\* Every row is one of a line of the file.
RowsOnly ==
  \A k \in LineNo :
    rows[k] # NoRow => k \in UsageLines(log, 0) /\ rows[k] = RowOf(log, 0, k, FALSE, Version)

\* Every line before an offset has its row.
Covers(offset) ==
  \A k \in LineNo : k \in UsageLines(log, 0) /\ TextEnd(k) <= offset => rows[k] # NoRow

\* A parse state that describes the file.
Describes(s) == s # NoState /\ ~NeedsReset(s, log, Version)

\* An offset at which lines begin.
AtLine(offset) == \E n \in 0..MaxLines : offset = W * n

\* What was read is what the file says from the offset of the scan to that of its state.
ReadOfFile(c) ==
  \A k \in LineNo :
    /\ c.read[k] # NoRow => k \in UsageLines(log, 0) /\ c.read[k] = RowOf(log, 0, k, FALSE, Version)
    /\ k \in UsageLines(log, c.offset) /\ TextEnd(k) <= c.next.offset => c.read[k] # NoRow

\* What a scan relies on, step by step.
ScanOf(c) ==
  /\ c.step = "stat" =>
       /\ c.ps # NoState => AtLine(c.ps.offset)
       /\ c.ps = NoState => RowsOnly
       /\ Describes(c.ps) => RowsOnly /\ Covers(c.ps.offset)
  /\ c.step \in {"read", "save"} =>
       /\ AtLine(c.offset) /\ c.mtime <= log.mtime
       /\ c.offset <= Size(log)
       /\ c.reset => c.offset = 0
       /\ ~c.reset => RowsOnly
       /\ c.offset > 0 => Covers(c.offset)
  /\ c.step = "save" => 
       /\ c.next # NoState /\ AtLine(c.next.offset) /\ c.next.offset <= Size(log)
       /\ ReadOfFile(c)

\* The rows, the stored state and the scans in progress, while no scan saw the file replaced.
RowsInv ==
  /\ log.cut = W
  /\ setup.mode = "remote" => ps = NoState /\ \A r \in Run : ~Scanning(r)
  /\ replaced # "during" =>
       /\ ps # NoState => AtLine(ps.offset)
       /\ setup.mode # "remote" /\ ps = NoState => RowsOnly /\ \A k \in LineNo : rows[k] = NoRow
       /\ Describes(ps) => RowsOnly /\ Covers(ps.offset)
       /\ \A r \in Run : ScanOf(collect[r])

LEMMA SizeOf ==
  ASSUME log \in Log, log.cut = W, Len(log.lines) <= MaxLines
  PROVE  Size(log) = W * Len(log.lines) /\ Size(log) \in Nat /\ AtLine(Size(log))
<1>1. Len(log.lines) \in 0..MaxLines
  BY LocalConstants DEF Log
<1>2. QED
  BY <1>1 DEF Size, W, AtLine

\* A line that begins before an offset at which lines begin ends before it.
LEMMA LineBefore ==
  ASSUME NEW offset, AtLine(offset), NEW k \in Nat
  PROVE  LineStart(k) >= offset \/ TextEnd(k) <= offset
<1>1. PICK n \in 0..MaxLines : offset = W * n
  BY DEF AtLine
<1>2. n \in Nat
  BY <1>1, LocalConstants
<1>3. QED
  BY <1>1, <1>2 DEF LineStart, TextEnd, W

LEMMA LinesFrom ==
  ASSUME NEW offset \in Nat, log \in Log
  PROVE  /\ UsageLines(log, offset) \subseteq UsageLines(log, 0)
         /\ \A k \in UsageLines(log, 0) : LineStart(k) >= offset => k \in UsageLines(log, offset)
         /\ \A k : RowOf(log, offset, k, FALSE, Version) = RowOf(log, 0, k, FALSE, Version)
BY DEF UsageLines, Seen, LineStart, W, RowOf, ModelOf, Log

\* What is appended changes nothing that was there.
LEMMA Appended ==
  ASSUME log \in Log, log.cut = W, NEW line,
         log'.lines = Append(log.lines, line), log'.cut = W, NEW offset \in Nat
  PROVE  /\ Len(log'.lines) = Len(log.lines) + 1 /\ Size(log') = Size(log) + W
         /\ \A k \in 1..Len(log.lines) :
              /\ k \in UsageLines(log', offset) <=> k \in UsageLines(log, offset)
              /\ RowOf(log', 0, k, FALSE, Version) = RowOf(log, 0, k, FALSE, Version)
         /\ \A k \in UsageLines(log', offset) :
              k \in 1..Len(log.lines) \/ TextEnd(k) > Size(log)
<1>1. log.lines \in Seq(Line) /\ Len(log.lines) \in Nat
  BY DEF Log
<1>2. /\ Len(log'.lines) = Len(log.lines) + 1
      /\ \A k \in 1..Len(log.lines) : log'.lines[k] = log.lines[k]
  BY <1>1
<1>3. Size(log) = W * Len(log.lines) /\ Size(log') = W * (Len(log.lines) + 1)
  BY <1>1, <1>2 DEF Size, W
<1>4. \A k \in 1..Len(log.lines) : TextEnd(k) <= Size(log) /\ TextEnd(k) <= Size(log')
  BY <1>1, <1>3 DEF TextEnd, LineStart, W
<1>5. \A k \in 1..Len(log.lines) :
         /\ k \in UsageLines(log', offset) <=> k \in UsageLines(log, offset)
         /\ RowOf(log', 0, k, FALSE, Version) = RowOf(log, 0, k, FALSE, Version)
  BY <1>1, <1>2, <1>4 DEF UsageLines, Seen, RowOf, ModelOf
<1>6. ASSUME NEW k \in UsageLines(log', offset)
      PROVE  k \in 1..Len(log.lines) \/ TextEnd(k) > Size(log)
  <2>1. k \in 1..(Len(log.lines) + 1)
    BY <1>2, <1>6 DEF UsageLines
  <2>2. CASE k = Len(log.lines) + 1
    BY <1>1, <1>3, <2>2 DEF TextEnd, LineStart, W
  <2>3. QED
    BY <1>1, <2>1, <2>2
<1>7. Size(log') = Size(log) + W
  BY <1>1, <1>3 DEF W
<1>8. QED
  BY <1>2, <1>5, <1>6, <1>7

LEMMA RowsAppended ==
  ASSUME TypeInv, log.cut = W, NEW line, log'.lines = Append(log.lines, line), log'.cut = W,
         rows' = rows
  PROVE  /\ RowsOnly => RowsOnly'
         /\ \A offset \in Nat : offset <= Size(log) /\ Covers(offset) => Covers(offset)'
<1>1. log \in Log /\ Size(log) \in Nat /\ Len(log.lines) \in Nat
  BY SizeOf DEF TypeInv, TypeOK, Log
<1>2. /\ \A k \in 1..Len(log.lines) :
           /\ k \in UsageLines(log', 0) <=> k \in UsageLines(log, 0)
           /\ RowOf(log', 0, k, FALSE, Version) = RowOf(log, 0, k, FALSE, Version)
      /\ \A k \in UsageLines(log', 0) : k \in 1..Len(log.lines) \/ TextEnd(k) > Size(log)
  BY <1>1, Appended
<1>3. UsageLines(log, 0) \subseteq 1..Len(log.lines)
  BY DEF UsageLines
<1>4. RowsOnly => RowsOnly'
  BY <1>2, <1>3 DEF RowsOnly
<1>5. ASSUME NEW offset \in Nat, offset <= Size(log), Covers(offset),
             NEW k \in LineNo, k \in UsageLines(log', 0), TextEnd(k) <= offset
      PROVE  rows'[k] # NoRow
  <2>1. k \in Nat /\ TextEnd(k) \in Int
    BY DEF LineNo, TextEnd, LineStart, W
  <2>2. ~ (TextEnd(k) > Size(log))
    BY <1>1, <1>5, <2>1
  <2>3. k \in 1..Len(log.lines)
    BY <1>2, <1>5, <2>2
  <2>4. k \in UsageLines(log, 0)
    BY <1>2, <1>5, <2>3
  <2>5. QED
    BY <1>5, <2>4 DEF Covers
<1>6. QED
  BY <1>4, <1>5 DEF Covers

LEMMA SameRows ==
  ASSUME UNCHANGED <<log, rows>>
  PROVE  /\ RowsOnly' <=> RowsOnly
         /\ \A o : Covers(o)' <=> Covers(o)
         /\ \A s : Describes(s)' <=> Describes(s)
         /\ \A c : ReadOfFile(c)' <=> ReadOfFile(c)
BY DEF RowsOnly, Covers, Describes, ReadOfFile

LEMMA SameScan ==
  ASSUME UNCHANGED <<log, rows>>, NEW q \in Run, NEW c, collect'[q] = c, ScanOf(c)
  PROVE  ScanOf(collect[q])'
BY DEF ScanOf, RowsOnly, Covers, Describes, ReadOfFile

\* A collect goes on, and neither the file nor what is stored changes.
LEMMA RowsOfCollect ==
  ASSUME TypeInv, RowsInv, NEW r \in Run, NEW c, collect' = [collect EXCEPT ![r] = c],
         UNCHANGED <<setup, log, ps, rows, replaced>>,
         replaced # "during" => ScanOf(c),
         setup.mode = "remote" => c.step \notin {"stat", "read", "save"}
  PROVE  RowsInv'
<1>1. \A q \in Run : collect'[q] = IF q = r THEN c ELSE collect[q]
  BY DEF TypeInv, TypeOK
<1>2. ASSUME replaced # "during", NEW q \in Run
      PROVE  ScanOf(collect[q])'
  <2>1. CASE q = r
    BY <1>1, <1>2, <2>1, SameScan
  <2>2. CASE q # r
    BY <1>1, <1>2, <2>2, SameScan DEF RowsInv
  <2>3. QED
    BY <2>1, <2>2
<1>3. setup.mode = "remote" => ps' = NoState /\ \A q \in Run : ~Scanning(q)'
  BY <1>1 DEF RowsInv, Scanning
<1>4. QED
  BY <1>2, <1>3, SameRows DEF RowsInv

\* No collect moves.
LEMMA RowsOfOthers ==
  ASSUME TypeInv, RowsInv, UNCHANGED <<setup, log, ps, rows, replaced, collect>>
  PROVE  RowsInv'
<1>1. ASSUME replaced # "during", NEW q \in Run
      PROVE  ScanOf(collect[q])'
  BY <1>1, SameScan DEF RowsInv
<1>2. QED
  BY <1>1, SameRows DEF RowsInv, Scanning

LEMMA NotScanning == ASSUME NEW c, c.step \notin {"stat", "read", "save"} PROVE ScanOf(c)
BY DEF ScanOf

LEMMA RowsBegin ==
  ASSUME TypeInv, RowsInv, NEW r \in Run, Begin(r)
  PROVE  RowsInv'
<1> DEFINE c == [NoCollect EXCEPT !.step = IF setup.mode = "remote" THEN "list" ELSE "stat",
                                  !.ps = ps, !.began = Used(log)]
<1>1. /\ c.step = (IF setup.mode = "remote" THEN "list" ELSE "stat") /\ c.ps = ps
      /\ collect' = [collect EXCEPT ![r] = c] /\ UNCHANGED <<setup, log, ps, rows, replaced>>
  BY DEF Begin, NoCollect
<1> HIDE DEF c
<1>2. replaced # "during" => ScanOf(c)
  BY <1>1 DEF RowsInv, ScanOf
<1>3. QED
  BY <1>1, <1>2, RowsOfCollect

LEMMA RowsStat ==
  ASSUME TypeInv, RowsInv, NEW r \in Run, Stat(r)
  PROVE  RowsInv'
<1> DEFINE due    == collect[r].ps # NoState /\ NeedsReset(collect[r].ps, log, Version)
           offset == IF collect[r].ps = NoState \/ due THEN 0 ELSE collect[r].ps.offset
           d      == [collect[r] EXCEPT !.step = "read", !.offset = offset, !.reset = due,
                                        !.mtime = log.mtime]
<1>1. /\ collect[r] \in Collects /\ collect \in [Run -> Collects] /\ log \in Log /\ log.cut = W
      /\ Len(log.lines) <= MaxLines /\ collect[r].step = "stat" /\ setup.mode # "remote"
      /\ UNCHANGED <<setup, log, ps, rows, replaced>>
  BY DEF TypeInv, TypeOK, RowsInv, Stat, At, Scanning
<1>2. CASE Goes(r, "list")
  <2>1. [collect[r] EXCEPT !.step = "list"].step = "list"
    BY <1>1 DEF Collects
  <2>2. collect' = [collect EXCEPT ![r] = [collect[r] EXCEPT !.step = "list"]]
    BY <1>1, <1>2 DEF Goes
  <2>3. QED
    BY <1>1, <2>1, <2>2, NotScanning, RowsOfCollect
<1>3. CASE collect' = [collect EXCEPT ![r].step = "read", ![r].offset = offset,
                                      ![r].reset = due, ![r].mtime = log.mtime]
  <2>1. collect' = [collect EXCEPT ![r] = d]
    BY <1>1, <1>3
  <2>2. /\ d.step = "read" /\ d.offset = offset /\ d.reset = due /\ d.mtime = log.mtime
    BY <1>1 DEF Collects
  <2>3. log.mtime \in Nat /\ Size(log) \in Nat /\ AtLine(0)
    BY <1>1, SizeOf, LocalConstants DEF Log, AtLine, W
  <2>4. ASSUME replaced # "during"
        PROVE  /\ AtLine(offset) /\ offset <= Size(log) /\ (due => offset = 0)
               /\ (~due => RowsOnly) /\ (offset > 0 => Covers(offset))
    <3>1. ScanOf(collect[r])
      BY <2>4 DEF RowsInv
    <3>2. CASE collect[r].ps = NoState
      BY <1>1, <2>3, <3>1, <3>2 DEF ScanOf
    <3>3. CASE due
      BY <2>3, <3>3
    <3>4. CASE collect[r].ps # NoState /\ ~due
      <4>1. Describes(collect[r].ps) /\ offset = collect[r].ps.offset
        BY <3>4 DEF Describes
      <4>2. offset \in Nat /\ offset <= Size(log)
        BY <1>1, <2>3, <3>4, <4>1 DEF Describes, NeedsReset, Collects, ParseState
      <4>3. QED
        BY <1>1, <3>1, <3>4, <4>1, <4>2 DEF ScanOf
    <3>5. QED
      BY <3>2, <3>3, <3>4
  <2> HIDE DEF offset, due, d
  <2>5. replaced # "during" => ScanOf(d)
    BY <2>2, <2>3, <2>4 DEF ScanOf
  <2>6. QED
    BY <1>1, <2>1, <2>5, RowsOfCollect
<1>4. QED
  BY <1>2, <1>3 DEF Stat

LEMMA RowsRead ==
  ASSUME TypeInv, RowsInv, NEW r \in Run, Read(r)
  PROVE  RowsInv'
<1> DEFINE offset == collect[r].offset
           next   == [offset |-> NextOffset(log, offset), mtime |-> collect[r].mtime,
                      parser |-> Version]
           read   == [k \in LineNo |-> IF k \in UsageLines(log, offset)
                                       THEN RowOf(log, offset, k, FALSE, Version) ELSE NoRow]
           c      == [collect[r] EXCEPT !.step = "save", !.next = next, !.read = read]
<1>1. /\ collect[r] \in Collects /\ collect \in [Run -> Collects] /\ log \in Log /\ log.cut = W
      /\ Len(log.lines) <= MaxLines /\ collect[r].step = "read" /\ setup.mode # "remote"
      /\ UNCHANGED <<setup, log, ps, rows, replaced>> /\ offset \in Nat
  BY DEF TypeInv, TypeOK, RowsInv, Read, At, Scanning, Collects
<1>2. /\ c.step = "save" /\ c.next = next /\ c.read = read /\ c.offset = offset
      /\ c.reset = collect[r].reset /\ c.mtime = collect[r].mtime
      /\ collect' = [collect EXCEPT ![r] = c]
  BY <1>1 DEF Collects, Read
<1>3. Size(log) \in Nat /\ AtLine(Size(log))
  BY <1>1, SizeOf
<1>4. next \in ParseState /\ next # NoState
  <2>1. NextOffset(log, offset) \in Nat /\ collect[r].mtime \in Nat
    BY <1>1, <1>3 DEF NextOffset, Collects
  <2>2. QED
    BY <2>1, ScanMarkers DEF ParseState, Version
<1>5. ASSUME offset <= Size(log)
      PROVE  next.offset = Size(log)
  BY <1>1, <1>3, <1>5 DEF NextOffset
<1>6. \A k \in LineNo : k \in UsageLines(log, offset) =>
         read[k] = RowOf(log, 0, k, FALSE, Version) /\ read[k] # NoRow
  <2>1. ASSUME NEW k \in LineNo, k \in UsageLines(log, offset)
        PROVE  read[k] = RowOf(log, 0, k, FALSE, Version) /\ read[k] \in Row
    BY <1>1, <2>1, LinesFrom, ScanTyped
  <2>2. NoRow \notin Row
    BY ScanMarkers DEF Row
  <2>3. QED
    BY <2>1, <2>2
<1>7. \A k \in LineNo : k \notin UsageLines(log, offset) => read[k] = NoRow
  OBVIOUS
<1>8. UsageLines(log, offset) \subseteq UsageLines(log, 0)
  BY <1>1, LinesFrom
<1> HIDE DEF next, read, c
<1>9. ReadOfFile(c)
  BY <1>2, <1>6, <1>7, <1>8 DEF ReadOfFile
<1>10. replaced # "during" => ScanOf(c)
  <2>1. SUFFICES ASSUME replaced # "during" PROVE ScanOf(c)
    OBVIOUS
  <2>2. ScanOf(collect[r])
    BY <2>1 DEF RowsInv
  <2>3. offset <= Size(log)
    BY <1>1, <2>2 DEF ScanOf
  <2>4. QED
    BY <1>1, <1>2, <1>3, <1>4, <1>5, <1>9, <2>2, <2>3 DEF ScanOf
<1>11. QED
  BY <1>1, <1>2, <1>10, RowsOfCollect

\* The rows of a batch are those of the file, and every line before its state has one.
LEMMA SavedRows ==
  ASSUME TypeInv, NEW r \in Run, collect[r].step = "save", ScanOf(collect[r]),
         log' = log, rows' = Saved(r)
  PROVE  /\ RowsOnly'
         /\ \A k \in LineNo : k \in UsageLines(log', 0) /\ TextEnd(k) <= collect[r].next.offset
                                => rows'[k] # NoRow
<1> DEFINE c == collect[r]
<1>1. c \in Collects /\ log \in Log
  BY DEF TypeInv, TypeOK
<1>2. \A k \in LineNo : rows'[k] = IF c.read[k] # NoRow THEN c.read[k]
                                   ELSE IF c.reset THEN NoRow ELSE rows[k]
  BY DEF Saved
<1>3. /\ AtLine(c.offset) /\ ReadOfFile(c) /\ (c.reset => c.offset = 0)
      /\ (~c.reset => RowsOnly) /\ (c.offset > 0 => Covers(c.offset))
  BY DEF ScanOf
<1>4. c.offset \in Nat
  BY <1>1 DEF Collects
<1> HIDE DEF c
<1>5. RowsOnly'
  BY <1>2, <1>3 DEF RowsOnly, ReadOfFile
<1>6. ASSUME NEW k \in LineNo, k \in UsageLines(log, 0), TextEnd(k) <= c.next.offset
      PROVE  rows'[k] # NoRow
  <2>1. k \in Nat /\ TextEnd(k) \in Nat /\ TextEnd(k) > 0
    BY LocalConstants DEF LineNo, TextEnd, LineStart, W
  <2>2. CASE LineStart(k) >= c.offset
    BY <1>1, <1>2, <1>3, <1>4, <1>6, <2>2, LinesFrom DEF ReadOfFile
  <2>3. CASE TextEnd(k) <= c.offset
    <3>1. c.offset > 0
      BY <1>4, <2>1, <2>3
    <3>2. rows[k] # NoRow /\ ~c.reset
      BY <1>3, <1>6, <2>3, <3>1 DEF Covers
    <3>3. QED
      BY <1>2, <3>2
  <2>4. QED
    BY <1>3, <2>1, <2>2, <2>3, LineBefore
<1>7. QED
  BY <1>5, <1>6 DEF c

\* A batch disturbs no scan that trusts no row it could lose.
LEMMA SavedBeside ==
  ASSUME log' = log, RowsOnly', NEW q \in Run, ScanOf(collect[q]), collect'[q] = collect[q],
         (\A k \in LineNo : rows[k] # NoRow => rows'[k] # NoRow) \/ ~Trusts(q)
  PROVE  ScanOf(collect[q])'
<1>1. CASE \A k \in LineNo : rows[k] # NoRow => rows'[k] # NoRow
  BY <1>1 DEF ScanOf, Covers, Describes, ReadOfFile
<1>2. CASE ~Trusts(q)
  BY <1>2 DEF ScanOf, Trusts, At, Describes, ReadOfFile
<1>3. QED
  BY <1>1, <1>2

LEMMA RowsSave ==
  ASSUME TypeInv, RowsInv, NEW r \in Run, Save(r)
  PROVE  RowsInv'
<1> DEFINE d == [NoCollect EXCEPT !.step = "list", !.began = collect[r].began]
<1>1. /\ collect[r].step = "save" /\ setup.mode # "remote" /\ collect \in [Run -> Collects]
      /\ UNCHANGED <<setup, log>> /\ ps' = collect[r].next /\ rows' = Saved(r)
  BY DEF TypeInv, TypeOK, RowsInv, Save, At, Scanning
<1>2. d.step = "list" /\ collect' = [collect EXCEPT ![r] = d]
  BY DEF Save, NoCollect
<1> HIDE DEF d
<1>3. \A q \in Run : collect'[q] = IF q = r THEN d ELSE collect[q]
  BY <1>1, <1>2
<1>4. ASSUME replaced' # "during"
      PROVE  /\ ps' # NoState /\ AtLine(ps'.offset)
             /\ RowsOnly' /\ Covers(ps.offset)'
             /\ \A q \in Run : ScanOf(collect[q])'
  <2>1. replaced # "during" /\ (collect[r].reset => \A q \in Run : ~Trusts(q))
    BY <1>4 DEF Save
  <2>2. ScanOf(collect[r])
    BY <2>1 DEF RowsInv
  <2>3. collect[r].next # NoState /\ AtLine(collect[r].next.offset)
    BY <1>1, <2>2 DEF ScanOf
  <2>4. RowsOnly'
    BY <1>1, <2>2, SavedRows
  <2>5. Covers(ps.offset)'
    BY <1>1, <2>2, SavedRows DEF Covers
  <2>6. ASSUME NEW q \in Run
        PROVE  ScanOf(collect[q])'
    <3>1. CASE q = r
      BY <1>2, <1>3, <3>1 DEF ScanOf
    <3>2. CASE q # r
      <4>1. (\A k \in LineNo : rows[k] # NoRow => rows'[k] # NoRow) \/ ~Trusts(q)
        BY <1>1, <2>1 DEF Saved
      <4>2. ScanOf(collect[q]) /\ collect'[q] = collect[q]
        BY <1>3, <2>1, <3>2 DEF RowsInv
      <4>3. QED
        BY <1>1, <2>4, <4>1, <4>2, SavedBeside
    <3>3. QED
      BY <3>1, <3>2
  <2>7. QED
    BY <1>1, <2>3, <2>4, <2>5, <2>6
<1>5. log'.cut = W /\ setup'.mode # "remote"
  BY <1>1 DEF RowsInv
<1>6. QED
  BY <1>4, <1>5 DEF RowsInv

\* A scan goes on from where it was in a file that grew.
LEMMA AppendBeside ==
  ASSUME TypeInv, log.cut = W, NEW line, log'.lines = Append(log.lines, line), log'.cut = W,
         log'.mtime = log.mtime + 1, rows' = rows, NEW q \in Run, collect' = collect,
         ScanOf(collect[q]), Describes(collect[q].ps)' => Describes(collect[q].ps)
  PROVE  ScanOf(collect[q])'
<1> DEFINE c == collect[q]
<1>1. c \in Collects /\ log \in Log /\ Len(log.lines) <= MaxLines
  BY DEF TypeInv, TypeOK
<1>2. Size(log) \in Nat /\ Len(log.lines) \in Nat /\ log.mtime \in Nat
  BY <1>1, SizeOf DEF Log
<1>3. c.offset \in Nat /\ c.mtime \in Nat
  BY <1>1 DEF Collects
<1>4. /\ RowsOnly => RowsOnly'
      /\ \A o \in Nat : o <= Size(log) /\ Covers(o) => Covers(o)'
  BY RowsAppended
<1>5. Size(log') = Size(log) + W /\ \A o \in Nat : o <= Size(log) => o <= Size(log')
  <2>1. Size(log') = Size(log) + W
    BY <1>1, <1>3, Appended
  <2>2. QED
    BY <1>2, <2>1 DEF W
<1>6. CASE c.step = "stat"
  <2>1. ASSUME c.ps # NoState, Describes(c.ps)
        PROVE  RowsOnly' /\ Covers(c.ps.offset)'
    <3>1. c.ps.offset \in Nat /\ c.ps.offset <= Size(log)
      BY <1>1, <1>2, <2>1 DEF Describes, NeedsReset, Collects, ParseState
    <3>2. RowsOnly /\ Covers(c.ps.offset)
      BY <1>6, <2>1 DEF ScanOf
    <3>3. Covers(c.ps.offset)'
      BY <1>4, <3>1, <3>2 DEF Covers
    <3>4. QED
      BY <1>4, <3>2, <3>3
  <2>2. QED
    BY <1>4, <1>6, <2>1 DEF ScanOf, Describes
<1>7. CASE c.step \in {"read", "save"}
  <2>1. /\ AtLine(c.offset) /\ c.mtime <= log.mtime + 1 /\ c.offset <= Size(log')
        /\ (c.reset => c.offset = 0) /\ (~c.reset => RowsOnly')
    BY <1>2, <1>3, <1>4, <1>5, <1>7 DEF ScanOf
  <2>2. c.offset > 0 => Covers(c.offset)'
    <3>1. SUFFICES ASSUME c.offset > 0 PROVE Covers(c.offset)'
      OBVIOUS
    <3>2. Covers(c.offset) /\ c.offset <= Size(log)
      BY <1>7, <3>1 DEF ScanOf
    <3>3. QED
      BY <1>3, <1>4, <3>2 DEF Covers
  <2>3. ASSUME c.step = "save"
        PROVE  /\ c.next # NoState /\ AtLine(c.next.offset) /\ c.next.offset <= Size(log')
               /\ ReadOfFile(c)'
    <3>1. /\ c.next # NoState /\ AtLine(c.next.offset) /\ c.next.offset <= Size(log)
          /\ ReadOfFile(c)
      BY <2>3 DEF ScanOf
    <3>2. c.next.offset \in Nat
      BY <1>1, <3>1 DEF Collects, ParseState
    <3>3. ASSUME NEW k \in LineNo, c.read[k] # NoRow
          PROVE  k \in UsageLines(log', 0) /\ c.read[k] = RowOf(log', 0, k, FALSE, Version)
      <4>1. k \in UsageLines(log, 0) /\ c.read[k] = RowOf(log, 0, k, FALSE, Version)
        BY <3>1, <3>3 DEF ReadOfFile
      <4>2. k \in 1..Len(log.lines)
        BY <4>1 DEF UsageLines
      <4>3. QED
        BY <1>1, <4>1, <4>2, Appended
    <3>4. ASSUME NEW k \in LineNo, k \in UsageLines(log', c.offset), TextEnd(k) <= c.next.offset
          PROVE  c.read[k] # NoRow
      <4>1. TextEnd(k) \in Int
        BY DEF LineNo, TextEnd, LineStart, W
      <4>2. ~ (TextEnd(k) > Size(log))
        BY <1>2, <3>1, <3>2, <3>4, <4>1
      <4>3. k \in UsageLines(log, c.offset)
        BY <1>1, <1>3, <3>4, <4>2, Appended
      <4>4. QED
        BY <3>1, <3>4, <4>3 DEF ReadOfFile
    <3>5. ReadOfFile(c)'
      BY <3>3, <3>4 DEF ReadOfFile
    <3>6. QED
      BY <1>5, <3>1, <3>2, <3>5
  <2>4. QED
    BY <1>7, <2>1, <2>2, <2>3 DEF ScanOf
<1>8. QED
  BY <1>6, <1>7 DEF ScanOf

LEMMA RowsAppend ==
  ASSUME TypeInv, RowsInv, AppendLine
  PROVE  RowsInv'
<1>1. PICK usage \in setup.usage :
         WriteLog([log EXCEPT !.lines = Append(@, [usage |-> usage, model |-> NoModel]),
                              !.mtime = @ + 1])
  BY Zenon DEF AppendLine
<1> DEFINE line == [usage |-> usage, model |-> NoModel]
<1>2. /\ log \in [exists : BOOLEAN, lines : Seq(Line), cut : 1..W, mtime : Nat] /\ log.cut = W
      /\ log' = [log EXCEPT !.lines = Append(log.lines, line), !.mtime = log.mtime + 1]
      /\ UNCHANGED <<setup, ps, rows, collect, replaced>>
  BY <1>1 DEF TypeInv, TypeOK, RowsInv, Log, WriteLog, AppendLine
<1> HIDE DEF line
<1>3. log'.lines = Append(log.lines, line) /\ log'.cut = W /\ log'.mtime = log.mtime + 1
  BY <1>2
<1>4. \A s \in States : NeedsReset(s, log, Version) => NeedsReset(s, log', Version)
  BY <1>1 DEF WriteLog
<1>6. ASSUME replaced # "during"
      PROVE  /\ (ps # NoState => AtLine(ps.offset))
             /\ (setup.mode # "remote" /\ ps = NoState =>
                   RowsOnly' /\ \A k \in LineNo : rows[k] = NoRow)
             /\ (Describes(ps)' => RowsOnly' /\ Covers(ps.offset)')
             /\ \A q \in Run : ScanOf(collect[q])'
  <2>1. /\ RowsOnly => RowsOnly'
        /\ \A o \in Nat : o <= Size(log) /\ Covers(o) => Covers(o)'
    BY <1>2, <1>3, RowsAppended
  <2>2. ASSUME Describes(ps)'
        PROVE  RowsOnly' /\ Covers(ps.offset)'
    <3>1. Describes(ps)
      BY <1>2, <2>2, <1>4 DEF States, Describes
    <3>2. RowsOnly /\ Covers(ps.offset) /\ ps # NoState
      BY <1>6, <3>1 DEF RowsInv, Describes
    <3>3. ps.offset \in Nat /\ Size(log) \in Nat
      BY <1>2, <3>2, SizeOf DEF TypeInv, TypeOK, ParseState
    <3>4. ps.offset <= Size(log)
      BY <3>1, <3>3 DEF Describes, NeedsReset
    <3>5. Covers(ps.offset)'
      BY <1>2, <2>1, <3>2, <3>3, <3>4 DEF Covers
    <3>6. QED
      BY <2>1, <3>2, <3>5
  <2>3. ASSUME NEW q \in Run
        PROVE  ScanOf(collect[q])'
    <3>1. ScanOf(collect[q])
      BY <1>6 DEF RowsInv
    <3>2. Describes(collect[q].ps)' => Describes(collect[q].ps)
      BY <1>2, <1>4 DEF States, Describes
    <3>3. QED
      BY <1>2, <1>3, <3>1, <3>2, AppendBeside
  <2>4. QED
    BY <1>6, <2>1, <2>2, <2>3 DEF RowsInv
<1>7. setup.mode = "remote" => ps' = NoState /\ \A q \in Run : ~Scanning(q)'
  BY <1>2 DEF RowsInv, Scanning
<1>8. QED
  BY <1>2, <1>3, <1>6, <1>7 DEF RowsInv

LEMMA RowsReplace ==
  ASSUME TypeInv, RowsInv, ReplaceLog
  PROVE  RowsInv'
<1>1. /\ log' = [EmptyLog EXCEPT !.mtime = log.mtime + 1]
      /\ UNCHANGED <<setup, ps, rows, collect>>
  BY DEF ReplaceLog, WriteLog
<1>2. log'.cut = W /\ Size(log') = 0
  BY <1>1 DEF EmptyLog, Size, W
<1>3. ps # NoState => ps.offset \in Nat /\ ps.offset > 0
  BY DEF TypeInv, TypeOK, ParseState, ReplaceLog, States
<1>4. ~Describes(ps)'
  BY <1>1, <1>2, <1>3 DEF Describes, NeedsReset
<1>5. ASSUME replaced' # "during"
      PROVE  replaced # "during" /\ \A q \in Run : ScanOf(collect[q])'
  <2>1. replaced # "during" /\ \A q \in Run : ~Scanning(q)
    BY <1>5 DEF ReplaceLog
  <2>2. QED
    BY <1>1, <2>1 DEF Scanning, ScanOf
<1>6. (\A k \in LineNo : rows[k] = NoRow) => RowsOnly'
  BY <1>1 DEF RowsOnly
<1>7. setup.mode = "remote" => ps' = NoState /\ \A q \in Run : ~Scanning(q)'
  BY <1>1 DEF RowsInv, Scanning
<1>8. QED
  BY <1>1, <1>2, <1>4, <1>5, <1>6, <1>7 DEF RowsInv

LEMMA RowsStep == TypeInv /\ RowsInv /\ [Next]_vars => RowsInv'
<1> SUFFICES ASSUME TypeInv, RowsInv, [Next]_vars PROVE RowsInv'
  OBVIOUS
<1>1. CASE Time \/ (\E m \in setup.machines : Push(m)) \/ UNCHANGED vars
  BY <1>1, RowsOfOthers DEF Time, Push, localVars, vars
<1>2. CASE \E k \in LineNo : PushRecord(k)
  <2>1. /\ setup.mode = "remote" /\ UNCHANGED <<setup, log, ps, collect, replaced>>
    BY <1>2 DEF PushRecord
  <2>2. ps = NoState /\ \A q \in Run : ~Scanning(q)
    BY <2>1 DEF RowsInv
  <2>3. \A q \in Run : ScanOf(collect[q])'
    BY <2>1, <2>2 DEF Scanning, ScanOf
  <2>4. ~Describes(ps)'
    BY <2>1, <2>2 DEF Describes
  <2>5. setup'.mode = "remote" /\ ps' = NoState /\ \A q \in Run : ~Scanning(q)'
    BY <2>1, <2>2 DEF Scanning
  <2>6. QED
    BY <2>1, <2>3, <2>4, <2>5 DEF RowsInv
<1>3. ASSUME NEW r \in Run, Begin(r) \/ Collect(r)
      PROVE  RowsInv'
  <2>1. /\ collect[r] \in Collects /\ NoCollect.step = "idle"
    BY DEF TypeInv, TypeOK, NoCollect
  <2>2. ASSUME NEW c, c.step \notin {"stat", "read", "save"}, collect' = [collect EXCEPT ![r] = c],
               UNCHANGED <<setup, log, ps, rows, replaced>>
        PROVE  RowsInv'
    BY <2>2, NotScanning, RowsOfCollect
  <2>3. CASE Fails(r) \/ Finish(r)
    BY <2>1, <2>2, <2>3 DEF Fails, Finish, Items
  <2>4. CASE List(r)
    <3> DEFINE c == [NoCollect EXCEPT !.step = "quota", !.began = collect[r].began, !.built = now,
                                      !.total = Cardinality({k \in LineNo : rows[k] # NoRow}),
                                      !.limits = CurrentLimits(LatestObserved, now)]
    <3>1. c.step = "quota"
      BY DEF NoCollect
    <3>2. collect' = [collect EXCEPT ![r] = c] /\ UNCHANGED <<setup, log, ps, rows, replaced>>
      BY <2>4 DEF List
    <3> HIDE DEF c
    <3>3. QED
      BY <2>2, <3>1, <3>2
  <2>5. CASE Ask(r)
    <3>1. [collect[r] EXCEPT !.step = "fetch"].step = "fetch"
      BY <2>1 DEF Collects
    <3>2. /\ collect' = [collect EXCEPT ![r] = [collect[r] EXCEPT !.step = "fetch"]]
          /\ UNCHANGED <<setup, log, ps, rows, replaced>>
      BY <2>5 DEF Ask, Goes
    <3>3. QED
      BY <2>2, <3>1, <3>2
  <2>6. CASE Fetching(r)
    BY <2>6, RowsOfOthers DEF Fetching, localVars
  <2>7. QED
    BY <1>3, <2>3, <2>4, <2>5, <2>6, RowsBegin, RowsStat, RowsRead, RowsSave DEF Collect
<1>4. QED
  BY <1>1, <1>2, <1>3, RowsAppend, RowsReplace DEF Next

LEMMA RowsStart == Init => RowsInv
<1> SUFFICES ASSUME Init PROVE RowsInv
  OBVIOUS
<1>1. /\ log.cut = W /\ ps = NoState /\ rows = [k \in LineNo |-> NoRow]
      /\ collect = [r \in Run |-> NoCollect]
  BY DEF Init, EmptyLog
<1>2. NoCollect.step = "idle" /\ \A r \in Run : collect[r] = NoCollect
  BY <1>1 DEF NoCollect
<1>3. ASSUME NEW r \in Run
      PROVE  ~Scanning(r) /\ ScanOf(collect[r])
  <2>1. collect[r].step = "idle"
    BY <1>2
  <2>2. QED
    BY <2>1 DEF Scanning, ScanOf
<1>4. QED
  BY <1>1, <1>3 DEF RowsInv, RowsOnly, Describes

\* The rows and the parse state agree about the file, whatever collects overlap: every line
\* before the stored offset has its row, and no row says anything else.
THEOREM RowsFollowFile == Spec => []RowsOfFile
<1> DEFINE Inv == TypeInv /\ upstream = setup.upstream /\ RowsInv
<1>1. Init => Inv
  BY TypeStart, RowsStart
<1>2. Inv /\ [Next]_vars => Inv'
  BY TypeStep, RowsStep
<1>3. Inv => RowsOfFile
  BY DEF RowsInv, RowsOfFile, Describes, RowsOnly, Covers
<1>4. QED
  BY <1>1, <1>2, <1>3, PTL DEF Spec

---------------------------------------------------------------------------
(* The total of a file that only grows.                                    *)

\* The lines with usage before an offset, and those that have a row.
Before(offset) == {k \in UsageLines(log, 0) : TextEnd(k) <= offset}

Stored == {k \in LineNo : rows[k] # NoRow}

\* The total a collect will show has every line that was there when it began.
CountOf(c) ==
  /\ c.step = "stat" => (c.ps # NoState => Describes(c.ps))
  /\ c.step \in {"stat", "read"} => c.began <= Used(log)
  /\ c.step \in {"read", "save"} => ~c.reset
  /\ c.step = "save" => Describes(c.next) /\ c.began <= Cardinality(Before(c.next.offset))
  /\ c.step = "list" => c.began <= Cardinality(Stored)
  /\ c.step \in {"quota", "fetch"} => c.began <= c.total /\ c.total <= Used(log)

\* No state of a file that only grows asks for a reset, so no row is ever deleted.
TotalInv ==
  /\ setup.mode = "builtin" /\ replaced = "no" =>
       /\ ps # NoState => Describes(ps)
       /\ \A r \in Run : CountOf(collect[r])
  /\ TotalIsTruth

LEMMA Fewer ==
  ASSUME NEW A, NEW B, A \subseteq B, B \subseteq LineNo
  PROVE  /\ Cardinality(A) \in 0..MaxLines /\ Cardinality(B) \in 0..MaxLines
         /\ Cardinality(A) <= Cardinality(B)
<1>1. MaxLines \in Nat /\ A \in SUBSET (1..MaxLines) /\ B \in SUBSET (1..MaxLines)
  BY LocalConstants DEF LineNo
<1>2. IsFiniteSet(B) /\ Cardinality(A) \in 0..MaxLines /\ Cardinality(B) \in 0..MaxLines
  BY <1>1, Within
<1>3. QED
  BY <1>2, FS_Subset

LEMMA LinesOfFile ==
  ASSUME TypeInv
  PROVE  /\ UsageLines(log, 0) \subseteq LineNo /\ Stored \subseteq LineNo
         /\ \A o : Before(o) \subseteq UsageLines(log, 0)
<1>1. Len(log.lines) \in Nat /\ Len(log.lines) <= MaxLines
  BY DEF TypeInv, TypeOK, Log
<1>2. UsageLines(log, 0) \subseteq LineNo
  BY <1>1, LocalConstants DEF UsageLines, LineNo
<1>3. QED
  BY <1>2 DEF Before, Stored

\* What a scan counts on stays there in a file that grew and in rows that grew.
LEMMA CountGrown ==
  ASSUME NEW q \in Run, NEW c \in Collects, collect'[q] = c, CountOf(c),
         Describes(c.ps) => Describes(c.ps)', Describes(c.next) => Describes(c.next)',
         Used(log) \in Nat, Used(log)' \in Nat, Used(log) <= Used(log)',
         Cardinality(Stored) \in Nat, Cardinality(Stored)' \in Nat,
         Cardinality(Stored) <= Cardinality(Stored)',
         Cardinality(Before(c.next.offset)) \in Nat, Cardinality(Before(c.next.offset))' \in Nat,
         Cardinality(Before(c.next.offset)) <= Cardinality(Before(c.next.offset))'
  PROVE  CountOf(collect[q])'
<1>1. c.began \in Int /\ c.total \in Int
  BY DEF Collects
<1>2. QED
  BY <1>1 DEF CountOf, Describes

LEMMA SameCount ==
  ASSUME UNCHANGED <<log, rows>>, NEW q \in Run, NEW c, collect'[q] = c, CountOf(c)
  PROVE  CountOf(collect[q])'
BY DEF CountOf, Describes, Used, Before, Stored

\* A collect goes on, and neither the file nor what is stored changes.
LEMMA TotalOfCollect ==
  ASSUME TypeInv, TotalInv, NEW r \in Run, NEW c, collect' = [collect EXCEPT ![r] = c],
         UNCHANGED <<setup, log, ps, rows, replaced>>, TotalIsTruth',
         setup.mode = "builtin" /\ replaced = "no" => CountOf(c)
  PROVE  TotalInv'
<1>1. \A q \in Run : collect'[q] = IF q = r THEN c ELSE collect[q]
  BY DEF TypeInv, TypeOK
<1>2. ASSUME setup.mode = "builtin", replaced = "no", NEW q \in Run
      PROVE  CountOf(collect[q])'
  <2>1. CASE q = r
    BY <1>1, <1>2, <2>1, SameCount
  <2>2. CASE q # r
    BY <1>1, <1>2, <2>2, SameCount DEF TotalInv
  <2>3. QED
    BY <2>1, <2>2
<1>3. setup.mode = "builtin" /\ replaced = "no" /\ ps # NoState => Describes(ps)'
  BY DEF TotalInv, Describes
<1>4. QED
  BY <1>2, <1>3 DEF TotalInv

\* No collect moves.
LEMMA TotalOfOthers ==
  ASSUME TypeInv, TotalInv, UNCHANGED <<setup, log, ps, rows, replaced, collect, shown>>
  PROVE  TotalInv'
<1>1. ASSUME setup.mode = "builtin", replaced = "no", NEW q \in Run
      PROVE  CountOf(collect[q])'
  BY <1>1, SameCount DEF TotalInv
<1>2. TotalIsTruth'
  BY DEF TotalInv, TotalIsTruth, Used
<1>3. QED
  BY <1>1, <1>2 DEF TotalInv, Describes

LEMMA TotalBegin ==
  ASSUME TypeInv, TotalInv, NEW r \in Run, Begin(r)
  PROVE  TotalInv'
<1> DEFINE c == [NoCollect EXCEPT !.step = IF setup.mode = "remote" THEN "list" ELSE "stat",
                                  !.ps = ps, !.began = Used(log)]
<1>1. /\ c.step = (IF setup.mode = "remote" THEN "list" ELSE "stat")
      /\ c.ps = ps /\ c.began = Used(log)
      /\ collect' = [collect EXCEPT ![r] = c] /\ UNCHANGED <<setup, log, ps, rows, replaced, shown>>
  BY DEF Begin, NoCollect
<1> HIDE DEF c
<1>2. Used(log) \in Nat
  BY LinesOfFile, Fewer DEF Used
<1>3. setup.mode = "builtin" /\ replaced = "no" => CountOf(c)
  BY <1>1, <1>2 DEF TotalInv, CountOf
<1>4. TotalIsTruth'
  BY <1>1 DEF TotalInv, TotalIsTruth, Used
<1>5. QED
  BY <1>1, <1>3, <1>4, TotalOfCollect

\* Where nothing is left to read every line has its row.
LEMMA TotalStat ==
  ASSUME TypeInv, RowsInv, TotalInv, NEW r \in Run, Stat(r)
  PROVE  TotalInv'
<1> DEFINE due    == collect[r].ps # NoState /\ NeedsReset(collect[r].ps, log, Version)
           offset == IF collect[r].ps = NoState \/ due THEN 0 ELSE collect[r].ps.offset
           d      == [collect[r] EXCEPT !.step = "read", !.offset = offset, !.reset = due,
                                        !.mtime = log.mtime]
           e      == [collect[r] EXCEPT !.step = "list"]
<1>1. /\ collect[r] \in Collects /\ log \in Log
      /\ collect[r].step = "stat" /\ UNCHANGED <<setup, log, ps, rows, replaced, shown>>
  BY DEF TypeInv, TypeOK, Stat, At
<1>2. TotalIsTruth'
  BY <1>1 DEF TotalInv, TotalIsTruth, Used
<1>3. ASSUME setup.mode = "builtin", replaced = "no"
      PROVE  /\ collect[r].began <= Used(log) /\ ~due
             /\ collect[r].ps = NoState \/ Covers(collect[r].ps.offset)
  <2>1. CountOf(collect[r]) /\ ScanOf(collect[r])
    BY <1>3 DEF TotalInv, RowsInv
  <2>2. QED
    BY <1>1, <2>1 DEF CountOf, ScanOf, Describes
<1>4. CASE Goes(r, "list") /\ Size(log) = offset
  <2>1. /\ e.step = "list" /\ e.began = collect[r].began
        /\ collect' = [collect EXCEPT ![r] = e]
    BY <1>1, <1>4 DEF Collects, Goes
  <2>2. ASSUME setup.mode = "builtin", replaced = "no"
        PROVE  e.began <= Cardinality(Stored)
    <3>1. UsageLines(log, 0) \subseteq Stored
      <4>1. SUFFICES ASSUME NEW k \in UsageLines(log, 0) PROVE k \in Stored
        OBVIOUS
      <4>2. k \in LineNo /\ TextEnd(k) <= offset
        BY <1>4, <4>1, LinesOfFile DEF UsageLines, Seen
      <4>3. TextEnd(k) \in Nat /\ TextEnd(k) > 0
        BY <4>2 DEF LineNo, TextEnd, LineStart, W
      <4>4. collect[r].ps # NoState /\ offset = collect[r].ps.offset
        BY <1>3, <2>2, <4>2, <4>3
      <4>5. QED
        BY <1>3, <2>2, <4>1, <4>2, <4>4 DEF Covers, Stored
    <3>2. Used(log) \in Nat /\ Cardinality(Stored) \in Nat /\ Used(log) <= Cardinality(Stored)
      BY <3>1, LinesOfFile, Fewer DEF Used
    <3>3. collect[r].began \in Nat
      BY <1>1, LocalConstants DEF Collects
    <3>4. QED
      BY <1>3, <2>1, <2>2, <3>2, <3>3
  <2> HIDE DEF e
  <2>3. setup.mode = "builtin" /\ replaced = "no" => CountOf(e)
    BY <2>1, <2>2 DEF CountOf
  <2>4. QED
    BY <1>1, <1>2, <2>1, <2>3, TotalOfCollect
<1>5. CASE collect' = [collect EXCEPT ![r].step = "read", ![r].offset = offset,
                                      ![r].reset = due, ![r].mtime = log.mtime]
  <2>1. collect' = [collect EXCEPT ![r] = d]
    BY <1>5 DEF TypeInv, TypeOK
  <2>2. d.step = "read" /\ d.reset = due /\ d.began = collect[r].began
    BY <1>1 DEF Collects
  <2> HIDE DEF d
  <2>3. setup.mode = "builtin" /\ replaced = "no" => CountOf(d)
    BY <1>3, <2>2 DEF CountOf
  <2>4. QED
    BY <1>1, <1>2, <2>1, <2>3, TotalOfCollect
<1>6. QED
  BY <1>4, <1>5 DEF Stat

LEMMA TotalRead ==
  ASSUME TypeInv, RowsInv, TotalInv, NEW r \in Run, Read(r)
  PROVE  TotalInv'
<1> DEFINE offset == collect[r].offset
           next   == [offset |-> NextOffset(log, offset), mtime |-> collect[r].mtime,
                      parser |-> Version]
           read   == [k \in LineNo |-> IF k \in UsageLines(log, offset)
                                       THEN RowOf(log, offset, k, FALSE, Version) ELSE NoRow]
           c      == [collect[r] EXCEPT !.step = "save", !.next = next, !.read = read]
<1>1. /\ collect[r] \in Collects /\ log \in Log /\ log.cut = W /\ Len(log.lines) <= MaxLines
      /\ collect[r].step = "read" /\ UNCHANGED <<setup, log, ps, rows, replaced, shown>>
      /\ offset \in Nat /\ collect[r].mtime \in Nat
  BY DEF TypeInv, TypeOK, RowsInv, Read, At, Collects
<1>2. /\ c.step = "save" /\ c.next = next /\ c.reset = collect[r].reset
      /\ c.began = collect[r].began /\ collect' = [collect EXCEPT ![r] = c]
  BY <1>1 DEF Collects, Read
<1>3. TotalIsTruth'
  BY <1>1 DEF TotalInv, TotalIsTruth, Used
<1>4. ASSUME setup.mode = "builtin", replaced = "no"
      PROVE  /\ ~collect[r].reset /\ Describes(next)
             /\ collect[r].began <= Cardinality(Before(next.offset))
  <2>1. CountOf(collect[r]) /\ ScanOf(collect[r])
    BY <1>4 DEF TotalInv, RowsInv
  <2>2. /\ ~collect[r].reset /\ collect[r].began <= Used(log)
        /\ offset <= Size(log) /\ collect[r].mtime <= log.mtime
    BY <1>1, <2>1 DEF CountOf, ScanOf
  <2>3. Size(log) \in Nat /\ log.mtime \in Nat
    BY <1>1, SizeOf DEF Log
  <2>4. next.offset = Size(log)
    BY <1>1, <2>2, <2>3 DEF NextOffset
  <2>5. next \in ParseState /\ next # NoState
    BY <1>1, <2>3, <2>4, ScanMarkers DEF ParseState, Version
  <2>6. Describes(next)
    BY <1>1, <2>2, <2>3, <2>4, <2>5 DEF Describes, NeedsReset
  <2>7. Before(next.offset) = UsageLines(log, 0)
    BY <2>4 DEF Before, UsageLines, Seen
  <2>8. QED
    BY <2>2, <2>6, <2>7 DEF Used
<1> HIDE DEF next, read, c
<1>5. setup.mode = "builtin" /\ replaced = "no" => CountOf(c)
  BY <1>2, <1>4 DEF CountOf
<1>6. QED
  BY <1>1, <1>2, <1>3, <1>5, TotalOfCollect

LEMMA TotalSave ==
  ASSUME TypeInv, RowsInv, TotalInv, NEW r \in Run, Save(r)
  PROVE  TotalInv'
<1> DEFINE d == [NoCollect EXCEPT !.step = "list", !.began = collect[r].began]
           next == collect[r].next
<1>1. /\ collect[r].step = "save" /\ collect \in [Run -> Collects]
      /\ UNCHANGED <<setup, log, shown>> /\ ps' = next /\ rows' = Saved(r)
  BY DEF TypeInv, TypeOK, Save, At
<1>2. d.step = "list" /\ d.began = collect[r].began /\ collect' = [collect EXCEPT ![r] = d]
  BY DEF Save, NoCollect
<1> HIDE DEF d
<1>3. \A q \in Run : collect'[q] = IF q = r THEN d ELSE collect[q]
  BY <1>1, <1>2
<1>4. replaced' = "no" => replaced = "no"
  BY DEF Save
<1>5. ASSUME setup.mode = "builtin", replaced = "no"
      PROVE  Describes(ps)' /\ \A q \in Run : CountOf(collect[q])'
  <2>1. CountOf(collect[r]) /\ ScanOf(collect[r])
    BY <1>5 DEF TotalInv, RowsInv
  <2>2. Describes(next) /\ ~collect[r].reset /\ collect[r].began <= Cardinality(Before(next.offset))
    BY <1>1, <2>1 DEF CountOf
  <2>3. Describes(ps)'
    BY <1>1, <2>2 DEF Describes
  <2>4. Before(next.offset) \subseteq Stored'
    BY <1>1, <2>1, SavedRows, LinesOfFile DEF Before, Stored
  <2>5. Stored \subseteq Stored' /\ Stored' \subseteq LineNo
    BY <1>1, <2>2 DEF Stored, Saved
  <2>6. collect[r].began <= Cardinality(Stored')
    <3>1. /\ Cardinality(Before(next.offset)) \in Nat /\ Cardinality(Stored') \in Nat
          /\ Cardinality(Before(next.offset)) <= Cardinality(Stored')
      BY <2>4, <2>5, Fewer
    <3>2. collect[r].began \in Nat
      BY <1>1, LocalConstants DEF Collects
    <3>3. QED
      BY <2>2, <3>1, <3>2
  <2>7. ASSUME NEW q \in Run
        PROVE  CountOf(collect[q])'
    <3>1. CASE q = r
      BY <1>2, <1>3, <2>6, <3>1 DEF CountOf
    <3>2. CASE q # r
      <4>1. CountOf(collect[q]) /\ collect'[q] = collect[q] /\ collect[q] \in Collects
        BY <1>1, <1>3, <1>5, <3>2 DEF TotalInv
      <4>2. /\ Cardinality(Stored) \in Nat /\ Cardinality(Stored)' \in Nat
            /\ Cardinality(Stored) <= Cardinality(Stored)'
        BY <2>5, Fewer
      <4>3. /\ Used(log) \in Nat /\ Used(log)' = Used(log)
            /\ Cardinality(Before(collect[q].next.offset)) \in Nat
        BY <1>1, LinesOfFile, Fewer DEF Used
      <4>4. QED
        BY <1>1, <4>1, <4>2, <4>3 DEF CountOf, Describes, Before, Collects
    <3>3. QED
      BY <3>1, <3>2
  <2>8. QED
    BY <2>3, <2>7
<1>6. TotalIsTruth'
  BY <1>1, <1>4 DEF TotalInv, TotalIsTruth, Used
<1>7. QED
  BY <1>1, <1>4, <1>5, <1>6 DEF TotalInv

LEMMA TotalList ==
  ASSUME TypeInv, RowsInv, TotalInv, NEW r \in Run, List(r)
  PROVE  TotalInv'
<1> DEFINE c == [NoCollect EXCEPT !.step = "quota", !.began = collect[r].began, !.built = now,
                                  !.total = Cardinality({k \in LineNo : rows[k] # NoRow}),
                                  !.limits = CurrentLimits(LatestObserved, now)]
<1>1. collect[r].step = "list" /\ UNCHANGED <<setup, log, ps, rows, replaced, shown>>
  BY DEF List, At
<1>2. /\ c.step = "quota" /\ c.began = collect[r].began /\ c.total = Cardinality(Stored)
      /\ collect' = [collect EXCEPT ![r] = c]
  BY DEF List, NoCollect, Stored
<1> HIDE DEF c
<1>3. ASSUME setup.mode = "builtin", replaced = "no"
      PROVE  CountOf(c)
  <2>1. collect[r].began <= Cardinality(Stored)
    BY <1>1, <1>3 DEF TotalInv, CountOf
  <2>2. RowsOnly
    BY <1>3 DEF TotalInv, RowsInv
  <2>3. Stored \subseteq UsageLines(log, 0)
    BY <2>2 DEF Stored, RowsOnly
  <2>4. Cardinality(Stored) <= Used(log)
    BY <2>3, LinesOfFile, Fewer DEF Used
  <2>5. QED
    BY <1>2, <2>1, <2>4 DEF CountOf
<1>4. TotalIsTruth'
  BY <1>1 DEF TotalInv, TotalIsTruth, Used
<1>5. QED
  BY <1>1, <1>2, <1>3, <1>4, TotalOfCollect

\* What a collect returns is what it counted.
LEMMA TotalFinish ==
  ASSUME TypeInv, TotalInv, NEW r \in Run, Finish(r)
  PROVE  TotalInv'
<1>1. PICK fetched : Items(r, fetched)
  BY DEF Finish
<1>2. /\ collect[r].step \in {"quota", "fetch"}
      /\ collect' = [collect EXCEPT ![r] = NoCollect]
      /\ UNCHANGED <<setup, log, ps, rows, replaced>>
      /\ shown'.total = collect[r].total /\ shown'.began = collect[r].began
  BY <1>1 DEF Finish, At, Items
<1>3. TotalIsTruth'
  <2>1. SUFFICES ASSUME setup.mode = "builtin", replaced = "no"
                 PROVE  shown'.began <= shown'.total /\ shown'.total <= Used(log)
    BY <1>2 DEF TotalIsTruth, Used
  <2>2. CountOf(collect[r])
    BY <2>1 DEF TotalInv
  <2>3. QED
    BY <1>2, <2>2 DEF CountOf
<1>4. CountOf(NoCollect)
  BY DEF CountOf, NoCollect
<1>5. QED
  BY <1>2, <1>3, <1>4, TotalOfCollect

LEMMA TotalAppend ==
  ASSUME TypeInv, RowsInv, TotalInv, AppendLine, TypeInv'
  PROVE  TotalInv'
<1>1. PICK usage \in setup.usage :
         WriteLog([log EXCEPT !.lines = Append(@, [usage |-> usage, model |-> NoModel]),
                              !.mtime = @ + 1])
  BY Zenon DEF AppendLine
<1> DEFINE line == [usage |-> usage, model |-> NoModel]
<1>2. /\ log \in [exists : BOOLEAN, lines : Seq(Line), cut : 1..W, mtime : Nat] /\ log.cut = W
      /\ log' = [log EXCEPT !.lines = Append(log.lines, line), !.mtime = log.mtime + 1]
      /\ UNCHANGED <<setup, ps, rows, collect, replaced, shown>> /\ log \in Log
      /\ Len(log.lines) <= MaxLines
  BY <1>1 DEF TypeInv, TypeOK, RowsInv, Log, WriteLog, AppendLine
<1> HIDE DEF line
<1>3. log'.lines = Append(log.lines, line) /\ log'.cut = W /\ log'.mtime = log.mtime + 1
  BY <1>2
<1>4. Size(log) \in Nat /\ log.mtime \in Nat /\ Size(log') = Size(log) + W
  BY <1>2, <1>3, SizeOf, Appended
<1>5. ASSUME NEW s \in ParseState \cup {NoState}, Describes(s)
      PROVE  Describes(s)'
  BY <1>3, <1>4, <1>5 DEF Describes, NeedsReset, ParseState, W
<1>6. UsageLines(log, 0) \subseteq UsageLines(log', 0)
  <2>1. \A k \in UsageLines(log, 0) : k \in 1..Len(log.lines)
    BY DEF UsageLines
  <2>2. QED
    BY <1>2, <1>3, <2>1, Appended
<1>7. UsageLines(log', 0) \subseteq LineNo
  <2>1. Len(log'.lines) \in Nat /\ Len(log'.lines) <= MaxLines
    BY DEF TypeInv, TypeOK, Log
  <2>2. QED
    BY <2>1, LocalConstants DEF UsageLines, LineNo
<1>8. Used(log) \in Nat /\ Used(log') \in Nat /\ Used(log) <= Used(log')
  BY <1>6, <1>7, Fewer DEF Used
<1>9. ASSUME setup.mode = "builtin", replaced = "no", NEW q \in Run
      PROVE  CountOf(collect[q])'
  <2>1. PICK c \in Collects : CountOf(c) /\ collect'[q] = c
    BY <1>2, <1>9 DEF TypeInv, TypeOK, TotalInv
  <2>2. c.ps \in ParseState \cup {NoState} /\ c.next \in ParseState \cup {NoState}
    BY <2>1 DEF Collects
  <2>3. /\ Cardinality(Stored) \in Nat /\ Stored' = Stored
    BY <1>2, LinesOfFile, Fewer DEF Stored
  <2>4. Before(c.next.offset) \subseteq Before(c.next.offset)'
    BY <1>2, <1>6 DEF Before
  <2>5. Before(c.next.offset)' \subseteq LineNo
    BY <1>2, <1>7 DEF Before
  <2>6. /\ Cardinality(Before(c.next.offset)) \in Nat
        /\ Cardinality(Before(c.next.offset)') \in Nat
        /\ Cardinality(Before(c.next.offset)) <= Cardinality(Before(c.next.offset)')
    BY <2>4, <2>5, Fewer
  <2>7. /\ Describes(c.ps) => Describes(c.ps)'
        /\ Describes(c.next) => Describes(c.next)'
    BY <1>2, <1>5, <2>2 DEF Describes
  <2>8. QED
    BY <1>8, <2>1, <2>3, <2>6, <2>7, CountGrown
<1>10. setup.mode = "builtin" /\ replaced = "no" /\ ps # NoState => Describes(ps)'
  BY <1>2, <1>5 DEF TotalInv, TypeInv, TypeOK, Describes
<1>11. TotalIsTruth'
  <2>1. shown.total \in Nat
    BY LocalConstants DEF TypeInv, TypeOK
  <2>2. QED
    BY <1>2, <1>8, <2>1 DEF TotalInv, TotalIsTruth
<1>12. QED
  BY <1>2, <1>9, <1>10, <1>11 DEF TotalInv

LEMMA TotalStep ==
  ASSUME TypeInv, TypeInv', RowsInv, TotalInv, [Next]_vars
  PROVE  TotalInv'
<1>1. CASE Time \/ (\E m \in setup.machines : Push(m)) \/ UNCHANGED vars
  BY <1>1, TotalOfOthers DEF Time, Push, localVars, vars
<1>2. CASE (\E k \in LineNo : PushRecord(k)) \/ ReplaceLog
  <2>1. UNCHANGED setup /\ (setup.mode = "remote" \/ replaced' # "no")
    BY <1>2 DEF PushRecord, ReplaceLog, WriteLog
  <2>2. QED
    BY <2>1 DEF TotalInv, TotalIsTruth
<1>3. ASSUME NEW r \in Run, Begin(r) \/ Collect(r)
      PROVE  TotalInv'
  <2>1. CASE Fails(r)
    <3>1. CountOf(NoCollect)
      BY DEF CountOf, NoCollect
    <3>2. /\ collect' = [collect EXCEPT ![r] = NoCollect]
          /\ UNCHANGED <<setup, log, ps, rows, replaced, shown>>
      BY <2>1 DEF Fails
    <3>3. TotalIsTruth'
      BY <3>2 DEF TotalInv, TotalIsTruth, Used
    <3>4. QED
      BY <3>1, <3>2, <3>3, TotalOfCollect
  <2>2. CASE Ask(r)
    <3> DEFINE c == [collect[r] EXCEPT !.step = "fetch"]
    <3>1. /\ collect[r].step = "quota" /\ c.step = "fetch"
          /\ c.began = collect[r].began /\ c.total = collect[r].total
          /\ collect' = [collect EXCEPT ![r] = c]
          /\ UNCHANGED <<setup, log, ps, rows, replaced, shown>>
      BY <2>2 DEF Ask, At, Goes, TypeInv, TypeOK, Collects
    <3> HIDE DEF c
    <3>2. setup.mode = "builtin" /\ replaced = "no" => CountOf(c)
      BY <3>1 DEF TotalInv, CountOf
    <3>3. TotalIsTruth'
      BY <3>1 DEF TotalInv, TotalIsTruth, Used
    <3>4. QED
      BY <3>1, <3>2, <3>3, TotalOfCollect
  <2>3. CASE Fetching(r)
    BY <2>3, TotalOfOthers DEF Fetching, localVars
  <2>4. QED
    BY <1>3, <2>1, <2>2, <2>3, TotalBegin, TotalStat, TotalRead, TotalSave, TotalList, TotalFinish
       DEF Collect
<1>4. QED
  BY <1>1, <1>2, <1>3, TotalAppend DEF Next

LEMMA TotalStart == Init => TotalInv
<1> SUFFICES ASSUME Init PROVE TotalInv
  OBVIOUS
<1>1. NoCollect.step = "idle" /\ \A r \in Run : collect[r] = NoCollect
  BY DEF Init, NoCollect
<1>2. ps = NoState /\ shown.total = 0 /\ shown.began = 0
  BY DEF Init
<1>3. TypeInv
  BY TypeStart
<1>4. Used(log) \in Nat
  BY <1>3, LinesOfFile, Fewer DEF Used
<1>5. QED
  BY <1>1, <1>2, <1>4 DEF TotalInv, TotalIsTruth, CountOf

\* The total shown of a file that only grows counts every line that was there when the
\* collect began, once, and nothing else (ListLocalUsageRecords after an incremental scan).
THEOREM TotalKept == Spec => []TotalIsTruth
<1> DEFINE Inv == TypeInv /\ upstream = setup.upstream /\ RowsInv /\ TotalInv
<1>1. Init => Inv
  BY TypeStart, RowsStart, TotalStart
<1>2. Inv /\ [Next]_vars => Inv'
  BY TypeStep, RowsStep, TotalStep
<1>3. Inv => TotalIsTruth
  BY DEF TotalInv
<1>4. QED
  BY <1>1, <1>2, <1>3, PTL DEF Spec
=============================================================================
