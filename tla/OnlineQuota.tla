----------------------------- MODULE OnlineQuota -----------------------------
(***************************************************************************)
(* infohub: the clients that ask an upstream for the 5H and weekly quota   *)
(* with the credentials of a CLI (CodexOnlineQuotaClient,                  *)
(* ClaudeOnlineQuotaClient).  Overlapping collects share one client: its   *)
(* cached answer, its circuit breaker, its status and the path that worked *)
(* last, each under a lock of its own and none over a whole fetch.         *)
(*                                                                         *)
(* Durations are in units of about a minute; an observation carries the    *)
(* moment the upstream made it.                                            *)
(***************************************************************************)
EXTENDS Integers, Sequences

CONSTANTS
  Run,           \* the collects that can overlap
  Paths,         \* pathOrder: the endpoints tried in turn
  NoObs,         \* a window nothing is known about
  StaleAfter,    \* how long an answer is served again
  RateLimitTTL,  \* how long no request is sent after 429,
  TransportTTL,  \* after a failure of the transport or the server,
  NotFoundTTL,   \* and after 404 on every path
  LastMoment     \* bound: the clock

ASSUME QuotaConstants ==
  /\ StaleAfter \in Nat \ {0} /\ LastMoment \in Nat
  /\ RateLimitTTL \in Nat /\ TransportTTL \in Nat /\ NotFoundTTL \in Nat
  /\ RateLimitTTL <= TransportTTL /\ RateLimitTTL <= NotFoundTTL
  /\ Paths \in Seq(STRING) /\ Paths # <<>>
  /\ \A m, n \in DOMAIN Paths : Paths[m] = Paths[n] => m = n

VARIABLES
  now,       \* the clock
  upstream,  \* whose client it is, how the upstream may answer, and its quota over time
  cache,     \* lastResult
  breaker,   \* breakerUntil and breakerStatus
  status,    \* lastStatus
  goodPath,  \* successPath
  fetch,     \* the fetches in progress
  limited    \* history: the last moment a 429 was handled

clientVars == <<cache, breaker, status, goodPath, fetch, limited>>

\* The reset of a window whose answer names none.
NoReset == -1

\* One window of a quota: when it starts anew, and when it was observed.
Obs == [reset : Nat \cup {NoReset}, seen : Nat]

Limits == [five : Obs \cup {NoObs}, week : Obs \cup {NoObs}]

NoLimits == [five |-> NoObs, week |-> NoObs]

Never == -LastMoment - 1

Moments == 0..LastMoment

\* How a request can end.
Answers == {"ok", "no_token", "unauthorized", "rate_limited", "unavailable", "unexpected",
            "not_found"}

NoFetch == [step |-> "none", started |-> 0, left |-> <<>>, answer |-> "none",
            limits |-> NoLimits, ok |-> FALSE]

ClientInit ==
  /\ now = 0
  /\ cache = [at |-> Never, limits |-> NoLimits]
  /\ breaker = [until |-> Never, status |-> "none"]
  /\ status = "disabled"
  /\ goodPath = "none"
  /\ fetch = [r \in Run |-> NoFetch]
  /\ limited = Never

PathSet == {Paths[n] : n \in DOMAIN Paths}

Fetch == [step : {"none", "sent", "answered", "returned"}, started : Moments,
          left : Seq(PathSet), answer : Answers \cup {"none"}, limits : Limits, ok : BOOLEAN]

\* What a fetch that failed says of the upstream.
Statuses == {"none", "unauthorized", "rate_limited", "transport_error", "endpoint_404"}

\* The types of a client's state.
ClientTypeOK ==
  /\ now \in Moments /\ limited \in Moments \cup {Never}
  /\ cache \in [at : Moments \cup {Never}, limits : Limits]
  /\ breaker \in [until : Nat \cup {Never}, status : Statuses]
  /\ goodPath \in PathSet \cup {"none"}
  /\ fetch \in [Run -> Fetch]

Tick == now < LastMoment /\ now' = now + 1

---------------------------------------------------------------------------
\* cachedResult
Cached(t) == cache.at # Never /\ cache.limits # NoLimits /\ t < cache.at + StaleAfter

\* breakerActive
Broken(t) == breaker.until # Never /\ t < breaker.until

\* orderedPaths: the path that worked last comes first.
OrderedPaths ==
  IF upstream.client = "claude" THEN SubSeq(Paths, 1, 1)
  ELSE IF goodPath = "none" THEN Paths
  ELSE LET good == CHOOSE n \in DOMAIN Paths : Paths[n] = goodPath
       IN  <<goodPath>> \o SubSeq(Paths, 1, good - 1) \o SubSeq(Paths, good + 1, Len(Paths))

\* The fetch of r returns.
Return(r, limits, found) ==
  fetch' = [fetch EXCEPT ![r] = [NoFetch EXCEPT !.step = "returned",
                                                !.limits = limits, !.ok = found]]

\* FetchRateLimits up to its first request.
StartFetch(r) ==
  /\ UNCHANGED <<cache, breaker, goodPath, limited>>
  /\ \/ /\ Cached(now)
        /\ status' = "ok" /\ Return(r, cache.limits, TRUE)
     \/ /\ ~Cached(now) /\ Broken(now)
        /\ status' = breaker.status /\ Return(r, NoLimits, FALSE)
     \/ \* readAuth finds no usable token
        /\ ~Cached(now) /\ ~Broken(now) /\ "no_token" \in upstream.answers
        /\ status' = "token_missing" /\ Return(r, NoLimits, FALSE)
     \/ /\ ~Cached(now) /\ ~Broken(now)
        /\ fetch' = [fetch EXCEPT ![r] = [NoFetch EXCEPT !.step = "sent", !.started = now,
                                                         !.left = OrderedPaths]]
        /\ status' = IF upstream.client = "claude" THEN "ok" ELSE status

\* The upstream answers; its quota is the one of this moment.
Respond(r) ==
  /\ fetch[r].step = "sent"
  /\ \E answer \in upstream.answers \ {"no_token"} :
       fetch' = [fetch EXCEPT ![r].step = "answered", ![r].answer = answer,
                              ![r].limits = IF answer = "ok" THEN upstream.limits[now]
                                                             ELSE NoLimits]
  /\ UNCHANGED <<cache, breaker, status, goodPath, limited>>

Answered(r, answers) == fetch[r].step = "answered" /\ fetch[r].answer \in answers

\* Mutated form: the answer is stored with the time it was received.
Ok_StoredNow(r) ==
  /\ Answered(r, {"ok"})
  /\ cache' = [at |-> now, limits |-> fetch[r].limits]
  /\ goodPath' = Head(fetch[r].left)
  /\ status' = "ok" /\ Return(r, fetch[r].limits, TRUE)
  /\ UNCHANGED <<breaker, limited>>

\* 200: storeResult stamps the answer with the time the fetch started.
Ok(r) ==
  /\ Answered(r, {"ok"})
  /\ cache' = [at |-> fetch[r].started, limits |-> fetch[r].limits]
  /\ goodPath' = Head(fetch[r].left)
  /\ status' = "ok" /\ Return(r, fetch[r].limits, TRUE)
  /\ UNCHANGED <<breaker, limited>>

\* Mutated form: the break is counted from the start of the fetch.
OpenBreaker_FromStart(r, why, ttl) ==
  breaker' = [until |-> fetch[r].started + ttl, status |-> why]

\* openBreaker
OpenBreaker(r, why, ttl) == breaker' = [until |-> now + ttl, status |-> why]

Fail(r, why) ==
  /\ status' = why /\ Return(r, NoLimits, FALSE)
  /\ UNCHANGED <<cache, goodPath>>

\* 401 or 403 opens no breaker: the CLI may renew its token at any time.
Unauthorized(r) ==
  /\ Answered(r, {"unauthorized"})
  /\ Fail(r, "unauthorized") /\ UNCHANGED <<breaker, limited>>

RateLimited(r) ==
  /\ Answered(r, {"rate_limited"})
  /\ OpenBreaker(r, "rate_limited", RateLimitTTL) /\ limited' = now
  /\ Fail(r, "rate_limited")

\* The transport fails, or the server does.
Unavailable(r) ==
  /\ Answered(r, {"unavailable"})
  /\ OpenBreaker(r, "transport_error", TransportTTL)
  /\ Fail(r, "transport_error") /\ UNCHANGED limited

\* Another status, or a body without quota; for Claude also 404.
Unexpected(r) ==
  /\ \/ Answered(r, {"unexpected"})
     \/ Answered(r, {"not_found"}) /\ upstream.client = "claude"
  /\ Fail(r, "transport_error") /\ UNCHANGED <<breaker, limited>>

\* 404: the next path, or a long break when every path was tried.
NotFound(r) ==
  /\ Answered(r, {"not_found"}) /\ upstream.client = "codex"
  /\ IF Len(fetch[r].left) > 1
     THEN /\ fetch' = [fetch EXCEPT ![r].step = "sent", ![r].left = Tail(@)]
          /\ UNCHANGED <<cache, breaker, status, goodPath>>
     ELSE /\ OpenBreaker(r, "endpoint_404", NotFoundTTL)
          /\ Fail(r, "endpoint_404")
  /\ UNCHANGED limited

Handle(r) ==
  \/ Ok(r) \/ Unauthorized(r) \/ RateLimited(r) \/ Unavailable(r)
  \/ Unexpected(r) \/ NotFound(r)
=============================================================================
