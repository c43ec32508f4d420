---------------------------- MODULE LoginSession ----------------------------
(***************************************************************************)
(* infohub: the login token that the sessions of one JSON service share    *)
(* (internal/collector/httpjson.go, auth.type login_json).                 *)
(*                                                                         *)
(* Every collect opens a session, and collects of one collector may        *)
(* overlap.  A session asks the service's cache for a token and sends its  *)
(* requests with a copy of it; the cache logs in when it has none, with    *)
(* its mutex held until the login is answered.  A request refused with     *)
(* 401 or 403 asks for a token once more, this time without the cached     *)
(* one, and is then sent once more.  The service may refuse any request:   *)
(* a token can expire, or end with a later login of the same account, and  *)
(* a 403 can have nothing to do with the token.                            *)
(*                                                                         *)
(* A token is the number of the login that issued it, 0 is none.           *)
(***************************************************************************)
EXTENDS Integers, FiniteSets

CONSTANTS
  Session,    \* sessions of one service, those of collects that may overlap
  None,       \* no session
  MaxLogins,  \* bound: tokens issued
  MaxRefusals \* bound: requests refused

ASSUME SessionAssumption == None \notin Session /\ IsFiniteSet(Session)
ASSUME BoundAssumption == MaxLogins \in Nat /\ MaxRefusals \in Nat

VARIABLES
  issued,    \* tokens the service has issued
  cache,     \* loginTokenCache.token
  mutex,     \* the session that holds loginTokenCache.mu
  at,        \* where each session is
  force,     \* the argument of its applyAuth
  token,     \* the token in its headers
  answer,    \* the token its login was answered with
  refused,   \* the token its request in hand was first refused with, 0 before that
  refusals,  \* history: first refusals of requests, over all sessions
  lost       \* history: tokens issued by a login that then failed

cacheVars == <<cache, mutex>>
sessionVars == <<at, force, token, answer, refused>>
historyVars == <<refusals, lost>>
vars == <<issued, cacheVars, sessionVars, historyVars>>

Token == 0..issued

Init ==
  /\ issued = 0 /\ refusals = 0 /\ lost = 0
  /\ cache = 0 /\ mutex = None
  /\ at = [s \in Session |-> "closed"]
  /\ force = [s \in Session |-> FALSE]
  /\ token = [s \in Session |-> 0]
  /\ answer = [s \in Session |-> 0]
  /\ refused = [s \in Session |-> 0]

---------------------------------------------------------------------------
(* The token: applyAuth and loginTokenCache.getOrRefresh.                  *)

\* newSession, with headers that have no token.
Open(s) ==
  /\ at[s] = "closed"
  /\ at' = [at EXCEPT ![s] = "asking"]
  /\ UNCHANGED <<issued, cacheVars, force, token, answer, refused, historyVars>>

\* What a session that has the mutex finds in the cache.
Cleared(s) == IF force[s] THEN 0 ELSE cache

\* A token is copied to the headers; the request in hand can be sent.
Takes(s, t) ==
  /\ token' = [token EXCEPT ![s] = t]
  /\ at' = [at EXCEPT ![s] = "sending"]

\* The mutex is free: the cached token is taken, or a login begun under the mutex.
GetCached(s) ==
  /\ at[s] = "asking" /\ mutex = None /\ Cleared(s) # 0
  /\ cache' = Cleared(s)
  /\ Takes(s, Cleared(s))
  /\ UNCHANGED <<issued, mutex, force, answer, refused, historyVars>>

\* Mutated form: the mutex is not held across the login.
BeginLogin_Unlocked(s) ==
  /\ at[s] = "asking" /\ mutex = None /\ Cleared(s) = 0
  /\ cache' = 0
  /\ at' = [at EXCEPT ![s] = "login"]
  /\ UNCHANGED <<issued, mutex, force, token, answer, refused, historyVars>>

BeginLogin(s) ==
  /\ at[s] = "asking" /\ mutex = None /\ Cleared(s) = 0
  /\ cache' = 0 /\ mutex' = s
  /\ at' = [at EXCEPT ![s] = "login"]
  /\ UNCHANGED <<issued, force, token, answer, refused, historyVars>>

\* The service issues a token, its answer is on the way.
Issue(s) ==
  /\ at[s] = "login" /\ answer[s] = 0 /\ issued < MaxLogins
  /\ issued' = issued + 1
  /\ answer' = [answer EXCEPT ![s] = issued + 1]
  /\ UNCHANGED <<cacheVars, at, force, token, refused, historyVars>>

\* Mutated form: the token is not kept.
StoreToken_NotKept(s) ==
  /\ at[s] = "login" /\ answer[s] # 0
  /\ cache' = 0 /\ mutex' = None
  /\ answer' = [answer EXCEPT ![s] = 0]
  /\ Takes(s, answer[s])
  /\ UNCHANGED <<issued, force, refused, historyVars>>

StoreToken(s) ==
  /\ at[s] = "login" /\ answer[s] # 0
  /\ cache' = answer[s] /\ mutex' = None
  /\ answer' = [answer EXCEPT ![s] = 0]
  /\ Takes(s, answer[s])
  /\ UNCHANGED <<issued, force, refused, historyVars>>

\* A request of a session has failed: the collect returns its error, or goes on
\* with its next request and the token it has.
Gives(s) ==
  /\ at' \in {[at EXCEPT ![s] = "closed"], [at EXCEPT ![s] = "sending"]}
  /\ token' = IF at'[s] = "closed" THEN [token EXCEPT ![s] = 0] ELSE token
  /\ force' = [force EXCEPT ![s] = FALSE]
  /\ refused' = [refused EXCEPT ![s] = 0]

\* Mutated form: the mutex is released only by a login that succeeds.
LoginFails_KeepsMutex(s) ==
  /\ at[s] = "login"
  /\ answer' = [answer EXCEPT ![s] = 0]
  /\ Gives(s)
  /\ token[s] = 0 => at'[s] = "closed"
  /\ UNCHANGED <<issued, cacheVars, refusals>>
  /\ lost' = lost + (IF answer[s] # 0 THEN 1 ELSE 0)

\* Mutated form: a session whose first login failed goes on without a token.
LoginFails_GoesOn(s) ==
  /\ at[s] = "login"
  /\ mutex' = None
  /\ answer' = [answer EXCEPT ![s] = 0]
  /\ Gives(s)
  /\ UNCHANGED <<issued, cache, refusals>>
  /\ lost' = lost + (IF answer[s] # 0 THEN 1 ELSE 0)

\* The login is refused or times out, also after the service issued a token, or
\* its answer has none.  The first login of a session ends it.
LoginFails(s) ==
  /\ at[s] = "login"
  /\ mutex' = None
  /\ answer' = [answer EXCEPT ![s] = 0]
  /\ Gives(s)
  /\ token[s] = 0 => at'[s] = "closed"
  /\ UNCHANGED <<issued, cache, refusals>>
  /\ lost' = lost + (IF answer[s] # 0 THEN 1 ELSE 0)

---------------------------------------------------------------------------
(* A request: fetchJSON.                                                   *)

\* The request is answered, or fails: for a reason that is not its token, or refused
\* a second time.  The next one is sent, or the collect returns.
Answered(s) ==
  /\ at[s] = "sending"
  /\ Gives(s)
  /\ UNCHANGED <<issued, cacheVars, answer, historyVars>>

\* Refused for the first time: canRefreshAuth.  A 403 may meet any token.
Refused(s) ==
  /\ at[s] = "sending" /\ refused[s] = 0 /\ refusals < MaxRefusals
  /\ at' = [at EXCEPT ![s] = "asking"]
  /\ force' = [force EXCEPT ![s] = TRUE]
  /\ refused' = [refused EXCEPT ![s] = token[s]]
  /\ refusals' = refusals + 1
  /\ UNCHANGED <<issued, cacheVars, token, answer, lost>>

---------------------------------------------------------------------------
Locks(s) == GetCached(s) \/ BeginLogin(s)
LoginStep(s) == Issue(s) \/ StoreToken(s) \/ LoginFails(s)
RequestStep(s) == Answered(s) \/ Refused(s)

Next == \E s \in Session : Open(s) \/ Locks(s) \/ LoginStep(s) \/ RequestStep(s)

\* The HTTP client has a timeout, so that a login or request ends; a mutex that is
\* free again and again is at last given to one that waits (sync.Mutex).
Fairness ==
  \A s \in Session : /\ SF_vars(Locks(s))
                     /\ WF_vars(LoginStep(s))
                     /\ WF_vars(RequestStep(s))

Spec == Init /\ [][Next]_vars /\ Fairness

---------------------------------------------------------------------------
(* Properties.                                                             *)

At == {"closed", "asking", "login", "sending"}

\* The types of the state: every token is one that was issued, and a session that
\* sends a request has one.
TypeOK ==
  /\ issued \in Nat /\ refusals \in Nat /\ lost \in Nat
  /\ cache \in Token /\ mutex \in Session \cup {None}
  /\ at \in [Session -> At] /\ force \in [Session -> BOOLEAN]
  /\ token \in [Session -> Token]
  /\ answer \in [Session -> Token]
  /\ refused \in [Session -> Token]
  /\ \A s \in Session : at[s] = "sending" => token[s] # 0

\* The cache never falls back to a token older than one the service has issued since,
\* and a request that was refused is repeated with a token issued after the one it was
\* refused with, however the sessions' logins interleave (getOrRefresh, fetchJSON).
NewestToken ==
  /\ cache # 0 => cache = issued
  /\ \A s \in Session :
       at[s] = "sending" /\ refused[s] # 0 => token[s] > refused[s]

\* The sessions log in once, and then only for a refused request or a login that
\* failed: opening sessions, however many, does not add logins (newLoginTokenCache).
LoginsAreCaused == issued <= 1 + refusals + lost

\* A session that waits for the mutex, which its context cannot end, gets its token or
\* an error, although logins of others fail or time out under the mutex (getOrRefresh).
TokenWaitEnds ==
  \A s \in Session : at[s] = "asking" ~> at[s] \in {"sending", "closed"}
=============================================================================
