------------------------ MODULE LoginSession_proofs ------------------------
(***************************************************************************)
(* Theorems about LoginSession, for any finite set of sessions, any number *)
(* of logins and of refused requests.                                      *)
(***************************************************************************)
EXTENDS LoginSession, FiniteSetTheorems, TLAPS

---------------------------------------------------------------------------
(* The inductive invariant.                                                *)

\* The mutex is held across a login, and by no one else.
MutexHeld == \A s \in Session : mutex = s <=> at[s] = "login"

\* The cached token is the one issued last, and there is none during a login.
CacheNewest ==
  /\ cache # 0 => cache = issued
  /\ mutex # None => cache = 0

\* An answer on its way has the token issued last, newer than any refused one.
AnswerNewest ==
  \A s \in Session :
    answer[s] # 0 => at[s] = "login" /\ answer[s] = issued /\ refused[s] < answer[s]

\* A session that repeats a request asks past the cache, and one that is closed does not.
Repeats ==
  \A s \in Session :
    /\ refused[s] # 0 => force[s]
    /\ at[s] = "closed" => ~force[s]
    /\ at[s] = "sending" /\ refused[s] # 0 => token[s] > refused[s]

\* The sessions that are to begin a login although a token may be cached.
Forcing == {s \in Session : at[s] = "asking" /\ force[s]}

\* A login whose token is not issued yet may follow: the cache is empty.
Vacant == IF cache = 0 /\ \A s \in Session : answer[s] = 0 THEN 1 ELSE 0

\* Every login, past or possible, has its cause.
LoginBudget == issued + Vacant + Cardinality(Forcing) <= 1 + refusals + lost


---------------------------------------------------------------------------
(* Type correctness.                                                       *)

\* No session is open and no token issued.
LEMMA TypeInit == Init => TypeOK
BY DEF Init, TypeOK, Token, At

\* No step of a session leaves the types.
LEMMA TypeStep == TypeOK /\ [Next]_vars => TypeOK'
<1> SUFFICES ASSUME TypeOK, [Next]_vars
             PROVE  TypeOK'
  OBVIOUS
<1> USE DEF TypeOK, Token, At, cacheVars, sessionVars, historyVars
<1>1. ASSUME NEW s \in Session, Open(s)
      PROVE  TypeOK'
  BY <1>1 DEF Open
<1>2. ASSUME NEW s \in Session, GetCached(s)
      PROVE  TypeOK'
  BY <1>2 DEF GetCached, Cleared, Takes
<1>3. ASSUME NEW s \in Session, BeginLogin(s)
      PROVE  TypeOK'
  BY <1>3 DEF BeginLogin
<1>4. ASSUME NEW s \in Session, Issue(s)
      PROVE  TypeOK'
  BY <1>4 DEF Issue
<1>5. ASSUME NEW s \in Session, StoreToken(s)
      PROVE  TypeOK'
  BY <1>5 DEF StoreToken, Takes
<1>6. ASSUME NEW s \in Session, LoginFails(s)
      PROVE  TypeOK'
  BY <1>6 DEF LoginFails, Gives
<1>7. ASSUME NEW s \in Session, Answered(s)
      PROVE  TypeOK'
  BY <1>7 DEF Answered, Gives
<1>8. ASSUME NEW s \in Session, Refused(s)
      PROVE  TypeOK'
  BY <1>8 DEF Refused
<1>9. CASE UNCHANGED vars
  BY <1>9 DEF vars
<1>10. QED
  BY <1>1, <1>2, <1>3, <1>4, <1>5, <1>6, <1>7, <1>8, <1>9
     DEF Next, Locks, LoginStep, RequestStep

\* Every reachable state of LoginSession is well typed: no header or cache has a token the
\* service did not issue, and no request is sent without one.
THEOREM LoginsTyped == Spec => []TypeOK
BY TypeInit, TypeStep, PTL DEF Spec

---------------------------------------------------------------------------
(* The cache and the tokens in use.                                        *)

\* What holds of the tokens however many logins there were.
TokenInv == TypeOK /\ MutexHeld /\ CacheNewest /\ AnswerNewest /\ Repeats

LEMMA TokenInit == Init => TokenInv
<1> SUFFICES ASSUME Init
             PROVE  TokenInv
  OBVIOUS
<1>1. TypeOK
  BY TypeInit
<1>2. MutexHeld /\ CacheNewest /\ AnswerNewest /\ Repeats
  BY SessionAssumption DEF Init, MutexHeld, CacheNewest, AnswerNewest, Repeats
<1>3. QED
  BY <1>1, <1>2 DEF TokenInv

\* Who logs in has the mutex, and no one else takes it before the login ends.
LEMMA MutexStep == TokenInv /\ [Next]_vars => MutexHeld'
<1> SUFFICES ASSUME TokenInv, [Next]_vars
             PROVE  MutexHeld'
  OBVIOUS
<1> USE SessionAssumption DEF TokenInv, TypeOK, MutexHeld, cacheVars
<1>1. ASSUME NEW s \in Session, Open(s)
      PROVE  MutexHeld'
  BY <1>1 DEF Open
<1>2. ASSUME NEW s \in Session, GetCached(s)
      PROVE  MutexHeld'
  BY <1>2 DEF GetCached, Takes
<1>3. ASSUME NEW s \in Session, BeginLogin(s)
      PROVE  MutexHeld'
  BY <1>3 DEF BeginLogin
<1>4. ASSUME NEW s \in Session, Issue(s)
      PROVE  MutexHeld'
  BY <1>4 DEF Issue
<1>5. ASSUME NEW s \in Session, StoreToken(s)
      PROVE  MutexHeld'
  BY <1>5 DEF StoreToken, Takes
<1>6. ASSUME NEW s \in Session, LoginFails(s)
      PROVE  MutexHeld'
  BY <1>6 DEF LoginFails, Gives
<1>7. ASSUME NEW s \in Session, Answered(s)
      PROVE  MutexHeld'
  BY <1>7 DEF Answered, Gives
<1>8. ASSUME NEW s \in Session, Refused(s)
      PROVE  MutexHeld'
  BY <1>8 DEF Refused
<1>9. CASE UNCHANGED vars
  BY <1>9 DEF vars, sessionVars
<1>10. QED
  BY <1>1, <1>2, <1>3, <1>4, <1>5, <1>6, <1>7, <1>8, <1>9
     DEF Next, Locks, LoginStep, RequestStep

\* The cache has the newest token or none, and an answer on its way a newer one.
LEMMA NewestStep == TokenInv /\ [Next]_vars => CacheNewest' /\ AnswerNewest'
<1> SUFFICES ASSUME TokenInv, [Next]_vars
             PROVE  CacheNewest' /\ AnswerNewest'
  OBVIOUS
<1> USE SessionAssumption
    DEF TokenInv, TypeOK, Token, MutexHeld, CacheNewest, AnswerNewest, cacheVars
<1>1. ASSUME NEW s \in Session, Open(s)
      PROVE  CacheNewest' /\ AnswerNewest'
  BY <1>1 DEF Open
<1>2. ASSUME NEW s \in Session, GetCached(s)
      PROVE  CacheNewest' /\ AnswerNewest'
  BY <1>2 DEF GetCached, Takes, Cleared
<1>3. ASSUME NEW s \in Session, BeginLogin(s)
      PROVE  CacheNewest' /\ AnswerNewest'
  BY <1>3 DEF BeginLogin
<1>4. ASSUME NEW s \in Session, Issue(s)
      PROVE  CacheNewest' /\ AnswerNewest'
  BY <1>4 DEF Issue
<1>5. ASSUME NEW s \in Session, StoreToken(s)
      PROVE  CacheNewest' /\ AnswerNewest'
  BY <1>5 DEF StoreToken, Takes
<1>6. ASSUME NEW s \in Session, LoginFails(s)
      PROVE  CacheNewest' /\ AnswerNewest'
  BY <1>6 DEF LoginFails, Gives
<1>7. ASSUME NEW s \in Session, Answered(s)
      PROVE  CacheNewest' /\ AnswerNewest'
  BY <1>7 DEF Answered, Gives
<1>8. ASSUME NEW s \in Session, Refused(s)
      PROVE  CacheNewest' /\ AnswerNewest'
  BY <1>8 DEF Refused
<1>9. CASE UNCHANGED vars
  BY <1>9 DEF vars, sessionVars
<1>10. QED
  BY <1>1, <1>2, <1>3, <1>4, <1>5, <1>6, <1>7, <1>8, <1>9
     DEF Next, Locks, LoginStep, RequestStep

\* Only an answered login leads from a refused request to its repetition.
LEMMA RepeatsStep == TokenInv /\ [Next]_vars => Repeats'
<1> SUFFICES ASSUME TokenInv, [Next]_vars
             PROVE  Repeats'
  OBVIOUS
<1> USE DEF TokenInv, TypeOK, Token, AnswerNewest, Repeats
<1>1. ASSUME NEW s \in Session, Open(s)
      PROVE  Repeats'
  BY <1>1 DEF Open
<1>2. ASSUME NEW s \in Session, GetCached(s)
      PROVE  Repeats'
  BY <1>2 DEF GetCached, Takes, Cleared
<1>3. ASSUME NEW s \in Session, BeginLogin(s)
      PROVE  Repeats'
  BY <1>3 DEF BeginLogin
<1>4. ASSUME NEW s \in Session, Issue(s)
      PROVE  Repeats'
  BY <1>4 DEF Issue
<1>5. ASSUME NEW s \in Session, StoreToken(s)
      PROVE  Repeats'
  BY <1>5 DEF StoreToken, Takes
<1>6. ASSUME NEW s \in Session, LoginFails(s)
      PROVE  Repeats'
  BY <1>6 DEF LoginFails, Gives
<1>7. ASSUME NEW s \in Session, Answered(s)
      PROVE  Repeats'
  BY <1>7 DEF Answered, Gives
<1>8. ASSUME NEW s \in Session, Refused(s)
      PROVE  Repeats'
  BY <1>8 DEF Refused
<1>9. CASE UNCHANGED vars
  BY <1>9 DEF vars, sessionVars
<1>10. QED
  BY <1>1, <1>2, <1>3, <1>4, <1>5, <1>6, <1>7, <1>8, <1>9
     DEF Next, Locks, LoginStep, RequestStep

LEMMA TokenStep == TokenInv /\ [Next]_vars => TokenInv'
BY TypeStep, MutexStep, NewestStep, RepeatsStep DEF TokenInv

\* The cache never falls back to an older token, and a refused request is repeated with a
\* newer one, for any number of sessions.
THEOREM TokensNewest == Spec => []NewestToken
<1>1. TokenInv => NewestToken
  BY DEF TokenInv, CacheNewest, Repeats, NewestToken
<1>2. QED
  BY <1>1, TokenInit, TokenStep, PTL DEF Spec

---------------------------------------------------------------------------
(* The logins and their causes.                                            *)

LEMMA ForcingFinite == IsFiniteSet(Forcing) /\ Cardinality(Forcing) \in Nat
<1>1. Forcing \in SUBSET Session
  BY DEF Forcing
<1>2. QED
  BY <1>1, SessionAssumption, FS_Subset, FS_CardinalityType

\* One session begins or ends to force a login: the others' share does not change.
LEMMA ForcingChanges ==
  ASSUME NEW s \in Session, NEW forcing, IsFiniteSet(forcing)
  PROVE  /\ Cardinality(forcing \cup {s}) <= Cardinality(forcing) + 1
         /\ Cardinality(forcing \ {s}) <= Cardinality(forcing)
         /\ s \in forcing => Cardinality(forcing \ {s}) = Cardinality(forcing) - 1
         /\ Cardinality(forcing \cup {s}) \in Nat /\ Cardinality(forcing \ {s}) \in Nat
<1>1. Cardinality(forcing) \in Nat
  BY FS_CardinalityType
<1>2. /\ IsFiniteSet(forcing \cup {s})
      /\ Cardinality(forcing \cup {s}) =
           IF s \in forcing THEN Cardinality(forcing) ELSE Cardinality(forcing) + 1
  BY FS_AddElement
<1>3. /\ IsFiniteSet(forcing \ {s})
      /\ Cardinality(forcing \ {s}) =
           IF s \in forcing THEN Cardinality(forcing) - 1 ELSE Cardinality(forcing)
  BY FS_RemoveElement
<1>4. QED
  BY <1>1, <1>2, <1>3, FS_CardinalityType

LEMMA BudgetInit == Init => LoginBudget
<1> SUFFICES ASSUME Init
             PROVE  LoginBudget
  OBVIOUS
<1>1. Forcing = {}
  BY DEF Init, Forcing
<1>2. Cardinality(Forcing) = 0
  BY <1>1, FS_EmptySet
<1>3. QED
  BY <1>2 DEF Init, LoginBudget, Vacant

\* A refused request adds the login it may lead to, and a lost token the one that replaces
\* it; every other step uses a login up or leaves the budget as it is.
LEMMA BudgetStep == TokenInv /\ LoginBudget /\ [Next]_vars => LoginBudget'
<1> SUFFICES ASSUME TokenInv, LoginBudget, [Next]_vars
             PROVE  LoginBudget'
  OBVIOUS
<1>0. /\ issued \in Nat /\ refusals \in Nat /\ lost \in Nat
      /\ Cardinality(Forcing) \in Nat /\ Vacant \in {0, 1} /\ Vacant' \in {0, 1}
  BY ForcingFinite DEF TokenInv, TypeOK, Vacant
<1> USE SessionAssumption
    DEF TokenInv, TypeOK, MutexHeld, CacheNewest, AnswerNewest, Repeats, cacheVars, historyVars
<1>1. ASSUME NEW s \in Session, Open(s)
      PROVE  LoginBudget'
  <2>1. Forcing' = Forcing
    BY <1>1 DEF Open, Forcing
  <2>2. Vacant' = Vacant
    BY <1>1 DEF Open, Vacant
  <2>3. QED
    BY <1>1, <2>1, <2>2 DEF Open, LoginBudget
<1>2. ASSUME NEW s \in Session, GetCached(s)
      PROVE  LoginBudget'
  <2>1. ~force[s] /\ cache' = cache
    BY <1>2 DEF GetCached, Cleared
  <2>2. Forcing' = Forcing
    BY <1>2, <2>1 DEF GetCached, Takes, Forcing
  <2>3. Vacant' = Vacant
    BY <1>2, <2>1 DEF GetCached, Vacant
  <2>4. QED
    BY <1>2, <2>2, <2>3 DEF GetCached, LoginBudget
<1>3. ASSUME NEW s \in Session, BeginLogin(s)
      PROVE  LoginBudget'
  <2>1. Forcing' = Forcing \ {s} /\ issued' = issued
    BY <1>3 DEF BeginLogin, Forcing
  <2>2. CASE force[s]
    <3>1. s \in Forcing
      BY <1>3, <2>2 DEF BeginLogin, Forcing
    <3>2. Cardinality(Forcing)' = Cardinality(Forcing) - 1
      BY <2>1, <3>1, ForcingChanges, ForcingFinite
    <3>3. QED
      BY <1>0, <1>3, <2>1, <3>2 DEF BeginLogin, LoginBudget
  <2>3. CASE ~force[s]
    <3>1. Vacant' = Vacant
      BY <1>3, <2>3 DEF BeginLogin, Cleared, Vacant
    <3>2. Cardinality(Forcing)' <= Cardinality(Forcing) /\ Cardinality(Forcing)' \in Nat
      BY <2>1, ForcingChanges, ForcingFinite
    <3>3. QED
      BY <1>0, <1>3, <2>1, <3>1, <3>2 DEF BeginLogin, LoginBudget
  <2>4. QED
    BY <2>2, <2>3
<1>4. ASSUME NEW s \in Session, Issue(s)
      PROVE  LoginBudget'
  <2>1. Forcing' = Forcing
    BY <1>4 DEF Issue, Forcing
  <2>2. Vacant = 1 /\ Vacant' = 0
    BY <1>4 DEF Issue, Vacant
  <2>3. QED
    BY <1>0, <1>4, <2>1, <2>2 DEF Issue, LoginBudget
<1>5. ASSUME NEW s \in Session, StoreToken(s)
      PROVE  LoginBudget'
  <2>1. Forcing' = Forcing
    BY <1>5 DEF StoreToken, Takes, Forcing
  <2>2. Vacant' = 0
    BY <1>5 DEF StoreToken, Vacant
  <2>3. QED
    BY <1>0, <1>5, <2>1, <2>2 DEF StoreToken, LoginBudget
<1>6. ASSUME NEW s \in Session, LoginFails(s)
      PROVE  LoginBudget'
  <2>1. Forcing' = Forcing
    BY <1>6 DEF LoginFails, Gives, Forcing
  <2>2. CASE answer[s] # 0
    <3>1. Vacant = 0 /\ lost' = lost + 1
      BY <1>6, <2>2 DEF LoginFails, Vacant
    <3>2. QED
      BY <1>0, <1>6, <2>1, <3>1 DEF LoginFails, LoginBudget
  <2>3. CASE answer[s] = 0
    <3>1. answer' = answer /\ cache' = cache /\ lost' = lost
      BY <1>6, <2>3, <1>0 DEF LoginFails
    <3>2. Vacant' = Vacant
      BY <3>1 DEF Vacant
    <3>3. QED
      BY <1>0, <1>6, <2>1, <3>1, <3>2 DEF LoginFails, LoginBudget
  <2>4. QED
    BY <2>2, <2>3
<1>7. ASSUME NEW s \in Session, Answered(s)
      PROVE  LoginBudget'
  <2>1. Forcing' = Forcing
    BY <1>7 DEF Answered, Gives, Forcing
  <2>2. Vacant' = Vacant
    BY <1>7 DEF Answered, Vacant
  <2>3. QED
    BY <1>7, <2>1, <2>2 DEF Answered, LoginBudget
<1>8. ASSUME NEW s \in Session, Refused(s)
      PROVE  LoginBudget'
  <2>1. Forcing' = Forcing \cup {s}
    BY <1>8 DEF Refused, Forcing
  <2>2. Cardinality(Forcing)' <= Cardinality(Forcing) + 1 /\ Cardinality(Forcing)' \in Nat
    BY <2>1, ForcingChanges, ForcingFinite
  <2>3. Vacant' = Vacant
    BY <1>8 DEF Refused, Vacant
  <2>4. QED
    BY <1>0, <1>8, <2>2, <2>3 DEF Refused, LoginBudget
<1>9. CASE UNCHANGED vars
  <2>1. Forcing' = Forcing /\ Vacant' = Vacant
    BY <1>9 DEF vars, sessionVars, Forcing, Vacant
  <2>2. QED
    BY <1>9, <2>1 DEF vars, LoginBudget
<1>10. QED
  BY <1>1, <1>2, <1>3, <1>4, <1>5, <1>6, <1>7, <1>8, <1>9
     DEF Next, Locks, LoginStep, RequestStep

\* The sessions log in once, and then only for a refused request or a token lost with its
\* login, however many sessions are opened.
THEOREM LoginsCaused == Spec => []LoginsAreCaused
<1>1. TokenInv /\ LoginBudget => LoginsAreCaused
  <2>1. ASSUME TokenInv
        PROVE  /\ issued \in Nat /\ refusals \in Nat /\ lost \in Nat
               /\ Cardinality(Forcing) \in Nat /\ Vacant \in {0, 1}
    BY <2>1, ForcingFinite DEF TokenInv, TypeOK, Vacant
  <2>2. QED
    BY <2>1 DEF LoginBudget, LoginsAreCaused
<1>2. QED
  BY <1>1, TokenInit, TokenStep, BudgetInit, BudgetStep, PTL DEF Spec
=============================================================================
