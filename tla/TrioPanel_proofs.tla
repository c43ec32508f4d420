-------------------------- MODULE TrioPanel_proofs --------------------------
(***************************************************************************)
(* Theorems about the records CPA counts and about the quota groups the    *)
(* server keeps, for any collects that overlap, any credentials, queue,    *)
(* batches and clock, and any behaviour of CPA, agents and network that    *)
(* the configurations of TrioPanel allow.                                  *)
(***************************************************************************)
EXTENDS TrioPanel, Dashboard_proofs

---------------------------------------------------------------------------
(* The invariant of CPAUsage.                                              *)

Entry == [record : made, copy : Nat]

\* Requests are told apart by their numbers.
Numbered ==
  /\ IsFiniteSet(made) /\ now \in Int
  /\ \A e \in made : e.n \in 1..Cardinality(made)
  /\ \A e, f \in made : e.n = f.n => e = f

\* The queue, the collects and the database have records of requests that were made, each
\* row under the key of its own, and what was converted could be read and is the provider's.
Delivered ==
  /\ queue \in Seq(Entry)
  /\ DOMAIN drain = Run
  /\ \A r \in Run : /\ DOMAIN drain[r] = DOMAIN NoDrain /\ drain[r].batch \subseteq Entry
                    /\ \A e \in drain[r].batch : e.record.kind = "own"
  /\ \A row \in rows : row.record \in made /\ row.key = row.record.n /\ row.record.kind = "own"

\* A configured account is the one a collect has; it has none only when no refresh had
\* succeeded, and only then are records of another in its hands, to be saved.
HasAccount(d, configured) ==
  /\ configured # NoAuth /\ d.account # NoAuth => d.account = configured
  /\ d.step = "fetch" => d.account # NoAuth
  /\ d.step \in {"pop", "save"} /\ d.account = NoAuth => d.blind
  /\ d.batch # {} => d.step = "save"
  /\ configured # NoAuth => \A e \in d.batch : e.record.auth # configured => d.blind

Accounts ==
  /\ DOMAIN drain = Run /\ \A r \in Run : DOMAIN drain[r] = DOMAIN NoDrain
  /\ DOMAIN quota = DOMAIN NoCache
  /\ known => quota.account # NoAuth
  /\ Pinned /\ quota.account # NoAuth => quota.account = cpa.account
  /\ \A r \in Run : HasAccount(drain[r], cpa.account)

RecordInv == Numbered /\ Delivered /\ Accounts /\ PinnedOnly /\ Accounted

\* A step of the panel: of the clock, of CPA and one of its collects, or of Antigravity.
LEMMA CPASteps ==
  ASSUME [Next]_vars
  PROVE  \/ Time
         \/ \E auth \in cpa.used, kind \in cpa.kinds : Request(auth, kind)
         \/ \E auth \in cpa.switches : Switch(auth)
         \/ Redeliver \/ Expire \/ Restart
         \/ \E r \in Run : CPACollect(r)
         \/ UNCHANGED <<now, cpaVars>>
BY DEF Next, CPA, Antigravity, vars

\* Only the clock itself changes the time.
LEMMA ClockStep == [Next]_vars => Time \/ UNCHANGED now
BY DEF Next, CPA, Antigravity, vars

---------------------------------------------------------------------------
(* The requests made.                                                      *)

LEMMA NumberedStep ==
  ASSUME Numbered, [Next]_vars
  PROVE  Numbered'
<1> USE DEF Numbered
<1>1. now' \in Int
  BY ClockStep DEF Time, Tick
<1>2. ASSUME NEW auth \in cpa.used, NEW kind \in cpa.kinds, Request(auth, kind)
      PROVE  Numbered'
  <2> DEFINE record == [n |-> Cardinality(made) + 1, auth |-> auth, kind |-> kind, at |-> now]
  <2>1. made' = made \cup {record} /\ Cardinality(made) \in Nat
    BY <1>2, FS_CardinalityType DEF Request
  <2>2. record.n = Cardinality(made) + 1 /\ record \notin made
    BY <2>1
  <2>3. IsFiniteSet(made') /\ Cardinality(made') = Cardinality(made) + 1
    BY <2>1, <2>2, FS_AddElement
  <2>4. \A e \in made' : e.n \in 1..(Cardinality(made) + 1)
    BY <2>1, <2>2
  <2>5. \A e, f \in made' : e.n = f.n => e = f
    BY <2>1, <2>2
  <2>6. QED
    BY <1>1, <2>3, <2>4, <2>5
<1>3. CASE made' = made
  BY <1>1, <1>3
<1>4. made' = made \/ \E auth \in cpa.used, kind \in cpa.kinds : Request(auth, kind)
  BY CPASteps DEF Time, Switch, Redeliver, Expire, Restart, CPACollect, Start, Throttled, Refresh,
     RefreshFails, Select, Refreshed, Pop, PopFails, Save, SaveFails, List, ListFails, cpaVars
<1>5. QED
  BY <1>2, <1>3, <1>4

\* A request made stays made.
LEMMA MadeGrows == [Next]_vars => made \subseteq made'
BY CPASteps DEF Time, Request, Switch, Redeliver, Expire, Restart, CPACollect, Start, Throttled,
   Refresh, RefreshFails, Select, Refreshed, Pop, PopFails, Save, SaveFails, List, ListFails, cpaVars

---------------------------------------------------------------------------
(* The queue, the records in hand, and the rows.                           *)

\* A batch and what is left of the queue have every entry between them.
LEMMA BatchAndRest ==
  ASSUME NEW S, NEW seq \in Seq(S)
  PROVE  /\ Rest(seq) \in Seq(S)
         /\ Range(Batch(seq)) \subseteq S
         /\ Range(seq) \subseteq Range(Batch(seq)) \cup Range(Rest(seq))
<1>1. BatchLen(seq) \in 0..Len(seq)
  BY CPAConstants DEF BatchLen
<1>2. /\ Batch(seq) \in Seq(S) /\ Len(Batch(seq)) = BatchLen(seq)
      /\ \A i \in 1..BatchLen(seq) : Batch(seq)[i] = seq[i]
  <2>1. \A i \in 1..BatchLen(seq) : seq[i] \in S
    BY <1>1
  <2>2. QED
    BY <1>1, <2>1, SubSeqProperties DEF Batch
<1>3. /\ Rest(seq) \in Seq(S) /\ Len(Rest(seq)) = Len(seq) - BatchLen(seq)
      /\ \A i \in 1..(Len(seq) - BatchLen(seq)) : Rest(seq)[i] = seq[BatchLen(seq) + i]
  <2> DEFINE m == 1 + BatchLen(seq)
             n == Len(seq)
  <2>1. m \in Int /\ n \in Int /\ \A i \in m..n : seq[i] \in S
    BY <1>1
  <2>2. /\ SubSeq(seq, m, n) \in Seq(S)
        /\ Len(SubSeq(seq, m, n)) = IF m <= n THEN n - m + 1 ELSE 0
        /\ \A i \in 1..(n - m + 1) : SubSeq(seq, m, n)[i] = seq[m + i - 1]
    BY <2>1, SubSeqProperties
  <2>3. QED
    BY <1>1, <2>2 DEF Rest
<1>4. Range(seq) \subseteq Range(Batch(seq)) \cup Range(Rest(seq))
  <2> SUFFICES ASSUME NEW i \in 1..Len(seq)
               PROVE  seq[i] \in Range(Batch(seq)) \cup Range(Rest(seq))
    BY DEF Range
  <2>1. CASE i <= BatchLen(seq)
    BY <1>1, <1>2, <2>1 DEF Range
  <2>2. CASE i > BatchLen(seq)
    <3> DEFINE j == i - BatchLen(seq)
    <3>1. j \in 1..(Len(seq) - BatchLen(seq)) /\ BatchLen(seq) + j = i
      BY <1>1, <2>2
    <3>2. Rest(seq)[j] = seq[i]
      BY <1>3, <3>1
    <3>3. j \in DOMAIN Rest(seq)
      BY <1>1, <1>3, <3>1
    <3>4. QED
      BY <3>2, <3>3 DEF Range
  <2>3. QED
    BY <1>1, <2>1, <2>2
<1>5. Range(Batch(seq)) \subseteq S
  BY <1>2 DEF Range
<1>6. QED
  BY <1>3, <1>4, <1>5

\* A record delivered is in the queue beside those that were there.
LEMMA RangeAppend ==
  ASSUME NEW S, NEW seq \in Seq(S), NEW T, S \subseteq T, NEW e \in T
  PROVE  Append(seq, e) \in Seq(T) /\ Range(Append(seq, e)) = Range(seq) \cup {e}
<1>1. /\ Append(seq, e) \in Seq(T) /\ Len(Append(seq, e)) = Len(seq) + 1
      /\ \A i \in 1..Len(seq) : Append(seq, e)[i] = seq[i]
      /\ Append(seq, e)[Len(seq) + 1] = e
  <2>1. seq \in Seq(T)
    OBVIOUS
  <2>2. QED
    BY <2>1, AppendProperties
<1>2. Range(seq) \cup {e} \subseteq Range(Append(seq, e))
  BY <1>1 DEF Range
<1>3. Range(Append(seq, e)) \subseteq Range(seq) \cup {e}
  BY <1>1 DEF Range
<1>4. QED
  BY <1>1, <1>2, <1>3

LEMMA AppendRange ==
  ASSUME NEW S, NEW seq \in Seq(S), NEW e
  PROVE  Range(Append(seq, e)) = Range(seq) \cup {e}
<1> DEFINE T == S \cup {e}
<1>1. S \subseteq T /\ e \in T
  OBVIOUS
<1> HIDE DEF T
<1>2. QED
  BY <1>1, RangeAppend

LEMMA RangeTail ==
  ASSUME NEW S, NEW seq \in Seq(S), seq # <<>>
  PROVE  Tail(seq) \in Seq(S) /\ Range(seq) \subseteq Range(Tail(seq)) \cup {seq[1]}
<1>1. /\ Tail(seq) \in Seq(S) /\ Len(Tail(seq)) = Len(seq) - 1
      /\ \A i \in 1..Len(Tail(seq)) : Tail(seq)[i] = seq[i + 1]
  BY HeadTailProperties
<1>2. SUFFICES ASSUME NEW i \in 1..Len(seq), i # 1
               PROVE  seq[i] \in Range(Tail(seq))
  BY <1>1 DEF Range
<1> DEFINE j == i - 1
           rest == Tail(seq)
<1>3. j \in 1..(Len(seq) - 1) /\ j + 1 = i
  BY <1>2
<1>4. rest \in Seq(S) /\ Len(rest) = Len(seq) - 1 /\ rest[j] = seq[i]
  BY <1>1, <1>3
<1> HIDE DEF rest
<1>5. j \in DOMAIN rest
  BY <1>3, <1>4
<1>6. seq[i] \in Range(rest)
  BY <1>4, <1>5 DEF Range
<1>7. QED
  BY <1>6 DEF rest

LEMMA EntryGrows == [Next]_vars => Entry \subseteq Entry'
BY MadeGrows DEF Entry

\* The queue, the collects and the database only have records of requests made.
LEMMA DeliveredStep ==
  ASSUME Delivered, [Next]_vars
  PROVE  Delivered'
<1> USE DEF Delivered
<1>0. Entry \subseteq Entry' /\ made \subseteq made'
  BY EntryGrows, MadeGrows
<1>1. CASE Time
  BY <1>1 DEF Time, cpaVars, Entry
<1>2. ASSUME NEW auth \in cpa.used, NEW kind \in cpa.kinds, Request(auth, kind)
      PROVE  Delivered'
  <2> DEFINE record == [n |-> Cardinality(made) + 1, auth |-> auth, kind |-> kind, at |-> now]
             entry == [record |-> record, copy |-> 1]
  <2>1. entry \in Entry' /\ queue' = Append(queue, entry)
    BY <1>2 DEF Request, Entry
  <2> HIDE DEF entry
  <2>2. queue' \in Seq(Entry')
    BY <1>0, <2>1, RangeAppend
  <2>3. QED
    BY <1>0, <1>2, <2>2 DEF Request
<1>3. CASE Redeliver
  <2>1. PICK entry \in Entry : queue' = Append(queue, entry)
    BY <1>3, CPAConstants DEF Redeliver, Entry
  <2>2. queue' \in Seq(Entry')
    BY <1>0, <2>1, RangeAppend
  <2>3. QED
    BY <1>0, <1>3, <2>2 DEF Redeliver
<1>4. CASE Expire
  <2>1. queue' \in Seq(Entry)
    BY <1>4, RangeTail DEF Expire
  <2>2. QED
    BY <1>0, <1>4, <2>1 DEF Expire, Entry
<1>5. CASE Restart
  BY <1>5 DEF Restart, Entry, NoDrain
<1>6. ASSUME NEW r \in Run, Pop(r)
      PROVE  Delivered'
  <2>1. Rest(queue) \in Seq(Entry) /\ Range(Batch(queue)) \subseteq Entry /\ Entry' = Entry
    BY <1>6, BatchAndRest DEF Pop, Entry
  <2>2. QED
    BY <1>6, <2>1 DEF Pop, NoDrain, Converts
<1>7. ASSUME NEW r \in Run, PopFails(r)
      PROVE  Delivered'
  <2>1. Rest(queue) \in Seq(Entry) /\ Entry' = Entry
    BY <1>7, BatchAndRest DEF PopFails, Entry
  <2>2. QED
    BY <1>7, <2>1 DEF PopFails, NoDrain
<1>8. ASSUME NEW r \in Run, Save(r)
      PROVE  Delivered'
  BY <1>8 DEF Save, Entry, NoDrain, Key
<1>9. ASSUME NEW r \in Run,
             Start(r) \/ Throttled(r) \/ Refresh(r) \/ RefreshFails(r) \/ Select(r) \/ Refreshed(r)
      PROVE  Delivered'
  <2>1. Entry' = Entry /\ queue' = queue /\ rows' = rows /\ made' = made
    BY <1>9 DEF Start, Throttled, Refresh, RefreshFails, Select, Refreshed, Entry
  <2>2. SUFFICES /\ DOMAIN drain' = Run
                 /\ \A x \in Run : /\ DOMAIN drain'[x] = DOMAIN NoDrain /\ drain'[x].batch \subseteq Entry
                                  /\ \A e \in drain'[x].batch : e.record.kind = "own"
    BY <2>1
  <2> USE DEF NoDrain, Quota
  <2>3. CASE Start(r)
    BY <2>3 DEF Start
  <2>4. CASE Throttled(r)
    BY <2>4 DEF Throttled
  <2>5. CASE Refresh(r)
    BY <2>5 DEF Refresh
  <2>6. CASE RefreshFails(r)
    BY <2>6 DEF RefreshFails
  <2>7. CASE Select(r)
    BY <2>7 DEF Select
  <2>8. CASE Refreshed(r)
    BY <2>8 DEF Refreshed
  <2>9. QED
    BY <1>9, <2>3, <2>4, <2>5, <2>6, <2>7, <2>8
<1>10. ASSUME NEW r \in Run, SaveFails(r) \/ List(r) \/ ListFails(r)
       PROVE  Delivered'
  <2>1. CASE SaveFails(r)
    BY <2>1 DEF SaveFails, Entry, NoDrain
  <2>2. CASE List(r)
    BY <2>2 DEF List, Entry, NoDrain
  <2>3. CASE ListFails(r)
    BY <2>3 DEF ListFails, Entry, NoDrain
  <2>4. QED
    BY <1>10, <2>1, <2>2, <2>3
<1>11. ASSUME \/ \E auth \in cpa.switches : Switch(auth)
              \/ UNCHANGED <<now, cpaVars>>
       PROVE  Delivered'
  BY <1>11 DEF Switch, cpaVars, Entry
<1>12. QED
  BY CPASteps, <1>1, <1>2, <1>3, <1>4, <1>5, <1>6, <1>7, <1>8, <1>9, <1>10, <1>11 DEF CPACollect

---------------------------------------------------------------------------
(* The configured account.                                                 *)

LEMMA ConfigurationStays == [Next]_vars => cpa' = cpa
BY CPASteps DEF Time, Request, Switch, Redeliver, Expire, Restart, CPACollect, Start, Throttled,
   Refresh, RefreshFails, Select, Refreshed, Pop, PopFails, Save, SaveFails, List, ListFails, cpaVars

\* One collect goes on, the others stay where they are.
LEMMA CollectAccounts ==
  ASSUME Accounts, cpa' = cpa, NEW r \in Run, NEW d,
         drain' = [drain EXCEPT ![r] = d], DOMAIN d = DOMAIN NoDrain,
         HasAccount(d, cpa.account),
         DOMAIN quota' = DOMAIN NoCache, known' => quota'.account # NoAuth,
         Pinned /\ quota'.account # NoAuth => quota'.account = cpa.account
  PROVE  Accounts'
BY DEF Accounts, Pinned

\* A collect with nothing in its hands has an account if its step, and what it knows of the
\* cache, let it.
LEMMA EmptyHands ==
  ASSUME NEW d, NEW configured, d.batch = {},
         configured # NoAuth /\ d.account # NoAuth => d.account = configured,
         d.step = "fetch" => d.account # NoAuth,
         d.step \in {"pop", "save"} /\ d.account = NoAuth => d.blind
  PROVE  HasAccount(d, configured)
BY DEF HasAccount

\* A collect that gets what the cache has.
LEMMA FromCache ==
  ASSUME Accounts, cpa' = cpa, NEW r \in Run, drain[r].step # "save", NEW items, NEW err,
         Quota(r, quota.account, items, err, ~known),
         DOMAIN quota' = DOMAIN NoCache, quota'.account = quota.account, known' = known
  PROVE  Accounts'
<1> DEFINE d == [drain[r] EXCEPT !.step = "pop", !.account = quota.account, !.quota = items,
                                 !.quotaErr = err, !.blind = ~known]
<1>1. DOMAIN d = DOMAIN NoDrain /\ drain' = [drain EXCEPT ![r] = d]
  BY DEF Accounts, NoDrain, Quota
<1>2. d.account = quota.account /\ d.step = "pop" /\ d.batch = drain[r].batch
  BY DEF Accounts, NoDrain
<1>3. d.blind = ~known
  BY DEF Accounts, NoDrain
<1>4. drain[r].batch = {}
  BY DEF Accounts, HasAccount
<1> HIDE DEF d
<1>5. d.account = NoAuth => d.blind
  <2>1. quota.account = NoAuth => ~known
    BY DEF Accounts
  <2>2. QED
    BY <1>2, <1>3, <2>1
<1>6. HasAccount(d, cpa.account)
  <2>1. cpa.account # NoAuth /\ d.account # NoAuth => d.account = cpa.account
    BY <1>2 DEF Accounts, Pinned
  <2>2. QED
    BY <1>2, <1>4, <1>5, <2>1, EmptyHands
<1>7. /\ known' => quota'.account # NoAuth
      /\ Pinned /\ quota'.account # NoAuth => quota'.account = cpa.account
  BY DEF Accounts
<1>8. QED
  BY <1>1, <1>6, <1>7, CollectAccounts

\* What a collect has of the cache is an account or shows that no refresh had succeeded.
LEMMA AccountsStep ==
  ASSUME Accounts, [Next]_vars
  PROVE  Accounts'
<1>0. cpa' = cpa /\ \A n \in DOMAIN Auth : Auth[n] # NoAuth
  BY ConfigurationStays, CPAConstants DEF Range
<1> USE DEF Accounts
<1>1. ASSUME NEW r \in Run, Start(r)
      PROVE  Accounts'
  <2> DEFINE d == [NoDrain EXCEPT !.step = "quota", !.at = now, !.left = MaxBatches, !.made = made]
  <2>1. DOMAIN d = DOMAIN NoDrain /\ HasAccount(d, cpa.account)
    BY DEF HasAccount, NoDrain
  <2>2. QED
    BY <1>0, <1>1, <2>1, CollectAccounts DEF Start
<1>2. ASSUME NEW r \in Run, Throttled(r)
      PROVE  Accounts'
  BY <1>0, <1>2, FromCache DEF Throttled, At
<1>3. ASSUME NEW r \in Run, Refresh(r)
      PROVE  Accounts'
  <2> DEFINE d == [drain[r] EXCEPT !.step = "select"]
  <2>1. DOMAIN d = DOMAIN NoDrain /\ drain' = [drain EXCEPT ![r] = d]
    BY <1>3 DEF Refresh, NoDrain
  <2>2. d.step = "select" /\ d.account = drain[r].account /\ d.batch = drain[r].batch
    BY DEF NoDrain
  <2>3. drain[r].batch = {}
    BY <1>3 DEF Refresh, HasAccount, At
  <2> HIDE DEF d
  <2>4. HasAccount(d, cpa.account)
    BY <2>2, <2>3, EmptyHands DEF HasAccount
  <2>5. DOMAIN quota' = DOMAIN NoCache /\ quota'.account = quota.account /\ known' = known
    BY <1>3 DEF Refresh, NoCache
  <2>6. QED
    BY <1>0, <2>1, <2>4, <2>5, CollectAccounts
<1>4. ASSUME NEW r \in Run, RefreshFails(r)
      PROVE  Accounts'
  <2>1. DOMAIN quota' = DOMAIN NoCache /\ quota'.account = quota.account /\ known' = known
    BY <1>4 DEF RefreshFails, NoCache
  <2>2. QED
    BY <1>0, <1>4, <2>1, FromCache DEF RefreshFails, Kept
<1>5. ASSUME NEW r \in Run, Select(r)
      PROVE  Accounts'
  <2>1. PICK n \in Candidates : drain' = [drain EXCEPT ![r].step = "fetch", ![r].account = Auth[n]]
    BY <1>5 DEF Select
  <2> DEFINE d == [drain[r] EXCEPT !.step = "fetch", !.account = Auth[n]]
  <2>2. DOMAIN d = DOMAIN NoDrain /\ drain' = [drain EXCEPT ![r] = d]
    BY <2>1 DEF NoDrain
  <2>3. HasAccount(d, cpa.account)
    <3>1. d.step = "fetch" /\ d.account = Auth[n] /\ d.batch = drain[r].batch
      BY DEF NoDrain
    <3>2. HasAccount(drain[r], cpa.account) /\ drain[r].step = "select"
      BY <1>5 DEF Select, At
    <3>3. Auth[n] # NoAuth /\ (cpa.account # NoAuth => Auth[n] = cpa.account)
      BY <1>0 DEF Candidates, Pinned
    <3> HIDE DEF d
    <3>4. QED
      BY <3>1, <3>2, <3>3, EmptyHands DEF HasAccount
  <2>4. QED
    BY <1>0, <1>5, <2>2, <2>3, CollectAccounts DEF Select
<1>6. ASSUME NEW r \in Run, Refreshed(r)
      PROVE  Accounts'
  <2>1. PICK items :
          /\ quota' = [quota EXCEPT !.err = FALSE, !.items = items, !.account = drain[r].account]
          /\ drain' = [drain EXCEPT ![r].step = "pop", ![r].account = drain[r].account,
                                    ![r].quota = items, ![r].quotaErr = FALSE, ![r].blind = FALSE]
    BY <1>6 DEF Refreshed, Quota
  <2> DEFINE d == [drain[r] EXCEPT !.step = "pop", !.account = drain[r].account,
                                   !.quota = items, !.quotaErr = FALSE, !.blind = FALSE]
  <2>2. DOMAIN d = DOMAIN NoDrain /\ drain' = [drain EXCEPT ![r] = d]
    BY <2>1 DEF NoDrain
  <2>3. HasAccount(d, cpa.account)
    <3>1. /\ d.step = "pop" /\ d.account = drain[r].account /\ d.batch = drain[r].batch
      BY DEF NoDrain
    <3>2. HasAccount(drain[r], cpa.account) /\ drain[r].step = "fetch"
      BY <1>6 DEF Refreshed, At
    <3> HIDE DEF d
    <3>3. d.batch = {} /\ d.account # NoAuth
      BY <3>1, <3>2 DEF HasAccount
    <3>4. QED
      BY <3>1, <3>2, <3>3, EmptyHands DEF HasAccount
  <2>4. /\ DOMAIN quota' = DOMAIN NoCache /\ quota'.account = drain[r].account
        /\ drain[r].account # NoAuth
        /\ Pinned => drain[r].account = cpa.account
    BY <1>6, <2>1 DEF Refreshed, At, HasAccount, NoCache, Pinned
  <2>5. QED
    BY <1>0, <2>2, <2>3, <2>4, CollectAccounts
<1>7. ASSUME NEW r \in Run, Pop(r)
      PROVE  Accounts'
  <2> DEFINE kept == {e \in Range(Batch(queue)) : Converts(e, drain[r].account)}
             left == IF Len(queue) < BatchSize THEN 0 ELSE drain[r].left - 1
             d == [drain[r] EXCEPT !.step = AfterPop(kept, left), !.batch = kept, !.left = left]
  <2>1. DOMAIN d = DOMAIN NoDrain /\ drain' = [drain EXCEPT ![r] = d]
    BY <1>7 DEF Pop, NoDrain
  <2>2. /\ d.account = drain[r].account /\ d.blind = drain[r].blind /\ d.batch = kept
        /\ d.step # "fetch" /\ (kept # {} => d.step = "save")
    BY DEF NoDrain, AfterPop
  <2>3. HasAccount(drain[r], cpa.account) /\ drain[r].step = "pop"
    BY <1>7 DEF Pop, At
  <2>4. \A e \in kept : cpa.account # NoAuth /\ drain[r].account # NoAuth =>
                           e.record.auth = drain[r].account
    BY DEF Converts, Pinned
  <2>5. quota' = quota /\ known' = known
    BY <1>7 DEF Pop
  <2> HIDE DEF d, kept
  <2>6. HasAccount(d, cpa.account)
    BY <2>2, <2>3, <2>4 DEF HasAccount
  <2>7. QED
    BY <1>0, <2>1, <2>5, <2>6, CollectAccounts
<1>8. ASSUME NEW r \in Run, PopFails(r)
      PROVE  Accounts'
  <2> DEFINE d == [drain[r] EXCEPT !.step = "list", !.drainErr = TRUE]
  <2>1. DOMAIN d = DOMAIN NoDrain /\ drain' = [drain EXCEPT ![r] = d]
    BY <1>8 DEF PopFails, NoDrain
  <2>2. d.step = "list" /\ d.account = drain[r].account /\ d.batch = drain[r].batch
    BY DEF NoDrain
  <2>3. drain[r].batch = {}
    BY <1>8 DEF PopFails, HasAccount, At
  <2> HIDE DEF d
  <2>4. HasAccount(d, cpa.account)
    BY <2>2, <2>3, EmptyHands DEF HasAccount
  <2>5. quota' = quota /\ known' = known
    BY <1>8 DEF PopFails
  <2>6. QED
    BY <1>0, <2>1, <2>4, <2>5, CollectAccounts
<1>9. ASSUME NEW r \in Run, Save(r)
      PROVE  Accounts'
  <2> DEFINE d == [drain[r] EXCEPT !.step = IF drain[r].left = 0 THEN "list" ELSE "pop", !.batch = {}]
  <2>1. DOMAIN d = DOMAIN NoDrain /\ drain' = [drain EXCEPT ![r] = d]
    BY <1>9 DEF Save, NoDrain
  <2>2. /\ d.step \in {"list", "pop"} /\ d.account = drain[r].account
        /\ d.batch = {} /\ d.blind = drain[r].blind
    BY DEF NoDrain
  <2>3. HasAccount(drain[r], cpa.account) /\ drain[r].step = "save"
    BY <1>9 DEF Save, At
  <2> HIDE DEF d
  <2>4. HasAccount(d, cpa.account)
    BY <2>2, <2>3, EmptyHands DEF HasAccount
  <2>5. quota' = quota /\ known' = known
    BY <1>9 DEF Save
  <2>6. QED
    BY <1>0, <2>1, <2>4, <2>5, CollectAccounts
<1>10. ASSUME NEW r \in Run, SaveFails(r)
      PROVE  Accounts'
  <2> DEFINE d == [drain[r] EXCEPT !.step = "list", !.batch = {}, !.drainErr = TRUE]
  <2>1. DOMAIN d = DOMAIN NoDrain /\ drain' = [drain EXCEPT ![r] = d]
    BY <1>10 DEF SaveFails, NoDrain
  <2>2. d.step = "list" /\ d.account = drain[r].account /\ d.batch = {}
    BY DEF NoDrain
  <2> HIDE DEF d
  <2>3. HasAccount(d, cpa.account)
    BY <2>2, EmptyHands DEF HasAccount
  <2>4. quota' = quota /\ known' = known
    BY <1>10 DEF SaveFails
  <2>5. QED
    BY <1>0, <2>1, <2>3, <2>4, CollectAccounts
<1>11. ASSUME NEW r \in Run, List(r)
      PROVE  Accounts'
  <2> DEFINE d == NoDrain
  <2>1. DOMAIN d = DOMAIN NoDrain /\ drain' = [drain EXCEPT ![r] = d]
    BY <1>11 DEF List, NoDrain
  <2>2. HasAccount(d, cpa.account)
    BY <1>0, <1>11 DEF List, HasAccount, NoDrain, Pinned
  <2>3. QED
    BY <1>0, <1>11, <2>1, <2>2, CollectAccounts DEF List
<1>12. ASSUME NEW r \in Run, ListFails(r)
      PROVE  Accounts'
  <2> DEFINE d == NoDrain
  <2>1. DOMAIN d = DOMAIN NoDrain /\ drain' = [drain EXCEPT ![r] = d]
    BY <1>12 DEF ListFails, NoDrain
  <2>2. HasAccount(d, cpa.account)
    BY <1>0, <1>12 DEF ListFails, HasAccount, NoDrain, Pinned
  <2>3. QED
    BY <1>0, <1>12, <2>1, <2>2, CollectAccounts DEF ListFails
<1>13. CASE Restart
  BY <1>0, <1>13 DEF Restart, NoDrain, NoCache, HasAccount
<1>14. CASE UNCHANGED <<quota, known, drain>>
  BY <1>0, <1>14 DEF Pinned
<1>15. (\E r \in Run : CPACollect(r)) \/ Restart \/ UNCHANGED <<quota, known, drain>>
  BY CPASteps DEF Time, Request, Switch, Redeliver, Expire, cpaVars
<1>16. QED
  BY <1>1, <1>2, <1>3, <1>4, <1>5, <1>6, <1>7, <1>8, <1>9, <1>10, <1>11, <1>12, <1>13, <1>14,
     <1>15 DEF CPACollect

\* Only a save changes the rows.
LEMMA RowsSaved ==
  ASSUME [Next]_vars
  PROVE  rows' = rows \/ \E r \in Run : Save(r)
<1>1. \A r \in Run : CPACollect(r) => rows' = rows \/ Save(r)
  BY Zenon DEF CPACollect, Start, Throttled, Refresh, RefreshFails, Select, Refreshed, Pop, PopFails,
     SaveFails, List, ListFails
<1>2. QED
  BY <1>1, CPASteps, Zenon DEF Time, Request, Switch, Redeliver, Expire, Restart, cpaVars

\* A record of another account gets into the database only with a collect that knew none.
LEMMA PinnedOnlyStep ==
  ASSUME Accounts, PinnedOnly, [Next]_vars
  PROVE  PinnedOnly'
<1> USE DEF PinnedOnly, Pinned
<1>0. cpa' = cpa
  BY ConfigurationStays
<1>1. ASSUME NEW r \in Run, Save(r)
      PROVE  PinnedOnly'
  BY <1>0, <1>1 DEF Save, Accounts, HasAccount
<1>2. CASE rows' = rows
  BY <1>0, <1>2
<1>3. QED
  BY <1>1, <1>2, RowsSaved

---------------------------------------------------------------------------
(* No record vanishes silently.                                            *)

\* A collect has a record in its hands only to save it.
InHands(r, e) == drain[r].step = "save" /\ e \in RecordsOf(drain[r].batch)

LEMMA HeldInHands == \A e : e \in Held <=> \E r \in Run : InHands(r, e)
BY DEF Held, InHands

\* A step that reads no queue, saves no batch and drops none leaves every record where it is.
LEMMA Stays ==
  ASSUME Accounted, cpa' = cpa, made' = made, lost \subseteq lost',
         RecordsOf(Range(queue)) \subseteq RecordsOf(Range(queue')) \cup lost',
         \A e \in Held : e \in Held' \cup lost' \/ \E row \in rows' : row.record = e,
         \A row \in rows : \E other \in rows' : other.record = row.record
  PROVE  Accounted'
<1> SUFFICES ASSUME NEW e \in made
             PROVE  \/ e \in RecordsOf(Range(queue')) \cup Held' \cup lost'
                    \/ \E row \in rows' : row.record = e
                    \/ e.kind # "own"
                    \/ Pinned /\ e.auth # cpa.account
  BY DEF Accounted, Pinned
<1>1. CASE e \in RecordsOf(Range(queue)) \cup Held \cup lost
  BY <1>1
<1>2. CASE \E row \in rows : row.record = e
  BY <1>2
<1>3. QED
  BY <1>1, <1>2 DEF Accounted

LEMMA RecordsGrow == ASSUME NEW S, NEW T, S \subseteq T PROVE RecordsOf(S) \subseteq RecordsOf(T)
BY DEF RecordsOf

\* A collect that has nothing to save goes on: the others still hold what they held.
LEMMA HeldStays ==
  ASSUME Accounts, NEW r \in Run, drain[r].step # "save", NEW d, drain' = [drain EXCEPT ![r] = d]
  PROVE  Held \subseteq Held'
<1> SUFFICES ASSUME NEW x \in Run, NEW e, InHands(x, e)
             PROVE  InHands(x, e)'
  BY HeldInHands DEF Held, InHands
<1>1. x # r /\ drain'[x] = drain[x]
  BY DEF Accounts, InHands
<1>2. QED
  BY <1>1 DEF InHands, RecordsOf

\* A batch is read: every record of it that is not kept for the save cannot be read, is of
\* another provider, or of another credential than the configured one.
LEMMA PopAccounted ==
  ASSUME Delivered, Accounts, Accounted, cpa' = cpa, NEW r \in Run, Pop(r)
  PROVE  Accounted'
<1> DEFINE kept == {e \in Range(Batch(queue)) : Converts(e, drain[r].account)}
           left == IF Len(queue) < BatchSize THEN 0 ELSE drain[r].left - 1
           d == [drain[r] EXCEPT !.step = AfterPop(kept, left), !.batch = kept, !.left = left]
<1>1. /\ drain' = [drain EXCEPT ![r] = d] /\ queue' = Rest(queue)
      /\ drain[r].step = "pop" /\ made' = made /\ rows' = rows /\ lost' = lost
  <2>1. drain' = [drain EXCEPT ![r] = d]
    BY DEF Pop, Accounts, NoDrain
  <2>2. QED
    BY <2>1 DEF Pop, At
<1>2. d.batch = kept /\ (kept # {} => d.step = "save")
  BY DEF Accounts, NoDrain, AfterPop
<1>3. Range(queue) \subseteq Range(Batch(queue)) \cup Range(queue')
  BY <1>1, BatchAndRest DEF Delivered
<1>4. HasAccount(drain[r], cpa.account)
  BY DEF Accounts
<1> HIDE DEF d
<1>5. Held \subseteq Held'
  BY <1>1, HeldStays
<1>6. RecordsOf(kept) \subseteq Held'
  <2> SUFFICES ASSUME NEW x \in kept
               PROVE  x.record \in Held'
    BY DEF RecordsOf
  <2>1. drain'[r] = d
    BY <1>1 DEF Accounts
  <2>2. drain'[r].step = "save" /\ x.record \in RecordsOf(drain'[r].batch)
    BY <1>2, <2>1 DEF RecordsOf
  <2>3. QED
    BY <2>2 DEF Held, RecordsOf
<1>7. ASSUME NEW x \in Range(Batch(queue)), x \notin kept
      PROVE  x.record.kind # "own" \/ (Pinned /\ x.record.auth # cpa.account)
  <2>1. x.record.kind # "own" \/ (Pinned /\ drain[r].account # NoAuth /\ x.record.auth # drain[r].account)
    BY <1>7 DEF Converts
  <2>2. QED
    BY <1>4, <2>1 DEF HasAccount, Pinned
<1> HIDE DEF kept
<1> SUFFICES ASSUME NEW e \in made
             PROVE  \/ e \in RecordsOf(Range(queue')) \cup Held' \cup lost
                    \/ \E row \in rows : row.record = e
                    \/ e.kind # "own"
                    \/ Pinned /\ e.auth # cpa.account
  BY <1>1 DEF Accounted, Pinned
<1>8. CASE e \in RecordsOf(Range(queue))
  <2>1. PICK x \in Range(queue) : x.record = e
    BY <1>8 DEF RecordsOf
  <2>2. CASE x \in Range(queue')
    BY <2>1, <2>2 DEF RecordsOf
  <2>3. CASE x \in kept
    BY <1>6, <2>1, <2>3 DEF RecordsOf
  <2>4. CASE x \in Range(Batch(queue)) /\ x \notin kept
    BY <1>7, <2>1, <2>4
  <2>5. QED
    BY <1>3, <2>2, <2>3, <2>4
<1>9. QED
  BY <1>5, <1>8 DEF Accounted

\* A batch is saved: a row it replaces is of the same request.
LEMMA SaveAccounted ==
  ASSUME Numbered, Delivered, Accounts, Accounted, cpa' = cpa, NEW r \in Run, Save(r)
  PROVE  Accounted'
<1> DEFINE batch == drain[r].batch
<1>1. /\ rows' = {row \in rows : \A x \in batch : Key(x) # row.key}
                   \cup {[key |-> Key(x), record |-> x.record, blind |-> drain[r].blind] : x \in batch}
      /\ queue' = queue /\ made' = made /\ lost' = lost
  BY DEF Save
<1>2. ASSUME NEW x \in batch
      PROVE  \E row \in rows' : row.record = x.record
  <2> DEFINE row == [key |-> Key(x), record |-> x.record, blind |-> drain[r].blind]
  <2>1. row \in rows' /\ row.record = x.record
    BY <1>1, <1>2
  <2>2. QED
    BY <2>1
<1>3. ASSUME NEW row \in rows
      PROVE  \E other \in rows' : other.record = row.record
  <2>1. CASE \A x \in batch : Key(x) # row.key
    BY <1>1, <2>1
  <2>2. ASSUME NEW x \in batch, Key(x) = row.key
        PROVE  x.record = row.record
    BY <2>2 DEF Key, Delivered, Numbered, Entry
  <2>3. QED
    BY <1>2, <2>1, <2>2
<1>4. ASSUME NEW e \in Held
      PROVE  e \in Held' \/ \E row \in rows' : row.record = e
  <2>1. PICK x \in Run : InHands(x, e)
    BY <1>4, HeldInHands
  <2>2. CASE x = r
    BY <1>2, <2>1, <2>2 DEF InHands, RecordsOf
  <2>3. CASE x # r
    <3>1. drain'[x] = drain[x]
      BY <2>3 DEF Save, Accounts
    <3>2. InHands(x, e)'
      BY <2>1, <3>1 DEF InHands, RecordsOf
    <3>3. QED
      BY <3>2 DEF Held, InHands
  <2>4. QED
    BY <2>2, <2>3
<1>5. QED
  BY <1>1, <1>3, <1>4, Stays

LEMMA AccountedStep ==
  ASSUME Numbered, Delivered, Accounts, Accounted, [Next]_vars
  PROVE  Accounted'
<1>0. cpa' = cpa
  BY ConfigurationStays
<1> USE DEF Delivered
<1>1. ASSUME NEW auth \in cpa.used, NEW kind \in cpa.kinds, Request(auth, kind)
      PROVE  Accounted'
  <2> DEFINE record == [n |-> Cardinality(made) + 1, auth |-> auth, kind |-> kind, at |-> now]
             entry == [record |-> record, copy |-> 1]
  <2>1. /\ made' = made \cup {record} /\ queue' = Append(queue, entry)
        /\ UNCHANGED <<rows, drain, lost>>
    BY <1>1 DEF Request
  <2> HIDE DEF entry
  <2>2. Range(queue') = Range(queue) \cup {entry}
    BY <2>1, AppendRange
  <2>3. entry.record = record
    BY DEF entry
  <2>4. RecordsOf(Range(queue')) = RecordsOf(Range(queue)) \cup {record}
    BY <2>2, <2>3 DEF RecordsOf
  <2>5. Held' = Held
    BY <2>1 DEF Held, RecordsOf
  <2> HIDE DEF record
  <2>6. QED
    BY <1>0, <2>1, <2>4, <2>5 DEF Accounted, Pinned
<1>2. CASE Redeliver
  <2>1. PICK entry : queue' = Append(queue, entry)
    BY <1>2 DEF Redeliver
  <2>2. Range(queue') = Range(queue) \cup {entry}
    BY <2>1, AppendRange
  <2>3. RecordsOf(Range(queue)) \subseteq RecordsOf(Range(queue'))
    BY <2>2 DEF RecordsOf
  <2>4. Held' = Held
    BY <1>2 DEF Redeliver, Held, RecordsOf
  <2>5. QED
    BY <1>0, <1>2, <2>3, <2>4, Stays DEF Redeliver
<1>3. CASE Expire
  <2>1. Range(queue) \subseteq Range(queue') \cup {queue[1]}
    BY <1>3, RangeTail DEF Expire
  <2>2. RecordsOf(Range(queue)) \subseteq RecordsOf(Range(queue')) \cup lost'
    BY <1>3, <2>1 DEF Expire, Loses, RecordsOf
  <2>3. Held' = Held
    BY <1>3 DEF Expire, Held, RecordsOf
  <2>4. QED
    BY <1>0, <1>3, <2>2, <2>3, Stays DEF Expire, Loses
<1>4. CASE Restart
  <2>1. lost' = lost \cup Held /\ UNCHANGED <<made, queue, rows>>
    BY <1>4 DEF Restart, Loses
  <2>2. QED
    BY <1>0, <2>1, Stays DEF RecordsOf
<1>5. ASSUME NEW r \in Run,
             \/ Start(r) \/ Throttled(r) \/ Refresh(r) \/ RefreshFails(r) \/ Select(r)
             \/ Refreshed(r) \/ List(r) \/ ListFails(r)
      PROVE  Accounted'
  <2> USE DEF At, Quota, Accounts
  <2>1. drain[r].step # "save" /\ UNCHANGED <<made, queue, rows, lost>>
    BY <1>5 DEF Start, Throttled, Refresh, RefreshFails, Select, Refreshed, List, ListFails
  <2>2. \E d : drain' = [drain EXCEPT ![r] = d]
    <3>1. CASE Start(r)
      BY <3>1 DEF Start
    <3>2. CASE Throttled(r) \/ RefreshFails(r)
      BY <3>2 DEF Throttled, RefreshFails
    <3>3. CASE Refresh(r)
      BY <3>3 DEF Refresh
    <3>4. CASE Select(r)
      <4>1. PICK n \in Candidates :
              drain' = [drain EXCEPT ![r] = [drain[r] EXCEPT !.step = "fetch", !.account = Auth[n]]]
        BY <3>4 DEF Select
      <4>2. QED
        BY <4>1
    <3>5. CASE Refreshed(r)
      <4>1. PICK items :
              drain' = [drain EXCEPT ![r].step = "pop", ![r].account = drain[r].account,
                                     ![r].quota = items, ![r].quotaErr = FALSE, ![r].blind = FALSE]
        BY <3>5 DEF Refreshed
      <4> DEFINE d == [drain[r] EXCEPT !.step = "pop", !.account = drain[r].account,
                                       !.quota = items, !.quotaErr = FALSE, !.blind = FALSE]
      <4>2. drain' = [drain EXCEPT ![r] = d]
        BY <4>1
      <4>3. QED
        BY <4>2
    <3>6. CASE List(r) \/ ListFails(r)
      BY <3>6 DEF List, ListFails
    <3>7. QED
      BY <1>5, <3>1, <3>2, <3>3, <3>4, <3>5, <3>6
  <2>3. Held \subseteq Held'
    BY <2>1, <2>2, HeldStays
  <2>4. QED
    BY <1>0, <2>1, <2>3, Stays DEF RecordsOf
<1>6. ASSUME NEW r \in Run, PopFails(r)
      PROVE  Accounted'
  <2>1. /\ drain[r].step # "save" /\ UNCHANGED <<made, rows>> /\ lost \subseteq lost'
        /\ drain' = [drain EXCEPT ![r].step = "list", ![r].drainErr = TRUE]
    BY <1>6 DEF PopFails, At, Loses
  <2>2. \E d : drain' = [drain EXCEPT ![r] = d]
    BY <2>1
  <2>3. Held \subseteq Held'
    BY <2>1, <2>2, HeldStays
  <2>4. RecordsOf(Range(queue)) \subseteq RecordsOf(Range(queue')) \cup lost'
    <3>1. Range(queue) \subseteq Range(Batch(queue)) \cup Range(Rest(queue))
      BY BatchAndRest
    <3>2. QED
      BY <1>6, <3>1 DEF PopFails, Loses, RecordsOf
  <2>5. QED
    BY <1>0, <2>1, <2>3, <2>4, Stays
<1>7. ASSUME NEW r \in Run, SaveFails(r)
      PROVE  Accounted'
  <2>1. lost' = lost \cup RecordsOf(drain[r].batch) /\ UNCHANGED <<made, queue, rows>>
    BY <1>7 DEF SaveFails, Loses
  <2>2. ASSUME NEW e \in Held
        PROVE  e \in Held' \cup lost'
    <3>1. PICK x \in Run : InHands(x, e)
      BY <2>2, HeldInHands
    <3>2. CASE x = r
      BY <2>1, <3>1, <3>2 DEF InHands
    <3>3. CASE x # r
      <4>1. drain'[x] = drain[x]
        BY <1>7, <3>3 DEF SaveFails, Accounts
      <4>2. QED
        BY <3>1, <4>1 DEF Held, InHands, RecordsOf
    <3>4. QED
      BY <3>2, <3>3
  <2>3. QED
    BY <1>0, <2>1, <2>2, Stays DEF RecordsOf
<1>8. ASSUME UNCHANGED <<made, queue, rows, drain, lost>>
      PROVE  Accounted'
  BY <1>0, <1>8 DEF Accounted, Held, RecordsOf, Pinned
<1>9. QED
  BY CPASteps, <1>0, <1>1, <1>2, <1>3, <1>4, <1>5, <1>6, <1>7, <1>8, PopAccounted, SaveAccounted
     DEF CPACollect, Time, Switch, cpaVars

---------------------------------------------------------------------------
(* The theorems about CPA.                                                 *)

LEMMA RecordInit == Init => RecordInv
<1> SUFFICES ASSUME Init
             PROVE  RecordInv
  OBVIOUS
<1> USE DEF Init, CPAInit
<1>1. Numbered
  BY FS_EmptySet DEF Numbered
<1>2. Delivered
  BY DEF Delivered, NoDrain
<1>3. Accounts
  BY DEF Accounts, HasAccount, NoDrain, NoCache, Pinned
<1>4. PinnedOnly /\ Accounted
  BY DEF PinnedOnly, Accounted
<1>5. QED
  BY <1>1, <1>2, <1>3, <1>4 DEF RecordInv

LEMMA RecordStep == RecordInv /\ [Next]_vars => RecordInv'
BY NumberedStep, DeliveredStep, AccountsStep, PinnedOnlyStep, AccountedStep DEF RecordInv

\* The inductive invariant of the collects of CPA (quota, drainUsage, SaveIngestedUsage) holds at
\* every step of the panel.
THEOREM RecordInvHolds == Spec => []RecordInv
BY RecordInit, RecordStep, PTL DEF Spec

\* What drainUsage pops from the queue is stored, or was lost to a failure, a restart or the
\* retention, or is an entry convertUsage discards: one it cannot read, one of another
\* provider, or one of another credential than the configured one.
THEOREM RecordsAccounted == Spec => []Accounted
BY RecordInvHolds, PTL DEF RecordInv

\* Once a refresh of the quota has succeeded, no collect that asks for the quota after it
\* stores a record of another credential than the configured one, whichever refreshes fail
\* and however collects overlap (quota, convertUsage); before, a collect may.
THEOREM RecordsPinned == Spec => []PinnedOnly
BY RecordInvHolds, PTL DEF RecordInv

---------------------------------------------------------------------------
(* The groups of the machines.                                             *)

\* A push has groups or totals of days: an agent that has neither sends none.
PushInv ==
  /\ DOMAIN groups = agy.machines /\ DOMAIN push = agy.machines /\ DOMAIN agent = agy.machines
  /\ \A m \in agy.machines :
       /\ DOMAIN agent[m] = DOMAIN NoReading /\ DOMAIN push[m] = DOMAIN NoReading
       /\ push[m].step # "idle" => push[m].groups # <<>> \/ push[m].days # <<>>

LEMMA GroupSteps ==
  ASSUME [Next]_vars
  PROVE  \/ \E m \in agy.machines :
              \/ FetchGroups(m) \/ ReadStats(m) \/ Push(m) \/ Lose(m) \/ SaveTotals(m) \/ ReplaceGroups(m)
         \/ UNCHANGED <<agy, agent, push, groups>>
BY DEF Next, Time, CPA, Antigravity, UseTokens, CollectGroups, vars, agyVars

\* The answer of Switch on the totals changes only the cycle.
LEMMA StatsRead ==
  ASSUME PushInv, NEW m \in agy.machines, ReadStats(m)
  PROVE  /\ UNCHANGED <<agy, tokens, misfiled, push, groups, totals>> /\ agent[m].step = "read"
         /\ \E y : /\ agent' = [agent EXCEPT ![m] = y] /\ DOMAIN y = DOMAIN NoReading
                  /\ y.groups = agent[m].groups /\ y.from = agent[m].from
                  /\ y.read = agent[m].read /\ y.at = agent[m].at /\ y.step = "dated"
                  /\ y.days \in {<<>>, [d \in {e \in Days : tokens[m][e] > 0} |-> tokens[m][d]]}
                  /\ y.day = DayOf(now)
<1>1. PICK days \in {<<>>, [d \in {e \in Days : tokens[m][e] > 0} |-> tokens[m][d]]} :
        agent' = [agent EXCEPT ![m].step = "dated", ![m].days = days, ![m].day = DayOf(now)]
  BY DEF ReadStats
<1> DEFINE y == [agent[m] EXCEPT !.step = "dated", !.days = days, !.day = DayOf(now)]
<1>2. agent' = [agent EXCEPT ![m] = y]
  BY <1>1
<1>3. DOMAIN agent[m] = DOMAIN NoReading
  BY DEF PushInv
<1>4. /\ DOMAIN y = DOMAIN NoReading
      /\ y.groups = agent[m].groups /\ y.from = agent[m].from /\ y.read = agent[m].read
      /\ y.at = agent[m].at /\ y.step = "dated" /\ y.days = days /\ y.day = DayOf(now)
  BY <1>3 DEF NoReading
<1> HIDE DEF y
<1>5. QED
  BY <1>1, <1>2, <1>4 DEF ReadStats

LEMMA PushInit == Init => PushInv
BY DEF Init, GroupsInit, PushInv, NoReading

LEMMA PushStep == PushInv /\ [Next]_vars => PushInv'
<1> SUFFICES ASSUME PushInv, [Next]_vars
             PROVE  PushInv'
  OBVIOUS
<1>0. \A m \in agy.machines : ReadStats(m) =>
        \E y : agent' = [agent EXCEPT ![m] = y] /\ DOMAIN y = DOMAIN NoReading
  BY StatsRead
<1> USE DEF PushInv
<1>1. ASSUME NEW m \in agy.machines, FetchGroups(m)
      PROVE  PushInv'
  <2>1. UNCHANGED <<agy, push, groups>> /\ \E c, host : FromSwitch(m, c) \/ FromCloud(m, c, host)
    BY <1>1, Zenon DEF FetchGroups
  <2>2. \E c, read, at, from : Reads(m, c, read, at, from)
    BY <2>1, Zenon DEF FromSwitch, FromCloud
  <2>3. PICK c, read, at, from : Reads(m, c, read, at, from)
    BY <2>2, Zenon
  <2> DEFINE d == [NoReading EXCEPT !.step = "read", !.groups = read, !.from = from,
                                    !.read = at, !.at = now]
  <2>4. agent' = [agent EXCEPT ![m] = d]
    BY <2>3 DEF Reads
  <2>5. DOMAIN d = DOMAIN NoReading
    BY DEF NoReading
  <2> HIDE DEF d
  <2>6. QED
    BY <2>1, <2>4, <2>5
<1>2. ASSUME NEW m \in agy.machines, Push(m)
      PROVE  PushInv'
  <2>1. /\ UNCHANGED <<agy, groups>> /\ agent' = [agent EXCEPT ![m] = NoReading]
        /\ \E days :
             push' = IF agent[m].groups = <<>> /\ days = <<>> THEN push
                     ELSE [push EXCEPT ![m] = [agent[m] EXCEPT !.step = "sent", !.days = days]]
    BY <1>2 DEF Push
  <2>2. PICK days :
          push' = IF agent[m].groups = <<>> /\ days = <<>> THEN push
                  ELSE [push EXCEPT ![m] = [agent[m] EXCEPT !.step = "sent", !.days = days]]
    BY <2>1
  <2>3. CASE push' = push
    BY <2>1, <2>3
  <2> DEFINE p == [agent[m] EXCEPT !.step = "sent", !.days = days]
  <2>4. p.groups = agent[m].groups /\ p.days = days /\ DOMAIN p = DOMAIN NoReading
    BY DEF NoReading
  <2>5. CASE push' = [push EXCEPT ![m] = p] /\ ~(agent[m].groups = <<>> /\ days = <<>>)
    <3> HIDE DEF p
    <3>1. QED
      BY <2>1, <2>4, <2>5
  <2>6. QED
    BY <2>2, <2>3, <2>5
<1>3. ASSUME NEW m \in agy.machines, Lose(m)
      PROVE  PushInv'
  BY <1>3 DEF Lose, NoReading
<1>4. ASSUME NEW m \in agy.machines, SaveTotals(m)
      PROVE  PushInv'
  <2> DEFINE p == [push[m] EXCEPT !.step = "saved"]
  <2>1. p.groups = push[m].groups /\ p.days = push[m].days /\ DOMAIN p = DOMAIN NoReading
    BY DEF NoReading
  <2>2. push[m].step = "sent" /\ push' = [push EXCEPT ![m] = p] /\ UNCHANGED <<agy, agent, groups>>
    BY <1>4 DEF SaveTotals
  <2> HIDE DEF p
  <2>3. QED
    BY <2>1, <2>2
<1>5. ASSUME NEW m \in agy.machines, ReplaceGroups(m)
      PROVE  PushInv'
  <2>1. /\ DOMAIN groups' = agy.machines /\ UNCHANGED <<agy, agent>>
        /\ push' = [push EXCEPT ![m] = NoReading]
    BY <1>5 DEF ReplaceGroups
  <2>2. QED
    BY <2>1 DEF NoReading
<1>6. ASSUME NEW m \in agy.machines, ReadStats(m)
      PROVE  PushInv'
  <2>1. UNCHANGED <<agy, push, groups>>
    BY <1>6, StatsRead
  <2>2. PICK y : agent' = [agent EXCEPT ![m] = y] /\ DOMAIN y = DOMAIN NoReading
    BY <1>0, <1>6
  <2>3. QED
    BY <2>1, <2>2
<1>7. QED
  BY GroupSteps, <1>1, <1>2, <1>3, <1>4, <1>5, <1>6

\* What a push replaces the groups with is never empty.
LEMMA GroupsStay ==
  ASSUME PushInv, [Next]_vars, NEW m \in agy.machines, groups[m].groups # <<>>
  PROVE  groups'[m].groups # <<>>
<1>1. CASE groups' = groups
  BY <1>1
<1>2. ASSUME NEW x \in agy.machines, ReplaceGroups(x), groups' # groups
      PROVE  groups'[m].groups # <<>>
  <2>1. /\ push[x].step = "saved" /\ Replaces(push[x])
        /\ groups' = [groups EXCEPT ![x] = [groups |-> push[x].groups, from |-> push[x].from,
                                             read |-> push[x].read, at |-> now]]
    BY <1>2 DEF ReplaceGroups
  <2>2. push[x].groups # <<>>
    BY <2>1 DEF Replaces, PushInv
  <2>3. QED
    BY <2>1, <2>2 DEF PushInv
<1>3. groups' = groups \/ \E x \in agy.machines : ReplaceGroups(x)
  BY GroupSteps DEF FetchGroups, ReadStats, Push, Lose, SaveTotals
<1>4. QED
  BY <1>1, <1>2, <1>3

\* No push takes away the groups of a machine, whatever pushes repeat, fail or are lost:
\* totals alone keep them, and an agent sends an empty push never (ingestQuotaGroups).
THEOREM GroupsKept == Spec => KeepsGroups
<1>1. PushInv /\ [Next]_vars =>
        [\A m \in agy.machines : groups[m].groups # <<>> => groups'[m].groups # <<>>]_groups
  BY GroupsStay
<1>2. QED
  BY <1>1, PushInit, PushStep, PTL DEF Spec, KeepsGroups

---------------------------------------------------------------------------
(* What the machines report.                                               *)

Sources == {"cloud", "static", "switch", "undated"}

BucketOf(from, b) ==
  CASE from = "cloud" -> Bucket(b) [] from = "static" -> StaticBucket(b) [] OTHER -> SwitchBucket(b)

\* A group as an answer of upstream or of the Switch tells of it.
ReportIn(quotaThen, from, name) ==
  [name |-> name, five |-> BucketOf(from, quotaThen[name].five),
                  week |-> BucketOf(from, quotaThen[name].week)]

\* How old a reading may be when it is made; of an answer without a date nothing is known.
Slack(from) ==
  CASE from = "switch" -> SwitchMaxAge [] from = "undated" -> LastMoment [] OTHER -> 0

\* Groups in someone's hands are those of an answer.
AsRead(x) ==
  x.groups # <<>> => /\ x.from \in Sources /\ x.read \in Moments
                     /\ x.groups = GroupsOf(agy.quota[x.read], x.from)

\* A cycle or a push that is under way.
Underway(x) ==
  x.step # "idle" => /\ x.at \in Int /\ now <= x.at + PushDelay
                     /\ x.groups # <<>> => x.read + Slack(x.from) >= x.at

\* The agents, the pushes and the server have groups as they were read, not long before.
ReadInv ==
  /\ now \in Moments
  /\ \E s \in Setups : agy = s.agy
  /\ \A m \in agy.machines :
       /\ AsRead(agent[m]) /\ AsRead(push[m]) /\ AsRead(groups[m])
       /\ Underway(agent[m]) /\ Underway(push[m])
       /\ groups[m].groups # <<>> =>
            groups[m].at \in Int /\ groups[m].read + Slack(groups[m].from) + PushDelay >= groups[m].at

LEMMA ReadInit == Init => ReadInv
BY ClockConstants DEF Init, GroupsInit, ReadInv, AsRead, Underway, NoReading, NoGroups, Moments

LEMMA AgyStays == [Next]_vars => agy' = agy
BY GroupSteps, Zenon DEF FetchGroups, ReadStats, Push, Lose, SaveTotals, ReplaceGroups

\* What holds of a cycle or a push holds of it also when only its step and its totals change.
LEMMA SameReading ==
  ASSUME NEW x, NEW y, y.groups = x.groups, y.from = x.from, y.read = x.read, y.at = x.at,
         x.step # "idle", AsRead(x), Underway(x)
  PROVE  AsRead(y) /\ Underway(y)
BY DEF AsRead, Underway

\* A cycle that reads: what it has in hand, and when it was read.
Begins(m, read, at, from) ==
  /\ agent' = [agent EXCEPT ![m] = [NoReading EXCEPT !.step = "read", !.groups = read, !.from = from,
                                                     !.read = at, !.at = now]]
  /\ read # <<>> => /\ from \in Sources /\ at \in Moments /\ at + Slack(from) >= now
                    /\ read = GroupsOf(agy.quota[at], from)

LEMMA FetchBegins ==
  ASSUME now \in Moments, \E s \in Setups : agy = s.agy, NEW m, FetchGroups(m)
  PROVE  UNCHANGED <<agy, push, groups>> /\ \E read, at, from : Begins(m, read, at, from)
<1>0. SwitchMaxAge \in Nat /\ LastMoment \in Nat
  BY GroupConstants, ClockConstants
<1>1. UNCHANGED <<agy, push, groups>> /\ \E c, host : FromSwitch(m, c) \/ FromCloud(m, c, host)
  BY Zenon DEF FetchGroups
<1>2. ASSUME NEW c, NEW host, FromCloud(m, c, host)
      PROVE  \E read, at, from : Begins(m, read, at, from)
  <2>1. PICK from \in Answers(host) : Reads(m, c, GroupsOf(agy.quota[now], from), now, from)
    BY <1>2 DEF FromCloud
  <2>2. from \in {"cloud", "static"}
    BY SetupConstants DEF Answers
  <2>3. from \in Sources /\ now + Slack(from) >= now
    BY <1>0, <2>2 DEF Slack, Moments, Sources
  <2>4. Begins(m, GroupsOf(agy.quota[now], from), now, from)
    BY <2>1, <2>3 DEF Reads, Begins
  <2>5. QED
    BY <2>4
<1>3. ASSUME NEW c, Reads(m, c, <<>>, now, "none")
      PROVE  Begins(m, <<>>, now, "none")
  BY <1>3, Zenon DEF Reads, Begins
<1>4. ASSUME NEW c, NEW from \in agy.switch, NEW age \in 0..now, from = "undated" \/ age <= SwitchMaxAge,
             Reads(m, c, GroupsOf(agy.quota[now - age], from), now - age, from)
      PROVE  Begins(m, GroupsOf(agy.quota[now - age], from), now - age, from)
  <2>1. from \in {"switch", "undated"}
    BY SetupConstants
  <2>2. now - age \in Moments /\ from \in Sources
    BY <1>0, <2>1 DEF Moments, Sources
  <2>3. (now - age) + Slack(from) >= now
    <3>1. CASE from = "switch"
      BY <1>0, <1>4, <3>1 DEF Slack, Moments
    <3>2. CASE from = "undated"
      BY <1>0, <3>2 DEF Slack, Moments
    <3>3. QED
      BY <2>1, <3>1, <3>2
  <2>4. QED
    BY <1>4, <2>2, <2>3, Zenon DEF Reads, Begins
<1>5. \A c : FromSwitch(m, c) => \E read, at, from : Begins(m, read, at, from)
  BY <1>3, <1>4, Zenon DEF FromSwitch
<1>6. QED
  BY <1>1, <1>2, <1>5, Zenon

LEMMA PushSends ==
  ASSUME NEW m, Push(m)
  PROVE  /\ UNCHANGED <<agy, groups>> /\ agent' = [agent EXCEPT ![m] = NoReading]
         /\ agent[m].step = "dated"
         /\ \E days :
              push' = IF agent[m].groups = <<>> /\ days = <<>> THEN push
                      ELSE [push EXCEPT ![m] = [agent[m] EXCEPT !.step = "sent", !.days = days]]
BY Zenon DEF Push

LEMMA ReadStep ==
  ASSUME PushInv, ReadInv, [Next]_vars
  PROVE  ReadInv'
<1> USE DEF PushInv, ReadInv
<1>0. PushDelay \in Nat /\ SwitchMaxAge \in Nat /\ LastMoment \in Nat /\ now \in Int /\ agy' = agy
  BY GroupConstants, ClockConstants, AgyStays DEF Moments
<1>1. CASE Time
  <2>1. now' \in Moments /\ UNCHANGED <<agy, agent, push, groups>> /\ Timely(now')
    BY <1>0, <1>1 DEF Time, Tick, Moments, agyVars
  <2>2. ASSUME NEW m \in agy.machines
        PROVE  Underway(agent[m])' /\ Underway(push[m])'
    BY <2>1, <1>0 DEF Timely, Underway, Moments
  <2>3. QED
    BY <2>1, <2>2 DEF AsRead
<1>2. CASE UNCHANGED <<now, agy, agent, push, groups>>
  BY <1>2 DEF AsRead, Underway
<1>3. ASSUME NEW m \in agy.machines, FetchGroups(m), now' = now
      PROVE  ReadInv'
  <2>1. UNCHANGED <<agy, push, groups>> /\ \E read, at, from : Begins(m, read, at, from)
    BY <1>3, FetchBegins
  <2>2. PICK read, at, from : Begins(m, read, at, from)
    BY <2>1
  <2> DEFINE d == [NoReading EXCEPT !.step = "read", !.groups = read, !.from = from,
                                    !.read = at, !.at = now]
  <2>3. agent' = [agent EXCEPT ![m] = d]
    BY <2>2 DEF Begins
  <2>4. AsRead(d) /\ Underway(d)
    <3>1. d.groups = read /\ d.from = from /\ d.read = at /\ d.at = now
      BY DEF NoReading
    <3> HIDE DEF d
    <3>2. QED
      BY <1>0, <2>2, <3>1 DEF Begins, AsRead, Underway
  <2> HIDE DEF d
  <2>5. QED
    BY <1>3, <2>1, <2>3, <2>4 DEF AsRead, Underway
<1>4. ASSUME NEW m \in agy.machines, Push(m), now' = now
      PROVE  ReadInv'
  <2>1. UNCHANGED <<agy, groups>> /\ agent' = [agent EXCEPT ![m] = NoReading] /\ agent[m].step = "dated"
    BY <1>4, PushSends, Zenon
  <2>2. PICK days :
          push' = IF agent[m].groups = <<>> /\ days = <<>> THEN push
                  ELSE [push EXCEPT ![m] = [agent[m] EXCEPT !.step = "sent", !.days = days]]
    BY <1>4, PushSends, Zenon
  <2>3. AsRead(NoReading) /\ Underway(NoReading)
    BY DEF AsRead, Underway, NoReading
  <2>4. CASE push' = push
    BY <1>4, <2>1, <2>3, <2>4 DEF AsRead, Underway
  <2> DEFINE p == [agent[m] EXCEPT !.step = "sent", !.days = days]
  <2>5. p.groups = agent[m].groups /\ p.from = agent[m].from /\ p.read = agent[m].read
          /\ p.at = agent[m].at
    BY DEF NoReading
  <2>6. CASE push' = [push EXCEPT ![m] = p]
    <3> HIDE DEF p
    <3>1. AsRead(p) /\ Underway(p)
      BY <2>1, <2>5, SameReading
    <3>2. QED
      BY <1>4, <2>1, <2>3, <2>6, <3>1 DEF AsRead, Underway
  <2>7. QED
    BY <2>2, <2>4, <2>6
<1>5. ASSUME NEW m \in agy.machines, Lose(m), now' = now
      PROVE  ReadInv'
  BY <1>5 DEF Lose, NoReading, AsRead, Underway
<1>6. ASSUME NEW m \in agy.machines, SaveTotals(m), now' = now
      PROVE  ReadInv'
  <2> DEFINE p == [push[m] EXCEPT !.step = "saved"]
  <2>1. p.groups = push[m].groups /\ p.from = push[m].from /\ p.read = push[m].read /\ p.at = push[m].at
    BY DEF NoReading
  <2>2. push[m].step = "sent" /\ push' = [push EXCEPT ![m] = p] /\ UNCHANGED <<agy, agent, groups>>
    BY <1>6 DEF SaveTotals
  <2> HIDE DEF p
  <2>3. AsRead(p) /\ Underway(p)
    BY <2>1, <2>2, SameReading
  <2>4. QED
    BY <1>6, <2>2, <2>3 DEF AsRead, Underway
<1>7. ASSUME NEW m \in agy.machines, ReplaceGroups(m), now' = now
      PROVE  ReadInv'
  <2> DEFINE g == [groups |-> push[m].groups, from |-> push[m].from, read |-> push[m].read, at |-> now]
  <2>1. /\ UNCHANGED <<agy, agent>> /\ push' = [push EXCEPT ![m] = NoReading]
        /\ push[m].step = "saved"
        /\ groups' = groups \/ groups' = [groups EXCEPT ![m] = g]
    BY <1>7 DEF ReplaceGroups
  <2>2. /\ AsRead(g) /\ g.at \in Int
        /\ g.groups # <<>> => g.read + Slack(g.from) + PushDelay >= g.at
    <3>1. AsRead(push[m]) /\ Underway(push[m])
      OBVIOUS
    <3>2. g.groups # <<>> => push[m].at \in Int /\ push[m].read \in Int /\ Slack(g.from) \in Int
      BY <1>0, <2>1, <3>1 DEF AsRead, Underway, Slack, Moments, Sources
    <3>3. QED
      BY <1>0, <2>1, <3>1, <3>2 DEF AsRead, Underway
  <2>3. AsRead(NoReading) /\ Underway(NoReading)
    BY DEF AsRead, Underway, NoReading
  <2> HIDE DEF g
  <2>4. QED
    BY <1>7, <2>1, <2>2, <2>3 DEF AsRead, Underway
<1>8. ASSUME NEW m \in agy.machines, ReadStats(m), now' = now
      PROVE  ReadInv'
  <2>1. UNCHANGED <<agy, push, groups>> /\ agent[m].step = "read"
    BY <1>8, StatsRead
  <2>2. PICK y : /\ agent' = [agent EXCEPT ![m] = y] /\ y.groups = agent[m].groups
                 /\ y.from = agent[m].from /\ y.read = agent[m].read /\ y.at = agent[m].at
    BY <1>8, StatsRead
  <2>3. AsRead(y) /\ Underway(y)
    BY <2>1, <2>2, SameReading
  <2>4. QED
    BY <1>8, <2>1, <2>2, <2>3 DEF AsRead, Underway
<1>9. QED
  BY GroupSteps, ClockStep, <1>1, <1>2, <1>3, <1>4, <1>5, <1>6, <1>7, <1>8 DEF Time, agyVars

---------------------------------------------------------------------------
(* What the panel shows of them.                                           *)

LeftAt(window, t) == IF window.reset <= t THEN 100 ELSE window.left

\* The items of a report at a moment.
IsItemOf(item, report, t) ==
  \/ report.five # NoWindow /\ item = QuotaItem(report.name, "5H", LeftAt(report.five, t))
  \/ report.week # NoWindow /\ item = QuotaItem(report.name, "Week", LeftAt(report.week, t))

\* What was read of a group that is shown.
ReadOf(s, quotaOf) == ReportIn(quotaOf[s.read], s.from, s.name)

\* A snapshot has the items of the groups it says it shows, and nothing else that counts
\* as quota; each was read not long before.
Shows(snapshot, quotaOf) ==
  LET shown == snapshot.shown
  IN  /\ snapshot.at \in Moments
      /\ \E l \in Nat : DOMAIN shown = 1..l
      /\ \A n, k \in DOMAIN shown : shown[n].name = shown[k].name => n = k
      /\ snapshot.items \in Seq(Range(snapshot.items))
      /\ \A n \in DOMAIN shown :
           /\ shown[n].name \in Range(Group) /\ shown[n].from \in Sources
           /\ shown[n].read \in Moments
           /\ ReadOf(shown[n], quotaOf).five # NoWindow \/ ReadOf(shown[n], quotaOf).week # NoWindow
           /\ shown[n].read + Slack(shown[n].from) + PushDelay + GroupStale >= snapshot.at
      /\ \A i : i \in Stated(snapshot.items) <=>
                  \E n \in DOMAIN shown : IsItemOf(i, ReadOf(shown[n], quotaOf), snapshot.at)

ShownInv == Shows(gemini, agy.quota)

LEMMA ItemsOfReports ==
  ASSUME NEW S, NEW reports \in Seq(S)
  PROVE  /\ QuotaItems(reports) \in Seq(Range(QuotaItems(reports)))
         /\ \A i : i \in Range(QuotaItems(reports)) <=>
                     \E n \in DOMAIN reports : IsItemOf(i, reports[n], now)
<1> DEFINE l == Len(reports)
           report(k) == reports[(k + 1) \div 2]
           cell(k) == IF k % 2 = 1 THEN report(k).five ELSE report(k).week
           stated == {k \in 1..(2 * l) : cell(k) # NoWindow}
           item(k) == QuotaItem(report(k).name, IF k % 2 = 1 THEN "5H" ELSE "Week", LeftOf(cell(k)))
           items == [k \in stated |-> item(k)]
<1>1. QuotaItems(reports) = Picked(items, stated)
  BY DEF QuotaItems
<1>2. l \in Nat /\ 2 * l \in Nat /\ DOMAIN reports = 1..l
  OBVIOUS
<1>3. stated \in SUBSET (1..(2 * l)) /\ stated \in SUBSET Nat
  BY <1>2
<1>4. IsFiniteSet(stated)
  <2> HIDE DEF stated
  <2>1. QED
    BY <1>2, <1>3, Within
<1>5. Range(QuotaItems(reports)) = {items[k] : k \in stated}
  <2> HIDE DEF stated, items
  <2>1. QED
    BY <1>1, <1>3, <1>4, PickedElements
<1>6. QuotaItems(reports) \in Seq(Range(QuotaItems(reports)))
  <2> DEFINE T == {items[k] : k \in stated}
  <2>1. \A k \in stated : items[k] \in T
    OBVIOUS
  <2> HIDE DEF stated, items, T
  <2>2. Picked(items, stated) \in Seq(T)
    BY <1>3, <1>4, <2>1, PickedSequence
  <2>3. QED
    BY <1>1, <1>5, <2>2 DEF T
<1>7. ASSUME NEW k \in 1..(2 * l)
      PROVE  (k + 1) \div 2 \in 1..l
  BY <1>2, <1>7
<1>8. ASSUME NEW n \in 1..l
      PROVE  /\ 2 * n - 1 \in 1..(2 * l) /\ (2 * n - 1) % 2 = 1 /\ ((2 * n - 1) + 1) \div 2 = n
             /\ 2 * n \in 1..(2 * l) /\ (2 * n) % 2 = 0 /\ (2 * n + 1) \div 2 = n
  BY <1>2, <1>8
<1>9. ASSUME NEW k \in stated
      PROVE  \E n \in DOMAIN reports : IsItemOf(items[k], reports[n], now)
  <2>1. PICK n \in 1..l : n = (k + 1) \div 2
    BY <1>3, <1>7
  <2>2. IsItemOf(items[k], reports[n], now)
    BY <2>1 DEF IsItemOf, LeftOf, LeftAt
  <2>3. QED
    BY <1>2, <2>2
<1>10. ASSUME NEW n \in DOMAIN reports, NEW i, IsItemOf(i, reports[n], now)
       PROVE  \E k \in stated : i = items[k]
  <2>1. n \in 1..l
    BY <1>2
  <2>2. CASE reports[n].five # NoWindow /\ i = QuotaItem(reports[n].name, "5H", LeftAt(reports[n].five, now))
    <3>1. PICK k \in 1..(2 * l) : k % 2 = 1 /\ (k + 1) \div 2 = n
      BY <1>8, <2>1
    <3>2. k \in stated /\ i = items[k]
      BY <2>2, <3>1 DEF LeftOf, LeftAt
    <3>3. QED
      BY <3>2
  <2>3. CASE reports[n].week # NoWindow /\ i = QuotaItem(reports[n].name, "Week", LeftAt(reports[n].week, now))
    <3>1. PICK k \in 1..(2 * l) : k % 2 = 0 /\ (k + 1) \div 2 = n
      BY <1>8, <2>1
    <3>2. k \in stated /\ i = items[k]
      BY <2>3, <3>1 DEF LeftOf, LeftAt
    <3>3. QED
      BY <3>2
  <2>4. QED
    BY <1>10, <2>2, <2>3 DEF IsItemOf
<1> HIDE DEF items, stated
<1>11. QED
  BY <1>5, <1>6, <1>9, <1>10

\* The totals are no quota.
LEMMA TotalsAreNoQuota ==
  TotalItems \in Seq(Range(TotalItems)) /\ \A i \in Range(TotalItems) : ~IsQuota(i)
<1> DEFINE today == DayOf(now)
           item(category, value, from) ==
             [category |-> category, product |-> "antigravity", value |-> value,
              start |-> from, end |-> today]
<1>1. \/ TotalItems = <<>>
      \/ \E v, w : TotalItems = <<item("token_usage_product", v, today),
                                  item("token_usage_product_week", w, WeekStart(today))>>
  BY Zenon DEF TotalItems
<1>2. CASE TotalItems = <<>>
  BY <1>2 DEF Range
<1>3. ASSUME NEW v, NEW w, TotalItems = <<item("token_usage_product", v, today),
                                          item("token_usage_product_week", w, WeekStart(today))>>
      PROVE  TotalItems \in Seq(Range(TotalItems)) /\ \A i \in Range(TotalItems) : ~IsQuota(i)
  <2> DEFINE a == item("token_usage_product", v, today)
             b == item("token_usage_product_week", w, WeekStart(today))
  <2>1. ~IsQuota(a) /\ ~IsQuota(b)
    BY DEF IsQuota
  <2>2. TotalItems = <<a, b>>
    BY <1>3
  <2> HIDE DEF a, b
  <2>3. DOMAIN TotalItems = 1..2 /\ TotalItems[1] = a /\ TotalItems[2] = b /\ TotalItems \in Seq({a, b})
    BY <2>2
  <2>4. Range(TotalItems) = {a, b}
    BY <2>3 DEF Range
  <2>5. QED
    BY <2>1, <2>3, <2>4
<1>4. QED
  BY <1>1, <1>2, <1>3

\* A group of an answer has a window, and is told of as the answer tells of it.
LEMMA GroupsOfAnswer ==
  ASSUME NEW quotaThen, NEW from, NEW n \in DOMAIN GroupsOf(quotaThen, from)
  PROVE  \E g \in Range(Group) :
           LET report == ReportIn(quotaThen, from, g)
           IN  /\ GroupsOf(quotaThen, from)[n] = report
               /\ report.five # NoWindow \/ report.week # NoWindow
<1> DEFINE bucket(b) == CASE from = "cloud"  -> Bucket(b)
                          [] from = "static" -> StaticBucket(b)
                          [] OTHER           -> SwitchBucket(b)
           read == [k \in DOMAIN Group |->
                      [name |-> Group[k], five |-> bucket(quotaThen[Group[k]].five),
                                          week |-> bucket(quotaThen[Group[k]].week)]]
           limited == {k \in DOMAIN Group : read[k].five # NoWindow \/ read[k].week # NoWindow}
<1>1. GroupsOf(quotaThen, from) = Picked(read, limited)
  BY DEF GroupsOf
<1>2. \A k \in DOMAIN Group : read[k] = ReportIn(quotaThen, from, Group[k]) /\ Group[k] \in Range(Group)
  BY DEF ReportIn, BucketOf, Range
<1>3. Len(Group) \in Nat /\ DOMAIN Group = 1..Len(Group)
  BY GroupConstants
<1>4. limited \in SUBSET (1..Len(Group)) /\ limited \in SUBSET Nat
  BY <1>3
<1>5. \A k \in limited : k \in DOMAIN Group /\ (read[k].five # NoWindow \/ read[k].week # NoWindow)
  OBVIOUS
<1> HIDE DEF read, limited
<1>6. IsFiniteSet(limited)
  BY <1>3, <1>4, Within
<1>7. Range(GroupsOf(quotaThen, from)) = {read[k] : k \in limited}
  BY <1>1, <1>4, <1>6, PickedRange
<1>8. PICK k \in limited : GroupsOf(quotaThen, from)[n] = read[k]
  BY <1>7 DEF Range
<1>9. QED
  BY <1>2, <1>5, <1>8

\* The report of a group the server has.
LEMMA ReportAsRead ==
  ASSUME ReadInv, NEW m \in agy.machines, NEW name \in NamesOf(m)
  PROVE  /\ name \in Range(Group) /\ groups[m].from \in Sources /\ groups[m].read \in Moments
         /\ ReportOf(m, name) = ReportIn(agy.quota[groups[m].read], groups[m].from, name)
         /\ ReportOf(m, name).five # NoWindow \/ ReportOf(m, name).week # NoWindow
         /\ groups[m].at \in Int /\ groups[m].read + Slack(groups[m].from) + PushDelay >= groups[m].at
<1> DEFINE list == groups[m].groups
           n == CHOOSE k \in DOMAIN list : list[k].name = name
<1>1. n \in DOMAIN list /\ list[n].name = name /\ ReportOf(m, name) = list[n]
  BY DEF NamesOf, ReportOf
<1>2. list # <<>>
  BY <1>1
<1>3. /\ groups[m].from \in Sources /\ groups[m].read \in Moments
      /\ list = GroupsOf(agy.quota[groups[m].read], groups[m].from)
      /\ groups[m].at \in Int /\ groups[m].read + Slack(groups[m].from) + PushDelay >= groups[m].at
  BY <1>2 DEF ReadInv, AsRead
<1> DEFINE q == agy.quota[groups[m].read]
           from == groups[m].from
<1> HIDE DEF n, list
<1>4. list = GroupsOf(q, from) /\ n \in DOMAIN GroupsOf(q, from)
  BY <1>1, <1>3
<1> HIDE DEF q, from
<1>5. PICK g \in Range(Group) :
        /\ GroupsOf(q, from)[n] = ReportIn(q, from, g)
        /\ ReportIn(q, from, g).five # NoWindow \/ ReportIn(q, from, g).week # NoWindow
  BY <1>4, GroupsOfAnswer
<1>6. g = name
  BY <1>1, <1>4, <1>5 DEF ReportIn
<1>7. QED
  BY <1>1, <1>3, <1>4, <1>5, <1>6 DEF q, from

LEMMA ShownInit == Init => ShownInv
<1> SUFFICES ASSUME Init
             PROVE  ShownInv
  OBVIOUS
<1>1. gemini.shown = <<>> /\ gemini.items = <<>>
  BY DEF Init, GroupsInit
<1>2. DOMAIN gemini.shown = {} /\ DOMAIN gemini.shown = 1..0 /\ DOMAIN gemini.items = {}
  BY <1>1
<1>3. Stated(gemini.items) = {}
  BY <1>2 DEF Stated, Quotas
<1>4. gemini.items \in Seq(Range(gemini.items))
  BY <1>1
<1>5. gemini.at \in Moments
  BY ClockConstants DEF Init, GroupsInit, Moments
<1>6. QED
  BY <1>2, <1>3, <1>4, <1>5 DEF ShownInv, Shows

\* A collect shows what the machines it chose report.
LEMMA CollectShows ==
  ASSUME ReadInv, CollectGroups
  PROVE  ShownInv'
<1> DEFINE latest == {n \in DOMAIN Group : Latest(Group[n]) # {}}
           names == Picked(Group, latest)
<1> DEFINE snapshotOf(from) ==
             [status |-> "ok", at |-> now,
              items |-> TotalItems \o QuotaItems([n \in DOMAIN names |-> ReportOf(from[n], names[n])]),
              shown |-> [n \in DOMAIN names |-> [name |-> names[n], read |-> groups[from[n]].read,
                                                 from |-> groups[from[n]].from]]]
<1>1. PICK from \in [DOMAIN names -> agy.machines] :
        /\ \A n \in DOMAIN names : from[n] \in Latest(names[n])
        /\ gemini' = snapshotOf(from) /\ agy' = agy
  BY Zenon DEF CollectGroups
<1>2. Len(Group) \in Nat /\ DOMAIN Group = 1..Len(Group) /\ IsInjective(Group)
  BY GroupConstants
<1>3. latest \in SUBSET (1..Len(Group)) /\ latest \in SUBSET Nat /\ latest \subseteq DOMAIN Group
  BY <1>2
<1> HIDE DEF latest
<1>4. IsFiniteSet(latest)
  BY <1>2, <1>3, Within
<1> DEFINE l == Cardinality(latest)
<1>5. l \in Nat /\ DOMAIN names = 1..l
  BY <1>3, <1>4, PickedRange
<1>6. \A n, k \in DOMAIN names : names[n] = names[k] => n = k
  <2>1. \A k, i \in latest : Group[k] = Group[i] => k = i
    BY <1>2, <1>3 DEF IsInjective
  <2>2. \A n, k \in 1..l : names[n] = names[k] => n = k
    BY <1>3, <1>4, <2>1, PickedDistinct
  <2>3. QED
    BY <1>5, <2>2
<1> HIDE DEF names, l
<1> DEFINE reports == [n \in DOMAIN names |-> ReportOf(from[n], names[n])]
           quotas == QuotaItems(reports)
           snapshot == snapshotOf(from)
<1>7. ASSUME NEW n \in DOMAIN names
      PROVE  from[n] \in agy.machines /\ names[n] \in NamesOf(from[n])
               /\ now - groups[from[n]].at <= GroupStale
  BY <1>1 DEF Latest, Fresh
<1>8. reports \in Seq(Range(reports))
  <2>1. \A n \in DOMAIN reports : reports[n] \in Range(reports)
    BY DEF Range
  <2>2. DOMAIN reports = 1..l
    BY <1>5
  <2>3. reports = [n \in 1..l |-> reports[n]]
    BY <2>2
  <2> HIDE DEF reports
  <2>4. QED
    BY <1>5, <2>1, <2>2, <2>3
<1>9. /\ quotas \in Seq(Range(quotas))
      /\ \A i : i \in Range(quotas) <=> \E n \in DOMAIN names : IsItemOf(i, reports[n], now)
  <2>1. DOMAIN reports = DOMAIN names
    OBVIOUS
  <2> HIDE DEF reports
  <2>2. QED
    BY <1>8, <2>1, ItemsOfReports
<1>10. snapshot.items = TotalItems \o quotas /\ snapshot.at = now
  OBVIOUS
<1>11. /\ DOMAIN snapshot.shown = DOMAIN names
       /\ \A n \in DOMAIN names :
            snapshot.shown[n] = [name |-> names[n], read |-> groups[from[n]].read,
                                 from |-> groups[from[n]].from]
  OBVIOUS
<1> HIDE DEF quotas, snapshot
<1>12. /\ TotalItems \o quotas \in Seq(Range(TotalItems \o quotas))
       /\ Range(TotalItems \o quotas) = Range(TotalItems) \cup Range(quotas)
  BY <1>9, TotalsAreNoQuota, ConcatElements
<1>13. \A i \in Range(quotas) : IsQuota(i)
  BY <1>9 DEF IsItemOf, QuotaItem, IsQuota
<1>14. Stated(snapshot.items) = Range(quotas)
  BY <1>10, <1>12, <1>13, TotalsAreNoQuota, StatedElements
<1>15. ASSUME NEW n \in DOMAIN names
       PROVE  LET s == snapshot.shown[n]
                  read == ReadOf(s, agy.quota)
              IN  /\ s.name = names[n]
                  /\ s.name \in Range(Group) /\ s.from \in Sources /\ s.read \in Moments
                  /\ reports[n] = read /\ (read.five # NoWindow \/ read.week # NoWindow)
                  /\ s.read + Slack(s.from) + PushDelay + GroupStale >= now
  <2> DEFINE m == from[n]
             g == groups[m]
  <2>1. /\ names[n] \in Range(Group) /\ g.from \in Sources /\ g.read \in Moments
        /\ ReportOf(m, names[n]) = ReportIn(agy.quota[g.read], g.from, names[n])
        /\ ReportOf(m, names[n]).five # NoWindow \/ ReportOf(m, names[n]).week # NoWindow
        /\ g.at \in Int /\ g.read + Slack(g.from) + PushDelay >= g.at
    BY <1>7, ReportAsRead
  <2>2. now - g.at <= GroupStale
    BY <1>7
  <2>3. g.read + Slack(g.from) + PushDelay + GroupStale >= now
    <3>1. Slack(g.from) \in Nat /\ g.read \in Int /\ now \in Int /\ PushDelay \in Nat /\ GroupStale \in Nat
      BY <2>1, GroupConstants, ClockConstants DEF ReadInv, Moments, Slack
    <3> HIDE DEF g
    <3>2. QED
      BY <2>1, <2>2, <3>1
  <2>4. reports[n] = ReportOf(m, names[n])
    OBVIOUS
  <2>5. snapshot.shown[n] = [name |-> names[n], read |-> g.read, from |-> g.from]
    BY <1>11
  <2> HIDE DEF m, g, reports
  <2>6. QED
    BY <2>1, <2>3, <2>4, <2>5 DEF ReadOf
<1> HIDE DEF reports
<1>16. Shows(snapshot, agy.quota)
  <2>1. snapshot.items \in Seq(Range(snapshot.items))
    BY <1>10, <1>12
  <2>2. \A i : i \in Stated(snapshot.items) <=>
                 \E n \in DOMAIN names : IsItemOf(i, ReadOf(snapshot.shown[n], agy.quota), snapshot.at)
    BY <1>9, <1>10, <1>14, <1>15
  <2>3. \A n, k \in DOMAIN names : snapshot.shown[n].name = snapshot.shown[k].name => n = k
    BY <1>6, <1>15
  <2>4. now \in Moments
    BY DEF ReadInv
  <2>5. QED
    BY <1>5, <1>10, <1>11, <1>15, <2>1, <2>2, <2>3, <2>4 DEF Shows
<1>17. gemini' = snapshot
  BY <1>1 DEF snapshot
<1>18. QED
  BY <1>1, <1>16, <1>17 DEF ShownInv

LEMMA ShownStep ==
  ASSUME ReadInv, ShownInv, [Next]_vars
  PROVE  ShownInv'
<1>1. CASE UNCHANGED <<agy, gemini>>
  BY <1>1 DEF ShownInv
<1>2. UNCHANGED <<agy, gemini>> \/ CollectGroups
  BY AgyStays, Zenon DEF Next, Time, CPA, Antigravity, FetchGroups, ReadStats, Push, Lose, SaveTotals,
     ReplaceGroups, UseTokens, vars, agyVars
<1>3. QED
  BY <1>1, <1>2, CollectShows

\* A bucket keeps the reset of its window; only the Switch leaves one out, and only a static
\* answer says something else of what is left.
LEMMA BucketTypes ==
  ASSUME NEW b \in Window \cup {NoWindow}, NEW from \in Sources
  PROVE  LET c == BucketOf(from, b)
         IN  /\ c # NoWindow => /\ b # NoWindow /\ c.left \in 0..100 /\ c.reset \in Int
                                /\ c.reset = b.reset
                                /\ c.left = IF from = "static" THEN 100 ELSE Bucket(b).left
             /\ from = "cloud" /\ b # NoWindow => c # NoWindow
<1>1. CASE b = NoWindow
  BY <1>1 DEF BucketOf, Bucket, StaticBucket, SwitchBucket
<1>2. CASE b # NoWindow /\ b.left # Unstated /\ from # "static"
  <2>1. b.left \in 0..100 /\ b.reset \in Int
    BY <1>2 DEF Window
  <2>2. BucketOf(from, b) = b /\ Bucket(b) = b
    BY <1>2 DEF BucketOf, Bucket, SwitchBucket
  <2>3. QED
    BY <1>2, <2>1, <2>2
<1>3. CASE b # NoWindow /\ from = "static"
  <2> DEFINE full == [b EXCEPT !.left = 100]
  <2>1. b \in Window
    BY <1>3
  <2>2. full.left = 100 /\ full.reset = b.reset /\ b.reset \in Int
    BY <2>1 DEF Window
  <2>3. StaticBucket(b) = full
    BY <1>3 DEF StaticBucket
  <2> HIDE DEF full
  <2>4. QED
    BY <1>3, <2>2, <2>3 DEF BucketOf
<1>4. CASE b # NoWindow /\ b.left = Unstated /\ from # "static"
  <2> DEFINE spent == [b EXCEPT !.left = 0]
  <2>1. b \in Window
    BY <1>4
  <2>2. spent.left = 0 /\ spent.reset = b.reset /\ b.reset \in Int /\ spent \in Window
    BY <2>1 DEF Window
  <2>3. spent # NoWindow
    BY <2>2, WindowConstants
  <2>4. Bucket(b) = spent /\ SwitchBucket(b) = NoWindow
    BY <1>4 DEF Bucket, SwitchBucket
  <2> HIDE DEF spent
  <2>5. QED
    BY <1>4, <2>2, <2>3, <2>4 DEF BucketOf
<1>5. QED
  BY <1>1, <1>2, <1>3, <1>4

\* What upstream said of the windows of a group that is shown.
Truth(s) == agy.quota[s.read][s.name]

LEMMA ReadTypes ==
  ASSUME ReadInv, ShownInv, NEW n \in DOMAIN gemini.shown
  PROVE  LET s == gemini.shown[n]
             read == ReadOf(s, agy.quota)
         IN  /\ Truth(s).five \in Window \cup {NoWindow} /\ read.five = BucketOf(s.from, Truth(s).five)
             /\ Truth(s).week \in Window \cup {NoWindow} /\ read.week = BucketOf(s.from, Truth(s).week)
             /\ s.from \in Sources /\ read.name = s.name
<1> DEFINE s == gemini.shown[n]
<1>1. s.name \in Range(Group) /\ s.from \in Sources /\ s.read \in Moments
  BY DEF ShownInv, Shows
<1>2. Truth(s).five \in Window \cup {NoWindow} /\ Truth(s).week \in Window \cup {NoWindow}
  BY <1>1, SetupConstants DEF ReadInv, Truth
<1>3. QED
  BY <1>1, <1>2 DEF ReadOf, ReportIn, Truth

\* The quota items of a group that is shown.
LEMMA StatedOfGroup ==
  ASSUME ReadInv, ShownInv, NEW n \in DOMAIN gemini.shown
  PROVE  LET s == gemini.shown[n]
             read == ReadOf(s, agy.quota)
         IN  /\ \A i \in Stated(gemini.items) : AccountKey(i) = i.name
             /\ \A i \in Stated(gemini.items) : i.name = s.name => IsItemOf(i, read, gemini.at)
             /\ \A i : IsItemOf(i, read, gemini.at) => i \in Stated(gemini.items) /\ i.name = s.name
<1> DEFINE item(k, i) == IsItemOf(i, ReadOf(gemini.shown[k], agy.quota), gemini.at)
<1>1. \A i : i \in Stated(gemini.items) <=> \E k \in DOMAIN gemini.shown : item(k, i)
  BY DEF ShownInv, Shows
<1>2. ASSUME NEW k \in DOMAIN gemini.shown, NEW i, item(k, i)
      PROVE  AccountKey(i) = i.name /\ i.name = gemini.shown[k].name
  BY <1>2, ReadTypes DEF IsItemOf, QuotaItem, AccountKey
<1>3. \A k \in DOMAIN gemini.shown : gemini.shown[k].name = gemini.shown[n].name => k = n
  BY DEF ShownInv, Shows
<1> HIDE DEF item
<1>4. ASSUME NEW i \in Stated(gemini.items)
      PROVE  AccountKey(i) = i.name /\ (i.name = gemini.shown[n].name => item(n, i))
  BY <1>1, <1>2, <1>3
<1>5. \A i : item(n, i) => i \in Stated(gemini.items) /\ i.name = gemini.shown[n].name
  BY <1>1, <1>2
<1>6. QED
  BY <1>4, <1>5 DEF item

\* A cell of a group says what its window is at the collect.
LEMMA CellOfGroup ==
  ASSUME ReadInv, ShownInv, NEW n \in DOMAIN gemini.shown
  PROVE  LET s == gemini.shown[n]
             read == ReadOf(s, agy.quota)
         IN  /\ Cell(gemini.items, s.name, "5H") =
                  IF read.five = NoWindow THEN Missing ELSE LeftAt(read.five, gemini.at)
             /\ Cell(gemini.items, s.name, "Week") =
                  IF read.week = NoWindow THEN Missing ELSE LeftAt(read.week, gemini.at)
<1> DEFINE s == gemini.shown[n]
           read == ReadOf(s, agy.quota)
           items == gemini.items
<1>1. items \in Seq(Range(items))
  BY DEF ShownInv, Shows
<1>2. /\ \A i \in Stated(items) : AccountKey(i) = i.name
      /\ \A i \in Stated(items) : i.name = s.name => IsItemOf(i, read, gemini.at)
      /\ \A i : IsItemOf(i, read, gemini.at) => i \in Stated(items) /\ i.name = s.name
  BY StatedOfGroup
<1> DEFINE five == QuotaItem(read.name, "5H", LeftAt(read.five, gemini.at))
           week == QuotaItem(read.name, "Week", LeftAt(read.week, gemini.at))
<1>3. /\ five.window = "5H" /\ five.left = LeftAt(read.five, gemini.at)
      /\ week.window = "Week" /\ week.left = LeftAt(read.week, gemini.at)
  BY DEF QuotaItem
<1>4. \A i : IsItemOf(i, read, gemini.at) <=>
               (read.five # NoWindow /\ i = five) \/ (read.week # NoWindow /\ i = week)
  BY DEF IsItemOf
<1> HIDE DEF five, week, items, read, s
<1>5. \/ /\ Cell(items, s.name, "5H") = Missing
         /\ \A i \in Stated(items) : ~(AccountKey(i) = s.name /\ i.window = "5H")
      \/ \E i \in Stated(items) :
           AccountKey(i) = s.name /\ i.window = "5H" /\ Cell(items, s.name, "5H") = i.left
  BY <1>1, CellStated
<1>6. \/ /\ Cell(items, s.name, "Week") = Missing
         /\ \A i \in Stated(items) : ~(AccountKey(i) = s.name /\ i.window = "Week")
      \/ \E i \in Stated(items) :
           AccountKey(i) = s.name /\ i.window = "Week" /\ Cell(items, s.name, "Week") = i.left
  BY <1>1, CellStated
<1>7. Cell(items, s.name, "5H") = IF read.five = NoWindow THEN Missing ELSE LeftAt(read.five, gemini.at)
  BY <1>2, <1>3, <1>4, <1>5
<1>8. Cell(items, s.name, "Week") = IF read.week = NoWindow THEN Missing ELSE LeftAt(read.week, gemini.at)
  BY <1>2, <1>3, <1>4, <1>6
<1>9. QED
  BY <1>7, <1>8 DEF items, read, s

\* Marking a group without a 5H limit leaves the account and the week of its row.
LEMMA Marked ==
  ASSUME NEW items, NEW i, NEW five, NEW week, RowOf(items, i).five = five, RowOf(items, i).week = week
  PROVE  LET row == RowOf(items, i)
             marked == IF row.five = Missing /\ row.week # Missing
                       THEN [row EXCEPT !.five = NoFiveHour] ELSE row
         IN  /\ row.account = i.name /\ marked.account = i.name /\ marked.week = week
             /\ marked.five = IF five = Missing /\ week # Missing THEN NoFiveHour ELSE five
BY DEF RowOf, Row

\* The row of a group on the panel.
LEMMA RowOfGroup ==
  ASSUME ReadInv, ShownInv, NEW n \in DOMAIN gemini.shown
  PROVE  LET s == gemini.shown[n]
             read == ReadOf(s, agy.quota)
             row == RowFor(GeminiRows, s)
         IN  /\ row.week = IF read.week = NoWindow THEN Missing ELSE LeftAt(read.week, gemini.at)
             /\ row.five = IF read.five = NoWindow THEN NoFiveHour ELSE LeftAt(read.five, gemini.at)
<1> DEFINE s == gemini.shown[n]
           read == ReadOf(s, agy.quota)
           items == gemini.items
           rowsOf == QuotaRows(items)
           five == IF read.five = NoWindow THEN Missing ELSE LeftAt(read.five, gemini.at)
           week == IF read.week = NoWindow THEN Missing ELSE LeftAt(read.week, gemini.at)
           marked(k) == IF rowsOf[k].five = Missing /\ rowsOf[k].week # Missing
                        THEN [rowsOf[k] EXCEPT !.five = NoFiveHour] ELSE rowsOf[k]
<1>1. items \in Seq(Range(items)) /\ (read.five # NoWindow \/ read.week # NoWindow)
  BY DEF ShownInv, Shows
<1>2. /\ \A i \in Stated(items) : AccountKey(i) = i.name
      /\ \A i : IsItemOf(i, read, gemini.at) => i \in Stated(items) /\ i.name = s.name
  BY StatedOfGroup
<1>3. Cell(items, s.name, "5H") = five /\ Cell(items, s.name, "Week") = week
  BY CellOfGroup
<1>4. \E i : IsItemOf(i, read, gemini.at)
  BY <1>1 DEF IsItemOf
<1>5. /\ (read.five # NoWindow => LeftAt(read.five, gemini.at) # Missing)
      /\ (read.week # NoWindow => LeftAt(read.week, gemini.at) # Missing)
  <2>1. /\ (read.five # NoWindow => read.five.left \in 0..100)
        /\ (read.week # NoWindow => read.week.left \in 0..100)
    BY ReadTypes, BucketTypes
  <2> HIDE DEF read
  <2>2. QED
    BY <2>1, CellConstants DEF LeftAt
<1> HIDE DEF items, read, s
<1>6. PICK l \in Nat : DOMAIN rowsOf = 1..l
  BY <1>1, RowsShown
<1>7. \A k \in DOMAIN rowsOf : \E i \in Stated(items) : rowsOf[k] = RowOf(items, i)
  <2>1. \A row \in Range(rowsOf) : \E i \in Stated(items) : row = RowOf(items, i)
    BY <1>1, RowsShown
  <2> HIDE DEF rowsOf
  <2>2. QED
    BY <2>1 DEF Range
<1>8. \E k \in DOMAIN rowsOf : rowsOf[k].account = s.name
  <2>1. PICK i \in Stated(items) : i.name = s.name
    BY <1>2, <1>4
  <2>2. PICK j \in Stated(items) : AccountKey(j) = AccountKey(i) /\ RowOf(items, j) \in Range(rowsOf)
    BY <1>1, RowsShown
  <2>3. RowOf(items, j).account = s.name
    BY <1>2, <2>1, <2>2 DEF RowOf, Row
  <2> HIDE DEF rowsOf
  <2>4. QED
    BY <2>2, <2>3 DEF Range
<1>9. ASSUME NEW k \in DOMAIN rowsOf, rowsOf[k].account = s.name
      PROVE  marked(k).week = week /\
             marked(k).five = IF five = Missing /\ week # Missing THEN NoFiveHour ELSE five
  <2>1. PICK i \in Stated(items) : rowsOf[k] = RowOf(items, i)
    BY <1>7
  <2>2. i.name = s.name /\ AccountKey(i) = s.name
    BY <1>2, <1>9, <2>1 DEF RowOf, Row
  <2>3. RowOf(items, i).five = five /\ RowOf(items, i).week = week
    BY <1>3, <2>2 DEF RowOf, Row
  <2> HIDE DEF five, week, rowsOf
  <2>4. QED
    BY <2>1, <2>3, Marked
<1>10. GeminiRows = [k \in DOMAIN rowsOf |-> marked(k)]
  <2>1. rowsOf # <<>>
    BY <1>8
  <2>2. QED
    BY <2>1 DEF GeminiRows, MarkMissingFiveHour, TrioRows, items
<1>11. ASSUME NEW k \in DOMAIN rowsOf
       PROVE  marked(k).account = rowsOf[k].account
  <2>1. PICK i \in Stated(items) : rowsOf[k] = RowOf(items, i)
    BY <1>7
  <2> HIDE DEF rowsOf
  <2>2. QED
    BY <2>1, Marked
<1> DEFINE c == CHOOSE k \in DOMAIN rowsOf : GeminiRows[k].account = s.name
<1>12. c \in DOMAIN rowsOf /\ rowsOf[c].account = s.name
  <2>1. \E k \in DOMAIN rowsOf : GeminiRows[k].account = s.name
    <3> HIDE DEF rowsOf, marked
    <3>1. QED
      BY <1>8, <1>10, <1>11
  <2>2. c \in DOMAIN rowsOf /\ GeminiRows[c].account = s.name
    BY <2>1
  <2> HIDE DEF rowsOf, marked, c
  <2>3. QED
    BY <1>10, <1>11, <2>2
<1>13. RowFor(GeminiRows, s) = marked(c)
  <2>1. DOMAIN GeminiRows = DOMAIN rowsOf
    <3> HIDE DEF rowsOf, marked
    <3>1. QED
      BY <1>10
  <2>2. RowFor(GeminiRows, s) = GeminiRows[c]
    BY <2>1 DEF RowFor
  <2> HIDE DEF rowsOf, marked, c
  <2>3. QED
    BY <1>10, <1>12, <2>2
<1>14. marked(c).week = week /\
       marked(c).five = IF five = Missing /\ week # Missing THEN NoFiveHour ELSE five
  <2> HIDE DEF c, marked, rowsOf, five, week
  <2>1. QED
    BY <1>9, <1>12
<1>15. RowFor(GeminiRows, s).week = week /\ RowFor(GeminiRows, s).five = IF five = Missing /\ week # Missing THEN NoFiveHour ELSE five
  <2> HIDE DEF c, marked, rowsOf, five, week
  <2>1. QED
    BY <1>13, <1>14
<1> HIDE DEF c, marked, rowsOf
<1>16. QED
  BY <1>1, <1>5, <1>15 DEF s, read

LEMMA SpentShown == ReadInv /\ ShownInv => SpentIsNotUnlimited
<1> SUFFICES ASSUME ReadInv, ShownInv, NEW n \in DOMAIN gemini.shown,
                    gemini.shown[n].from = "cloud",
                    RowFor(GeminiRows, gemini.shown[n]).five = NoFiveHour
             PROVE  Truth(gemini.shown[n]).five = NoWindow
  BY DEF SpentIsNotUnlimited, Truth
<1> DEFINE s == gemini.shown[n]
           read == ReadOf(s, agy.quota)
<1>1. RowFor(GeminiRows, s).five = IF read.five = NoWindow THEN NoFiveHour ELSE LeftAt(read.five, gemini.at)
  BY RowOfGroup
<1>2. Truth(s).five \in Window \cup {NoWindow} /\ read.five = BucketOf("cloud", Truth(s).five)
  BY ReadTypes
<1> HIDE DEF read, s
<1>0. "cloud" \in Sources
  BY DEF Sources
<1>3. read.five # NoWindow => read.five.left \in 0..100
  BY <1>0, <1>2, BucketTypes
<1>4. read.five # NoWindow => LeftAt(read.five, gemini.at) # NoFiveHour
  BY <1>3, CellConstants DEF LeftAt
<1>5. read.five = NoWindow
  BY <1>1, <1>4 DEF s
<1>6. QED
  BY <1>0, <1>2, <1>5, BucketTypes DEF s

LEMMA CellsAsRead == ReadInv /\ ShownInv => ShownAsRead
<1> SUFFICES ASSUME ReadInv, ShownInv, NEW n \in DOMAIN gemini.shown
             PROVE  LET s     == gemini.shown[n]
                        truth == agy.quota[s.read][s.name].week
                        week  == RowFor(GeminiRows, s).week
                        old   == GroupStale + PushDelay + (IF s.from = "switch" THEN SwitchMaxAge ELSE 0)
                    IN  /\ s.from # "undated" => s.read + old >= gemini.at
                        /\ truth # NoWindow /\ week # Missing =>
                             week = IF s.from = "static" \/ truth.reset <= gemini.at THEN 100
                                    ELSE Bucket(truth).left
  BY Zenon DEF ShownAsRead
<1> DEFINE s == gemini.shown[n]
           read == ReadOf(s, agy.quota)
           truth == Truth(s).week
<1>1. s.read + Slack(s.from) + PushDelay + GroupStale >= gemini.at /\ s.read \in Moments
  BY DEF ShownInv, Shows
<1>2. Slack(s.from) \in Nat /\ PushDelay \in Nat /\ GroupStale \in Nat /\ s.read \in Int
  BY <1>1, GroupConstants, ClockConstants DEF Slack, Moments
<1>3. gemini.at \in Int
  BY ClockConstants DEF Moments, ShownInv, Shows
<1>4. RowFor(GeminiRows, s).week = IF read.week = NoWindow THEN Missing ELSE LeftAt(read.week, gemini.at)
  BY RowOfGroup
<1>5. truth \in Window \cup {NoWindow} /\ read.week = BucketOf(s.from, truth) /\ s.from \in Sources
  BY ReadTypes
<1> HIDE DEF read, s, truth
<1>6. read.week # NoWindow => /\ read.week.reset = truth.reset
                               /\ read.week.left = IF s.from = "static" THEN 100 ELSE Bucket(truth).left
  BY <1>5, BucketTypes
<1>7. s.read + Slack(s.from) + PushDelay + GroupStale >= gemini.at
  BY <1>1 DEF s
<1>8. RowFor(GeminiRows, s).week # Missing =>
        RowFor(GeminiRows, s).week = IF s.from = "static" \/ truth.reset <= gemini.at THEN 100
                                     ELSE Bucket(truth).left
  BY <1>4, <1>6 DEF LeftAt
<1>9. s.read + (GroupStale + PushDelay + Slack(s.from)) >= gemini.at
  BY <1>2, <1>3, <1>7
<1>10. s.from # "undated" => Slack(s.from) = IF s.from = "switch" THEN SwitchMaxAge ELSE 0
  BY DEF Slack
<1>11. QED
  BY <1>8, <1>9, <1>10, Zenon DEF s, truth, Truth

\* Whatever is read, pushed and collected, the three invariants hold.
LEMMA GroupsInvHolds == Spec => []ReadInv /\ []ShownInv
<1>1. Init => PushInv /\ ReadInv /\ ShownInv
  BY PushInit, ReadInit, ShownInit
<1>2. PushInv /\ ReadInv /\ ShownInv /\ [Next]_vars => (PushInv /\ ReadInv /\ ShownInv)'
  BY PushStep, ReadStep, ShownStep
<1>3. QED
  BY <1>1, <1>2, PTL DEF Spec

\* No group Cloud Code was asked for is shown without a 5H limit unless upstream has none,
\* whatever machines report it and however late (Collect, markMissingFiveHour).
THEOREM SpentIsShown == Spec => []SpentIsNotUnlimited
BY GroupsInvHolds, SpentShown, PTL

\* What a cell says is what upstream said at most GroupStale, and the delays of a push and
\* of the Switch, before, unless the window started anew since, the answer was a static one
\* of the prod host, or of Switch without a date (AntigravityCollector.Collect).
THEOREM CellsShownAsRead == Spec => []ShownAsRead
BY GroupsInvHolds, CellsAsRead, PTL

---------------------------------------------------------------------------
(* The collects of CPA: their types, and who holds the lock.               *)

\* A collect goes on to d.
Goes(r, d) == drain' = [drain EXCEPT ![r] = d] /\ DOMAIN d = DOMAIN NoDrain

\* What d has of the collect c before.
SameHands(d, c)  == d.left = c.left /\ d.batch = c.batch /\ d.drainErr = c.drainErr
SameCollect(d, c) == d.at = c.at /\ d.made = c.made

\* What a collect gets of the cache, while it drains the queue, and when it ends.
Asks(r, d) ==
  /\ SameHands(d, drain[r]) /\ SameCollect(d, drain[r])
  /\ \/ Throttled(r) /\ d.step = "pop" /\ d.quota = quota'.items
     \/ Refresh(r) /\ d.step = "select" /\ d.quota = drain[r].quota
     \/ Select(r) /\ d.step = "fetch" /\ d.quota = drain[r].quota
     \/ RefreshFails(r) /\ d.step = "pop" /\ d.quota = quota'.items
     \/ Refreshed(r) /\ d.step = "pop" /\ d.quota = quota'.items

Drains(r, d) ==
  /\ SameCollect(d, drain[r]) /\ d.quota = drain[r].quota
  /\ \/ /\ Pop(r) /\ d.drainErr = drain[r].drainErr
        /\ d.batch = {e \in Range(Batch(queue)) : Converts(e, drain[r].account)}
        /\ d.left = IF Len(queue) < BatchSize THEN 0 ELSE drain[r].left - 1
        /\ d.step = AfterPop(d.batch, d.left)
     \/ PopFails(r) /\ d.step = "list" /\ d.drainErr /\ d.left = drain[r].left /\ d.batch = drain[r].batch
     \/ /\ Save(r) /\ d.drainErr = drain[r].drainErr /\ d.left = drain[r].left /\ d.batch = {}
        /\ d.step = IF drain[r].left = 0 THEN "list" ELSE "pop"
     \/ SaveFails(r) /\ d.step = "list" /\ d.drainErr /\ d.left = drain[r].left /\ d.batch = {}

Ends(r, d) == (List(r) \/ ListFails(r)) /\ d = NoDrain

Begun(r, d) ==
  /\ Start(r) /\ d.step = "quota" /\ d.at = now /\ d.made = made /\ d.left = MaxBatches
  /\ d.batch = {} /\ d.quota = <<>> /\ d.drainErr = FALSE

\* One step of a collect, as what it leaves of it.
LEMMA CollectGoes ==
  ASSUME Accounts, NEW r \in Run, CPACollect(r)
  PROVE  \E d : Goes(r, d) /\ (Begun(r, d) \/ Asks(r, d) \/ Drains(r, d) \/ Ends(r, d))
<1> USE DEF Goes, SameHands, SameCollect
<1> DEFINE c == drain[r]
<1>0. DOMAIN c = DOMAIN NoDrain /\ DOMAIN quota = DOMAIN NoCache
  BY DEF Accounts
<1>1. ASSUME Start(r)
      PROVE  \E d : Goes(r, d) /\ Begun(r, d)
  <2> DEFINE d == [NoDrain EXCEPT !.step = "quota", !.at = now, !.left = MaxBatches, !.made = made]
  <2>1. Goes(r, d)
    BY <1>1 DEF Start, NoDrain
  <2>2. Begun(r, d)
    BY <1>1 DEF Begun, NoDrain
  <2>3. QED
    BY <2>1, <2>2
<1>2. ASSUME NEW account, NEW items, NEW err, NEW blind, Quota(r, account, items, err, blind)
      PROVE  \E d : Goes(r, d) /\ SameHands(d, c) /\ SameCollect(d, c) /\ d.step = "pop" /\ d.quota = items
  <2> DEFINE d == [c EXCEPT !.step = "pop", !.account = account, !.quota = items,
                            !.quotaErr = err, !.blind = blind]
  <2>1. Goes(r, d)
    BY <1>0, <1>2 DEF Quota, NoDrain
  <2>2. SameHands(d, c) /\ SameCollect(d, c) /\ d.step = "pop" /\ d.quota = items
    BY <1>0 DEF NoDrain
  <2>3. QED
    BY <2>1, <2>2
<1>3. ASSUME Throttled(r) \/ RefreshFails(r) \/ Refreshed(r)
      PROVE  \E d : Goes(r, d) /\ Asks(r, d)
  <2>1. \E account, err, blind : Quota(r, account, quota'.items, err, blind)
    <3>1. CASE Throttled(r)
      BY <3>1, Zenon DEF Throttled
    <3>2. CASE RefreshFails(r)
      <4>1. quota'.items = quota.items
        BY <1>0, <3>2 DEF RefreshFails, Kept, NoCache
      <4>2. \E account, err, blind : Quota(r, account, quota.items, err, blind)
        BY <3>2, Zenon DEF RefreshFails, Kept
      <4>3. QED
        BY <4>1, <4>2
    <3>3. CASE Refreshed(r)
      <4>1. PICK items :
              /\ quota' = [quota EXCEPT !.err = FALSE, !.items = items, !.account = drain[r].account]
              /\ Quota(r, drain[r].account, items, FALSE, FALSE)
        BY <3>3, Zenon DEF Refreshed
      <4>2. quota'.items = items
        BY <1>0, <4>1 DEF NoCache
      <4>3. QED
        BY <4>1, <4>2
    <3>4. QED
      BY <1>3, <3>1, <3>2, <3>3
  <2>2. PICK account, err, blind : Quota(r, account, quota'.items, err, blind)
    BY <2>1
  <2>3. PICK d : Goes(r, d) /\ SameHands(d, c) /\ SameCollect(d, c) /\ d.step = "pop" /\ d.quota = quota'.items
    <3> DEFINE items == quota'.items
    <3>1. Quota(r, account, items, err, blind)
      BY <2>2
    <3> HIDE DEF items
    <3>2. \E d : Goes(r, d) /\ SameHands(d, c) /\ SameCollect(d, c) /\ d.step = "pop" /\ d.quota = items
      BY <1>2, <3>1, Zenon
    <3>3. QED
      BY <3>2 DEF items
  <2>4. Asks(r, d)
    BY <1>3, <2>3 DEF Asks
  <2>5. QED
    BY <2>3, <2>4
<1>4. ASSUME Refresh(r)
      PROVE  \E d : Goes(r, d) /\ Asks(r, d)
  <2> DEFINE d == [c EXCEPT !.step = "select"]
  <2>1. Goes(r, d)
    BY <1>0, <1>4 DEF Refresh, NoDrain
  <2>2. SameHands(d, c) /\ SameCollect(d, c) /\ d.step = "select" /\ d.quota = c.quota
    BY <1>0 DEF NoDrain
  <2>3. Asks(r, d)
    BY <1>4, <2>2 DEF Asks
  <2>4. QED
    BY <2>1, <2>3
<1>5. ASSUME Select(r)
      PROVE  \E d : Goes(r, d) /\ Asks(r, d)
  <2>1. PICK n : drain' = [drain EXCEPT ![r].step = "fetch", ![r].account = Auth[n]]
    BY <1>5 DEF Select
  <2> DEFINE d == [c EXCEPT !.step = "fetch", !.account = Auth[n]]
  <2>2. Goes(r, d)
    BY <1>0, <2>1 DEF NoDrain
  <2>3. SameHands(d, c) /\ SameCollect(d, c) /\ d.step = "fetch" /\ d.quota = c.quota
    BY <1>0 DEF NoDrain
  <2>4. Asks(r, d)
    BY <1>5, <2>3 DEF Asks
  <2>5. QED
    BY <2>2, <2>4
<1>6. ASSUME Pop(r)
      PROVE  \E d : Goes(r, d) /\ Drains(r, d)
  <2> DEFINE kept == {e \in Range(Batch(queue)) : Converts(e, drain[r].account)}
             left == IF Len(queue) < BatchSize THEN 0 ELSE drain[r].left - 1
             d == [c EXCEPT !.step = AfterPop(kept, left), !.batch = kept, !.left = left]
  <2>0. drain' = [drain EXCEPT ![r].step = AfterPop(kept, left), ![r].batch = kept, ![r].left = left]
    BY <1>6, Zenon DEF Pop
  <2> HIDE DEF kept, left
  <2>1. Goes(r, d)
    BY <1>0, <2>0 DEF NoDrain
  <2>2. SameCollect(d, c) /\ d.step = AfterPop(kept, left) /\ d.batch = kept /\ d.left = left
          /\ d.quota = c.quota /\ d.drainErr = c.drainErr
    BY <1>0 DEF NoDrain
  <2> HIDE DEF d
  <2>3. Drains(r, d)
    BY <1>6, <2>2 DEF Drains, kept, left
  <2>4. QED
    BY <2>1, <2>3
<1>7. ASSUME PopFails(r)
      PROVE  \E d : Goes(r, d) /\ Drains(r, d)
  <2> DEFINE d == [c EXCEPT !.step = "list", !.drainErr = TRUE]
  <2>1. Goes(r, d)
    BY <1>0, <1>7 DEF PopFails, NoDrain
  <2>2. SameCollect(d, c) /\ d.step = "list" /\ d.batch = c.batch /\ d.left = c.left
          /\ d.quota = c.quota /\ d.drainErr
    BY <1>0 DEF NoDrain
  <2>3. Drains(r, d)
    BY <1>7, <2>2 DEF Drains
  <2>4. QED
    BY <2>1, <2>3
<1>8. ASSUME Save(r)
      PROVE  \E d : Goes(r, d) /\ Drains(r, d)
  <2> DEFINE d == [c EXCEPT !.step = IF c.left = 0 THEN "list" ELSE "pop", !.batch = {}]
  <2>1. Goes(r, d)
    BY <1>0, <1>8 DEF Save, NoDrain
  <2>2. SameCollect(d, c) /\ d.step = (IF c.left = 0 THEN "list" ELSE "pop") /\ d.batch = {}
          /\ d.left = c.left /\ d.quota = c.quota /\ d.drainErr = c.drainErr
    BY <1>0 DEF NoDrain
  <2>3. Drains(r, d)
    BY <1>8, <2>2 DEF Drains
  <2>4. QED
    BY <2>1, <2>3
<1>9. ASSUME SaveFails(r)
      PROVE  \E d : Goes(r, d) /\ Drains(r, d)
  <2> DEFINE d == [c EXCEPT !.step = "list", !.batch = {}, !.drainErr = TRUE]
  <2>1. Goes(r, d)
    BY <1>0, <1>9 DEF SaveFails, NoDrain
  <2>2. SameCollect(d, c) /\ d.step = "list" /\ d.batch = {} /\ d.left = c.left
          /\ d.quota = c.quota /\ d.drainErr
    BY <1>0 DEF NoDrain
  <2>3. Drains(r, d)
    BY <1>9, <2>2 DEF Drains
  <2>4. QED
    BY <2>1, <2>3
<1>10. ASSUME List(r) \/ ListFails(r)
       PROVE  \E d : Goes(r, d) /\ Ends(r, d)
  BY <1>10 DEF List, ListFails, Ends
<1> HIDE DEF Goes
<1>11. QED
  BY <1>1, <1>3, <1>4, <1>5, <1>6, <1>7, <1>8, <1>9, <1>10, Zenon DEF CPACollect

\* A collect in progress, which holds the lock or not.
CollectOf(d, mine, refreshed) ==
  /\ d.at \in Moments /\ d.left \in 0..MaxBatches
  /\ d.step \in {"quota", "select", "fetch", "pop"} => d.left # 0
  /\ IsFiniteSet(d.batch) /\ Cardinality(d.batch) <= BatchSize
  /\ d.step \in {"select", "fetch"} <=> mine
  /\ mine => d.at = refreshed

\* Who asks for the quota holds the lock, and the cache says when he began.
CollectInv ==
  /\ now \in Moments /\ lock \in Run \cup {"free"}
  /\ quota.at \in Moments \cup {Never} /\ quota.err \in BOOLEAN
  /\ \A r \in Run : CollectOf(drain[r], lock = r, quota.at)

\* Where the operations of a collect begin, and what they leave of the lock and the cache.
LEMMA AskSteps ==
  ASSUME DOMAIN quota = DOMAIN NoCache, NEW r \in Run
  PROVE  /\ Throttled(r) => drain[r].step = "quota" /\ lock = "free" /\ UNCHANGED <<lock, quota>>
         /\ Refresh(r) => /\ drain[r].step = "quota" /\ lock = "free" /\ lock' = r
                          /\ quota'.at = drain[r].at /\ quota'.err = quota.err
                          /\ quota'.items = quota.items
         /\ Select(r) => drain[r].step = "select" /\ UNCHANGED <<lock, quota>>
         /\ RefreshFails(r) => /\ drain[r].step \in {"select", "fetch"} /\ lock' = "free"
                               /\ quota'.at = quota.at /\ quota'.err = TRUE
                               /\ quota'.items = quota.items
         /\ Refreshed(r) => /\ drain[r].step = "fetch" /\ lock' = "free"
                            /\ quota'.at = quota.at /\ quota'.err = FALSE
                            /\ quota'.items # <<>>
                            /\ \E account, windows : quota'.items = WindowItems(account, windows)
<1>1. Throttled(r) => drain[r].step = "quota" /\ lock = "free" /\ UNCHANGED <<lock, quota>>
  BY DEF Throttled, At
<1>2. Refresh(r) => /\ drain[r].step = "quota" /\ lock = "free" /\ lock' = r
                    /\ quota'.at = drain[r].at /\ quota'.err = quota.err
                    /\ quota'.items = quota.items
  BY DEF Refresh, At, NoCache
<1>3. Select(r) => drain[r].step = "select" /\ UNCHANGED <<lock, quota>>
  BY DEF Select, At
<1>4. RefreshFails(r) => /\ drain[r].step \in {"select", "fetch"} /\ lock' = "free"
                         /\ quota'.at = quota.at /\ quota'.err = TRUE
                         /\ quota'.items = quota.items
  BY DEF RefreshFails, Kept, NoCache
<1>5. ASSUME Refreshed(r)
      PROVE  /\ drain[r].step = "fetch" /\ lock' = "free"
             /\ quota'.at = quota.at /\ quota'.err = FALSE
             /\ quota'.items # <<>>
             /\ \E account, windows : quota'.items = WindowItems(account, windows)
  <2>1. PICK windows, items :
          /\ items # <<>> /\ items = WindowItems(drain[r].account, windows)
          /\ quota' = [quota EXCEPT !.err = FALSE, !.items = items, !.account = drain[r].account]
    BY <1>5, Zenon DEF Refreshed
  <2>2. quota'.at = quota.at /\ quota'.err = FALSE /\ quota'.items = items
    BY <2>1 DEF NoCache
  <2>3. drain[r].step = "fetch" /\ lock' = "free"
    BY <1>5 DEF Refreshed, At
  <2>4. QED
    BY <2>1, <2>2, <2>3
<1>6. QED
  BY <1>1, <1>2, <1>3, <1>4, <1>5

LEMMA DrainSteps ==
  ASSUME NEW r \in Run
  PROVE  /\ Pop(r) \/ PopFails(r) => drain[r].step = "pop" /\ UNCHANGED <<lock, quota>>
         /\ Save(r) \/ SaveFails(r) => drain[r].step = "save" /\ UNCHANGED <<lock, quota>>
<1>1. Pop(r) \/ PopFails(r) => drain[r].step = "pop" /\ UNCHANGED <<lock, quota>>
  BY Zenon DEF Pop, PopFails, At
<1>2. Save(r) \/ SaveFails(r) => drain[r].step = "save" /\ UNCHANGED <<lock, quota>>
  BY DEF Save, SaveFails, At
<1>3. QED
  BY <1>1, <1>2

\* What a collect reads of the queue at once.
LEMMA BatchFinite ==
  ASSUME NEW S, NEW seq \in Seq(S), NEW kept \in SUBSET Range(Batch(seq))
  PROVE  IsFiniteSet(kept) /\ Cardinality(kept) <= BatchSize
<1>1. BatchLen(seq) \in 0..Len(seq) /\ BatchLen(seq) <= BatchSize /\ BatchSize \in Nat
  BY CPAConstants DEF BatchLen
<1>2. DOMAIN Batch(seq) = 1..BatchLen(seq)
  <2>1. \A i \in 1..BatchLen(seq) : seq[i] \in S
    BY <1>1
  <2>2. Batch(seq) \in Seq(S) /\ Len(Batch(seq)) = BatchLen(seq)
    BY <1>1, <2>1, SubSeqProperties DEF Batch
  <2>3. QED
    BY <2>2
<1> DEFINE b == [n \in 1..BatchLen(seq) |-> Batch(seq)[n]]
<1>3. b \in Surjection(1..BatchLen(seq), Range(Batch(seq)))
  BY <1>2 DEF Surjection, Range
<1>4. IsFiniteSet(1..BatchLen(seq)) /\ Cardinality(1..BatchLen(seq)) = BatchLen(seq)
  <2>1. 1 \in Int /\ BatchLen(seq) \in Int /\ BatchLen(seq) \in Nat
    BY <1>1
  <2>2. QED
    BY <2>1, FS_Interval
<1>5. IsFiniteSet(Range(Batch(seq))) /\ Cardinality(Range(Batch(seq))) <= BatchLen(seq)
  <2> HIDE DEF b
  <2>1. QED
    BY <1>3, <1>4, FS_Surjection
<1>6. IsFiniteSet(kept) /\ Cardinality(kept) <= Cardinality(Range(Batch(seq)))
  BY <1>5, FS_Subset
<1>7. QED
  BY <1>1, <1>5, <1>6, FS_CardinalityType

LEMMA Empty == IsFiniteSet({}) /\ Cardinality({}) <= BatchSize
BY FS_EmptySet, CPAConstants

LEMMA CollectInit == Init => CollectInv
<1> SUFFICES ASSUME Init
             PROVE  CollectInv
  OBVIOUS
<1>1. 0 \in Moments /\ MaxBatches \in Nat
  BY ClockConstants, CPAConstants DEF Moments
<1>2. now = 0 /\ lock = "free" /\ quota = NoCache /\ drain = [r \in Run |-> NoDrain]
  BY DEF Init, CPAInit
<1>3. CollectOf(NoDrain, FALSE, Never)
  BY <1>1, Empty DEF CollectOf, NoDrain
<1>4. \A r \in Run : (lock = r) = FALSE
  BY <1>2, CPAConstants
<1>5. QED
  BY <1>1, <1>2, <1>3, <1>4 DEF CollectInv, NoCache

\* A collect that goes on alone: the others and their hold on the lock stay.
LEMMA OthersStay ==
  ASSUME CollectInv, DOMAIN drain = Run, NEW r \in Run, NEW d, Goes(r, d), now' = now,
         lock' \in Run \cup {"free"}, quota'.at \in Moments \cup {Never}, quota'.err \in BOOLEAN,
         \/ UNCHANGED <<lock, quota>>
         \/ lock \in {r, "free"} /\ lock' \in {r, "free"},
         CollectOf(d, lock' = r, quota'.at)
  PROVE  CollectInv'
<1> DEFINE c == drain'
<1>1. \A q \in Run : c[q] = IF q = r THEN d ELSE drain[q]
  BY DEF Goes
<1>2. ASSUME NEW q \in Run, q # r
      PROVE  CollectOf(drain[q], lock' = q, quota'.at)
  <2>1. CollectOf(drain[q], lock = q, quota.at)
    BY DEF CollectInv
  <2>2. CASE UNCHANGED <<lock, quota>>
    BY <2>1, <2>2
  <2>3. CASE lock # q /\ lock' # q
    BY <2>1, <2>3 DEF CollectOf
  <2>4. QED
    BY <1>2, <2>2, <2>3, CPAConstants
<1> HIDE DEF c
<1>3. \A q \in Run : CollectOf(c[q], lock' = q, quota'.at)
  BY <1>1, <1>2
<1>4. QED
  BY <1>3 DEF CollectInv, c, Moments

LEMMA CollectStep == RecordInv /\ CollectInv /\ [Next]_vars => CollectInv'
<1> SUFFICES ASSUME RecordInv, CollectInv, [Next]_vars
             PROVE  CollectInv'
  OBVIOUS
<1>0. /\ DOMAIN drain = Run /\ DOMAIN quota = DOMAIN NoCache /\ queue \in Seq(Entry) /\ "free" \notin Run
      /\ BatchSize \in Nat \ {0} /\ MaxBatches \in Nat \ {0}
  BY CPAConstants DEF RecordInv, Accounts, Delivered
<1>1. ASSUME NEW r \in Run, CPACollect(r), now' = now
      PROVE  CollectInv'
  <2> DEFINE c == drain[r]
  <2>1. PICK d : Goes(r, d) /\ (Begun(r, d) \/ Asks(r, d) \/ Drains(r, d) \/ Ends(r, d))
    BY <1>1, CollectGoes DEF RecordInv
  <2>2. CollectOf(c, lock = r, quota.at)
    BY DEF CollectInv
  <2>3. CASE Begun(r, d)
    <3>1. UNCHANGED <<lock, quota>> /\ c.step = "idle"
      BY <2>3 DEF Begun, Start, At
    <3>2. CollectOf(d, lock = r, quota.at)
      BY <1>0, <2>2, <2>3, <3>1, Empty DEF Begun, CollectOf, CollectInv
    <3>3. QED
      BY <1>0, <1>1, <2>1, <3>1, <3>2, OthersStay DEF CollectInv
  <2>4. CASE Throttled(r) /\ d.step = "pop" /\ Asks(r, d)
    <3>1. UNCHANGED <<lock, quota>> /\ c.step = "quota"
      BY <1>0, <2>4, AskSteps
    <3>2. CollectOf(d, lock = r, quota.at)
      BY <2>2, <2>4, <3>1 DEF CollectOf, Asks, SameHands, SameCollect
    <3>3. QED
      BY <1>0, <1>1, <2>1, <3>1, <3>2, OthersStay DEF CollectInv
  <2>5. CASE Refresh(r) /\ d.step = "select" /\ Asks(r, d)
    <3>1. /\ lock = "free" /\ lock' = r /\ quota'.at = c.at /\ quota'.err = quota.err
          /\ c.step = "quota"
      BY <1>0, <2>5, AskSteps
    <3>2. CollectOf(d, TRUE, c.at) /\ c.at \in Moments
      BY <2>2, <2>5, <3>1 DEF CollectOf, Asks, SameHands, SameCollect
    <3>3. QED
      BY <1>0, <1>1, <2>1, <3>1, <3>2, OthersStay DEF CollectInv
  <2>6. CASE Select(r) /\ d.step = "fetch" /\ Asks(r, d)
    <3>1. UNCHANGED <<lock, quota>> /\ c.step = "select"
      BY <1>0, <2>6, AskSteps
    <3>2. CollectOf(d, lock = r, quota.at)
      BY <2>2, <2>6, <3>1 DEF CollectOf, Asks, SameHands, SameCollect
    <3>3. QED
      BY <1>0, <1>1, <2>1, <3>1, <3>2, OthersStay DEF CollectInv
  <2>7. CASE (RefreshFails(r) \/ Refreshed(r)) /\ d.step = "pop" /\ Asks(r, d)
    <3>1. /\ c.step \in {"select", "fetch"} /\ lock' = "free"
          /\ quota'.at = quota.at /\ quota'.err \in BOOLEAN
      BY <1>0, <2>7, AskSteps
    <3>2. lock = r /\ CollectOf(d, FALSE, quota.at)
      BY <2>2, <2>7, <3>1 DEF CollectOf, Asks, SameHands, SameCollect
    <3>3. (lock' = r) = FALSE
      BY <1>0, <3>1
    <3>4. QED
      BY <1>0, <1>1, <2>1, <3>1, <3>2, <3>3, OthersStay DEF CollectInv
  <2>8. CASE Drains(r, d)
    <3>1. UNCHANGED <<lock, quota>> /\ c.step \in {"pop", "save"}
      BY <2>8, DrainSteps DEF Drains
    <3>2. IsFiniteSet(d.batch) /\ Cardinality(d.batch) <= BatchSize
      <4>1. CASE Pop(r) /\ d.batch = {e \in Range(Batch(queue)) : Converts(e, drain[r].account)}
        <5>1. d.batch \in SUBSET Range(Batch(queue))
          BY <4>1
        <5>2. QED
          BY <1>0, <5>1, BatchFinite
      <4>2. CASE d.batch = {}
        BY <4>2, Empty
      <4>3. CASE d.batch = c.batch
        BY <2>2, <4>3 DEF CollectOf
      <4>4. QED
        BY <2>8, <4>1, <4>2, <4>3 DEF Drains
    <3>3. /\ d.left \in 0..MaxBatches /\ d.step \in {"pop", "save", "list"}
          /\ d.step = "pop" => d.left # 0
      <4>1. c.left \in 0..MaxBatches /\ (c.step = "pop" => c.left # 0) /\ MaxBatches \in Nat
        BY <1>0, <2>2 DEF CollectOf
      <4>2. QED
        <5>1. CASE Pop(r) /\ d.step = AfterPop(d.batch, d.left) /\ d.left = (IF Len(queue) < BatchSize THEN 0 ELSE c.left - 1)
          <6>1. c.step = "pop"
            BY <5>1, DrainSteps
          <6>2. QED
            BY <4>1, <5>1, <6>1 DEF AfterPop
        <5>2. CASE d.left = c.left /\ d.step = "list"
          BY <4>1, <5>2
        <5>3. CASE d.left = c.left /\ d.step = IF drain[r].left = 0 THEN "list" ELSE "pop"
          BY <4>1, <5>3
        <5>4. QED
          BY <2>8, <5>1, <5>2, <5>3 DEF Drains
    <3>4. d.at = c.at
      BY <2>8 DEF Drains, SameCollect
    <3>5. CollectOf(d, lock = r, quota.at)
      BY <2>2, <3>1, <3>2, <3>3, <3>4 DEF CollectOf
    <3>6. QED
      BY <1>0, <1>1, <2>1, <3>1, <3>5, OthersStay DEF CollectInv
  <2>9. CASE Ends(r, d)
    <3>1. UNCHANGED <<lock, quota>> /\ c.step = "list"
      BY <2>9 DEF Ends, List, ListFails, At
    <3>2. d = NoDrain /\ lock # r
      BY <2>2, <2>9, <3>1 DEF Ends, CollectOf
    <3>3. CollectOf(d, FALSE, quota.at)
      BY <1>0, <3>2, Empty, ClockConstants DEF CollectOf, NoDrain, Moments
    <3>4. QED
      BY <1>0, <1>1, <2>1, <3>1, <3>2, <3>3, OthersStay DEF CollectInv
  <2>10. QED
    BY <2>1, <2>3, <2>4, <2>5, <2>6, <2>7, <2>8, <2>9 DEF Asks
<1>2. CASE Restart /\ now' = now
  <2>1. quota' = NoCache /\ lock' = "free" /\ drain' = [r \in Run |-> NoDrain]
    BY <1>2 DEF Restart
  <2>2. CollectOf(NoDrain, FALSE, Never)
    BY <1>0, Empty, ClockConstants DEF CollectOf, NoDrain, Moments
  <2>3. \A r \in Run : (lock' = r) = FALSE
    BY <1>0, <2>1
  <2>4. QED
    BY <1>2, <2>1, <2>2, <2>3 DEF CollectInv, NoCache, Moments
<1>3. CASE UNCHANGED <<lock, quota, drain>> /\ now' \in Moments
  BY <1>3 DEF CollectInv, Moments
<1>4. \/ \E r \in Run : CPACollect(r) /\ now' = now
      \/ Restart /\ now' = now
      \/ UNCHANGED <<lock, quota, drain>> /\ now' \in Moments
  <2>1. \/ Time
        \/ (\E auth \in cpa.used, kind \in cpa.kinds : Request(auth, kind)) /\ now' = now
        \/ (\E auth \in cpa.switches : Switch(auth)) /\ now' = now
        \/ (Redeliver \/ Expire \/ Restart) /\ now' = now
        \/ (\E r \in Run : CPACollect(r)) /\ now' = now
        \/ UNCHANGED <<now, cpaVars>>
    BY DEF Next, CPA, Antigravity, vars
  <2>2. Time => now' \in Moments /\ UNCHANGED cpaVars
    BY ClockConstants DEF Time, Tick, CollectInv, Moments
  <2>3. now \in Moments
    BY DEF CollectInv
  <2>4. QED
    BY <2>1, <2>2, <2>3 DEF Request, Switch, Redeliver, Expire, cpaVars
<1>5. QED
  BY <1>1, <1>2, <1>3, <1>4

---------------------------------------------------------------------------
(* The last good quota of Claude.                                          *)

\* The items of an answer: each is of a window, with what is left.
Windows(items) ==
  items \in Seq(Range(items)) /\ \A i \in Range(items) : IsQuota(i) /\ i.left = 50

\* A snapshot with such items, after those of the usage.
Answered(items) ==
  items \in Seq(Range(items)) /\ \A i \in Stated(items) : i.left = 50

\* What the cache, the collects and the panel have of the quota is of answers.
AnswerInv ==
  /\ Windows(quota.items) /\ Answered(claude.items) /\ {"items", "at"} \subseteq DOMAIN claude
  /\ \A r \in Run : Windows(drain[r].quota)

\* A collect past the quota that got none began before the last refresh, or not long after
\* one that failed.
GotOf(d, cache, grace) ==
  /\ d.quota # <<>> => cache.items # <<>>
  /\ d.step \in {"pop", "save", "list"} /\ d.quota = <<>> =>
       cache.at # Never /\ d.at < cache.at + grace

Grace == IF lock = "free" /\ quota.items = <<>> THEN QuotaInterval ELSE 0

\* While the process runs the cache has items as long as a collect or the panel has.
LastGoodInv ==
  /\ AnswerInv
  /\ ~cpa.restarts =>
       /\ Stated(claude.items) # {} => quota.items # <<>>
       /\ \A r \in Run : GotOf(drain[r], quota, Grace)

LEMMA AnswersAreWindows ==
  ASSUME NEW account, NEW windows
  PROVE  Windows(WindowItems(account, windows))
<1> DEFINE all == <<"5H", "Week">>
           itemOf == [n \in 1..2 |-> [category |-> "quota", key |-> account, name |-> "Claude Pro",
                                      email |-> account, window |-> all[n], left |-> 50]]
           some == {n \in 1..2 : all[n] \in windows}
           items == Picked(itemOf, some)
<1>1. some \in SUBSET (1..2) /\ some \in SUBSET Nat
  OBVIOUS
<1>2. \A n \in 1..2 : IsQuota(itemOf[n]) /\ itemOf[n].left = 50
  <2>1. \A n \in 1..2 : all[n] \in {"5H", "Week"}
    OBVIOUS
  <2> HIDE DEF all
  <2>2. ASSUME NEW n \in 1..2
        PROVE  itemOf[n].window = all[n] /\ itemOf[n].category = "quota" /\ itemOf[n].left = 50
    <3> DEFINE item == [category |-> "quota", key |-> account, name |-> "Claude Pro",
                        email |-> account, window |-> all[n], left |-> 50]
    <3>1. itemOf[n] = item
      BY Zenon
    <3>2. item.window = all[n] /\ item.category = "quota" /\ item.left = 50
      OBVIOUS
    <3> HIDE DEF itemOf, item
    <3>3. QED
      BY <3>1, <3>2
  <2> HIDE DEF itemOf
  <2>3. QED
    BY <2>1, <2>2 DEF IsQuota
<1>3. WindowItems(account, windows) = items
  BY DEF WindowItems
<1> HIDE DEF itemOf, some
<1>4. IsFiniteSet(some)
  BY <1>1, Within
<1>5. Range(items) = {itemOf[n] : n \in some}
  BY <1>1, <1>4, PickedRange
<1> DEFINE T == {itemOf[n] : n \in 1..2}
<1>6. items \in Seq(T)
  <2>1. \A n \in some : itemOf[n] \in T
    BY <1>1
  <2> HIDE DEF T
  <2>2. QED
    BY <1>1, <1>4, <2>1, PickedSequence
<1> HIDE DEF T, items
<1>7. items \in Seq(Range(items))
  BY <1>6, SeqOfRange
<1>8. QED
  BY <1>1, <1>2, <1>3, <1>5, <1>7 DEF Windows

\* The items of a snapshot of Claude that count as quota are those of the answer.
LEMMA SnapshotOfAnswer ==
  ASSUME NEW at, NEW items, Windows(items)
  PROVE  Stated(UsageItems(at) \o items) = Range(items) /\ Answered(UsageItems(at) \o items)
<1> DEFINE usage == UsageItems(at)
<1>1. usage \in Seq(Range(usage)) /\ \A i \in Range(usage) : ~IsQuota(i)
  <2> DEFINE today == DayOf(at)
             count(from) == Cardinality({row \in rows : DayOf(row.record.at) \in from..today})
             a == UsageItem("token_usage_product", "claude", count(today), today, today)
             b == UsageItem("token_usage_product_week", "claude", count(WeekStart(today)), WeekStart(today), today)
  <2>1. usage = <<a, b>>
    BY DEF UsageItems
  <2>2. ~IsQuota(a) /\ ~IsQuota(b)
    BY DEF UsageItem, IsQuota
  <2> HIDE DEF usage, a, b
  <2>3. usage \in Seq({a, b}) /\ Range(usage) = {a, b}
    BY <2>1 DEF Range
  <2>4. QED
    BY <2>2, <2>3
<1> HIDE DEF usage
<1>2. usage \o items \in Seq(Range(usage \o items)) /\ Range(usage \o items) = Range(usage) \cup Range(items)
  BY <1>1, ConcatElements DEF Windows
<1>3. Stated(usage \o items) = Range(items)
  BY <1>1, <1>2, StatedElements DEF Windows
<1>4. QED
  BY <1>2, <1>3 DEF Windows, Answered, usage

\* The panel shows a quota of Claude if an item is one.
LEMMA QuotaShown ==
  ASSUME NEW snapshot, Answered(snapshot.items)
  PROVE  HasQuota(snapshot) <=> Stated(snapshot.items) # {}
<1> DEFINE items == snapshot.items
           rowsOf == QuotaRows(items)
           trio == TrioRows(items, "Claude Pro")
           claudeRows == ClaudeRows(snapshot)
<1>1. items \in Seq(Range(items)) /\ \A i \in Stated(items) : i.left = 50
  BY DEF Answered
<1>2. claudeRows = [n \in DOMAIN trio |-> IF trio[n].email = Missing THEN trio[n]
                                          ELSE [trio[n] EXCEPT !.account = trio[n].email]]
  BY DEF ClaudeRows
<1>3. CASE Stated(items) = {}
  <2>1. rowsOf = <<>>
    BY <1>1, <1>3, SomeRows
  <2> DEFINE e == EmptyRow("Claude Pro")
  <2>2. trio = <<e>>
    BY <2>1 DEF TrioRows
  <2>3. e.five = Missing /\ e.week = Missing /\ e.email = Missing
    BY DEF EmptyRow
  <2> HIDE DEF trio, e
  <2>4. \A n \in DOMAIN trio : trio[n] = e
    BY <2>2
  <2> HIDE DEF claudeRows
  <2>5. \A n \in DOMAIN claudeRows : claudeRows[n].five = Missing /\ claudeRows[n].week = Missing
    BY <1>2, <2>3, <2>4
  <2>6. QED
    BY <1>3, <2>5 DEF HasQuota, Range, claudeRows
<1>4. CASE Stated(items) # {}
  <2>1. PICK i \in Stated(items) : TRUE
    BY <1>4
  <2>2. PICK j \in Stated(items) : AccountKey(j) = AccountKey(i) /\ RowOf(items, j) \in Range(rowsOf)
    BY <1>1, RowsShown
  <2>3. \E window \in {"5H", "Week"} : Cell(items, AccountKey(j), window) # Missing
    <3>1. i.window \in {"5H", "Week"}
      BY StatedElements DEF IsQuota
    <3>2. \/ /\ Cell(items, AccountKey(j), i.window) = Missing
             /\ \A k \in Stated(items) : ~(AccountKey(k) = AccountKey(j) /\ k.window = i.window)
          \/ \E k \in Stated(items) : /\ AccountKey(k) = AccountKey(j) /\ k.window = i.window
                                      /\ Cell(items, AccountKey(j), i.window) = k.left
      BY <1>1, <3>1, CellStated
    <3>3. Cell(items, AccountKey(j), i.window) = 50
      BY <1>1, <2>2, <3>2
    <3>4. 50 # Missing
      BY CellConstants
    <3>5. QED
      BY <3>1, <3>3, <3>4
  <2>4. RowOf(items, j).five # Missing \/ RowOf(items, j).week # Missing
    BY <2>3 DEF RowOf, Row
  <2>5. PICK n \in DOMAIN rowsOf : rowsOf[n] = RowOf(items, j)
    BY <2>2 DEF Range
  <2>6. trio = rowsOf
    <3>1. rowsOf # <<>>
      BY <1>1, <1>4, SomeRows
    <3>2. trio = IF rowsOf = <<>> THEN <<EmptyRow("Claude Pro")>> ELSE rowsOf
      BY Zenon DEF TrioRows
    <3> HIDE DEF rowsOf, trio
    <3>3. QED
      BY <3>1, <3>2
  <2> DEFINE row == RowOf(items, j)
             shown == IF row.email = Missing THEN row ELSE [row EXCEPT !.account = row.email]
  <2>7. shown.five # Missing \/ shown.week # Missing
    BY <2>4 DEF RowOf, Row
  <2> HIDE DEF row, trio, rowsOf, claudeRows
  <2>8. n \in DOMAIN claudeRows /\ claudeRows[n] = shown
    BY <1>2, <2>5, <2>6 DEF row
  <2> HIDE DEF shown
  <2>9. QED
    BY <1>4, <2>7, <2>8 DEF HasQuota, Range, claudeRows
<1>5. QED
  BY <1>3, <1>4

\* Only List changes what is shown.
LEMMA ClaudeStays ==
  ASSUME AnswerInv, NEW r \in Run, CPACollect(r)
  PROVE  /\ List(r) \/ claude'.items = claude.items
         /\ {"items", "at"} \subseteq DOMAIN claude'
<1>1. Pop(r) \/ PopFails(r) \/ Save(r) \/ SaveFails(r) => claude' = claude
  BY Zenon DEF Pop, PopFails, Save, SaveFails
<1>2. Start(r) \/ Throttled(r) \/ Refresh(r) \/ RefreshFails(r) \/ Select(r) \/ Refreshed(r) => claude' = claude
  BY Zenon DEF Start, Throttled, Refresh, RefreshFails, Select, Refreshed
<1>3. ListFails(r) => claude' = [claude EXCEPT !.status = "error"]
  BY Zenon DEF ListFails
<1>4. List(r) => \/ claude' = [claude EXCEPT !.status = "error"]
                 \/ \E items, whole : claude' = [status |-> "ok", items |-> items, at |-> drain[r].at,
                                                 made |-> drain[r].made, whole |-> whole]
  BY Zenon DEF List
<1>5. {"items", "at"} \subseteq DOMAIN claude
  BY DEF AnswerInv
<1>6. claude' = [claude EXCEPT !.status = "error"] =>
        claude'.items = claude.items /\ {"items", "at"} \subseteq DOMAIN claude'
  BY <1>5
<1>7. List(r) => {"items", "at"} \subseteq DOMAIN claude'
  BY <1>4, <1>6
<1>8. claude' = claude => claude'.items = claude.items /\ {"items", "at"} \subseteq DOMAIN claude'
  BY <1>5
<1>9. List(r) \/ ListFails(r) \/ claude' = claude
  BY <1>1, <1>2 DEF CPACollect
<1>10. QED
  BY <1>3, <1>6, <1>7, <1>8, <1>9

\* What List leaves of the items of Claude.
LEMMA ListShows ==
  ASSUME AnswerInv, NEW r \in Run, List(r)
  PROVE  \/ claude'.items = claude.items /\ claude'.at = claude.at
         \/ /\ Answered(claude'.items) /\ Stated(claude'.items) = Range(drain[r].quota)
            /\ claude'.at = drain[r].at
<1> DEFINE items == UsageItems(drain[r].at) \o drain[r].quota
<1>1. Stated(items) = Range(drain[r].quota) /\ Answered(items)
  BY SnapshotOfAnswer DEF AnswerInv
<1>2. \/ claude' = [claude EXCEPT !.status = "error"]
      \/ \E whole : claude' = [status |-> "ok", items |-> items, at |-> drain[r].at,
                               made |-> drain[r].made, whole |-> whole]
  BY Zenon DEF List
<1> HIDE DEF items
<1>3. CASE claude' = [claude EXCEPT !.status = "error"]
  BY <1>3 DEF AnswerInv
<1>4. QED
  BY <1>1, <1>2, <1>3

LEMMA NothingGot == Windows(<<>>) /\ Answered(<<>>)
BY DEF Windows, Answered, Stated, Quotas, Range

LEMMA LastGoodInit == Init => LastGoodInv
<1> SUFFICES ASSUME Init
             PROVE  LastGoodInv
  OBVIOUS
<1>1. /\ quota = NoCache /\ drain = [r \in Run |-> NoDrain]
      /\ claude.items = <<>> /\ {"items", "at"} \subseteq DOMAIN claude
  BY DEF Init, CPAInit
<1>2. \A r \in Run : GotOf(drain[r], quota, Grace) /\ Windows(drain[r].quota)
  BY <1>1, NothingGot DEF GotOf, NoDrain
<1>3. Stated(claude.items) = {}
  BY <1>1 DEF Stated, Quotas
<1>4. QED
  BY <1>1, <1>2, <1>3, NothingGot DEF LastGoodInv, AnswerInv, NoCache

\* The answers go from the cache to a collect and from there to the panel.
LEMMA AnswerStep ==
  ASSUME RecordInv, AnswerInv, [Next]_vars
  PROVE  AnswerInv'
<1>0. DOMAIN drain = Run /\ DOMAIN quota = DOMAIN NoCache
  BY DEF RecordInv, Accounts
<1>1. ASSUME NEW r \in Run, CPACollect(r)
      PROVE  AnswerInv'
  <2>1. PICK d : Goes(r, d) /\ (Begun(r, d) \/ Asks(r, d) \/ Drains(r, d) \/ Ends(r, d))
    BY <1>1, CollectGoes DEF RecordInv
  <2>2. Windows(quota'.items)
    <3>1. quota'.items = quota.items \/ \E account, windows : quota'.items = WindowItems(account, windows)
      BY <1>0, <2>1, AskSteps, DrainSteps DEF Begun, Asks, Drains, Ends, Start, List, ListFails
    <3>2. QED
      BY <3>1, AnswersAreWindows DEF AnswerInv
  <2>3. Windows(d.quota)
    <3>1. d.quota \in {<<>>, drain[r].quota, quota'.items}
      BY <2>1 DEF Begun, Asks, Drains, Ends, NoDrain
    <3>2. QED
      BY <2>2, <3>1, NothingGot DEF AnswerInv
  <2>4. Answered(claude'.items)
    <3>1. CASE List(r)
      <4>1. claude'.items = claude.items \/ Answered(claude'.items)
        BY <3>1, ListShows
      <4>2. QED
        BY <4>1 DEF AnswerInv
    <3>2. CASE claude'.items = claude.items
      BY <3>2 DEF AnswerInv
    <3>3. QED
      BY <1>1, <3>1, <3>2, ClaudeStays
  <2> DEFINE c == drain'
  <2>5. \A q \in Run : c[q] = IF q = r THEN d ELSE drain[q]
    BY <1>0, <2>1 DEF Goes
  <2> HIDE DEF c
  <2>6. \A q \in Run : Windows(c[q].quota)
    BY <2>3, <2>5 DEF AnswerInv
  <2>7. {"items", "at"} \subseteq DOMAIN claude'
    BY <1>1, ClaudeStays
  <2>8. QED
    BY <2>2, <2>4, <2>6, <2>7 DEF AnswerInv, c
<1>2. CASE Restart
  BY <1>2, NothingGot DEF Restart, AnswerInv, NoCache, NoDrain
<1>3. CASE UNCHANGED <<quota, drain, claude>>
  BY <1>3 DEF AnswerInv
<1>4. (\E r \in Run : CPACollect(r)) \/ Restart \/ UNCHANGED <<quota, drain, claude>>
  BY CPASteps DEF Time, Request, Switch, Redeliver, Expire, cpaVars
<1>5. QED
  BY <1>1, <1>2, <1>3, <1>4

\* A collect that does not take part keeps what it got, if the cache keeps its items and
\* the last refresh is not taken back.
LEMMA GotStays ==
  ASSUME NEW d, NEW cache, NEW grace, NEW after, NEW graceAfter,
         GotOf(d, cache, grace), d.at \in Moments, cache.at \in Moments \cup {Never},
         after.at \in Moments \cup {Never}, grace \in Nat, graceAfter \in Nat,
         cache.items # <<>> => after.items # <<>>,
         cache.at # Never => after.at # Never /\ cache.at + grace <= after.at + graceAfter
  PROVE  GotOf(d, after, graceAfter)
BY ClockConstants DEF GotOf, Moments, Never

LEMMA LastGoodStep ==
  ASSUME RecordInv, CollectInv, LastGoodInv, [Next]_vars
  PROVE  LastGoodInv'
<1>0. /\ DOMAIN drain = Run /\ DOMAIN quota = DOMAIN NoCache
      /\ cpa' = cpa /\ AnswerInv' /\ "free" \notin Run
      /\ QuotaInterval \in Nat \ {0}
  BY ConfigurationStays, AnswerStep, CPAConstants DEF RecordInv, Accounts, LastGoodInv
<1> SUFFICES ASSUME ~cpa.restarts
             PROVE  /\ Stated(claude'.items) # {} => quota'.items # <<>>
                    /\ \A r \in Run : GotOf((drain')[r], quota', Grace')
  BY <1>0 DEF LastGoodInv
<1>1. /\ Stated(claude.items) # {} => quota.items # <<>>
      /\ \A r \in Run : GotOf(drain[r], quota, Grace)
      /\ \A r \in Run : Windows(drain[r].quota)
  BY DEF LastGoodInv, AnswerInv
<1>2. ASSUME NEW r \in Run, CPACollect(r), now' = now
      PROVE  /\ Stated(claude'.items) # {} => quota'.items # <<>>
             /\ \A q \in Run : GotOf((drain')[q], quota', Grace')
  <2> DEFINE c == drain[r]
             kept == quota.items # <<>> => quota'.items # <<>>
             later == quota.at # Never => quota'.at # Never /\ quota.at + Grace <= quota'.at + Grace'
  <2>1. PICK d : Goes(r, d) /\ (Begun(r, d) \/ Asks(r, d) \/ Drains(r, d) \/ Ends(r, d))
    BY <1>2, CollectGoes DEF RecordInv
  <2>2. CollectOf(c, lock = r, quota.at) /\ quota.at \in Moments \cup {Never}
    BY DEF CollectInv
  <2>3. GotOf(c, quota, Grace) /\ Grace \in 0..QuotaInterval
    BY <1>0, <1>1 DEF Grace
  <2>4. /\ c.at \in Moments /\ quota.at \in Int /\ Grace \in Int /\ QuotaInterval \in Int /\ Never \notin Moments
        /\ \A m \in Moments : m \in Int
    BY <1>0, <2>2, <2>3, ClockConstants DEF CollectOf, Moments, Never
  <2>5. kept /\ later /\ GotOf(d, quota', Grace')
    <3>1. CASE \/ Begun(r, d) \/ Drains(r, d) \/ Ends(r, d)
               \/ Select(r) /\ d.step = "fetch" /\ d.quota = c.quota
      <4>1. UNCHANGED <<lock, quota>>
        BY <1>0, <3>1, AskSteps, DrainSteps DEF Begun, Drains, Ends, Start, List, ListFails
      <4>2. Grace' = Grace /\ kept /\ later
        BY <2>4, <4>1 DEF Grace
      <4>3. GotOf(d, quota, Grace)
        <5>1. CASE Begun(r, d)
          BY <5>1 DEF Begun, GotOf
        <5>2. CASE Drains(r, d)
          <6>1. d.quota = c.quota /\ d.at = c.at /\ c.step \in {"pop", "save"}
            BY <5>2, DrainSteps DEF Drains, SameCollect
          <6>2. QED
            BY <2>3, <6>1 DEF GotOf
        <5>3. CASE Ends(r, d)
          BY <5>3 DEF Ends, NoDrain, GotOf
        <5>4. CASE d.step = "fetch" /\ d.quota = c.quota
          BY <2>3, <5>4 DEF GotOf
        <5>5. QED
          BY <3>1, <5>1, <5>2, <5>3, <5>4
      <4>4. QED
        BY <4>1, <4>2, <4>3
    <3>2. CASE Throttled(r) /\ d.step = "pop" /\ d.quota = quota'.items /\ Asks(r, d)
      <4>1. lock = "free" /\ UNCHANGED <<lock, quota>>
        BY <1>0, <3>2, AskSteps
      <4>2. Grace' = Grace /\ kept /\ later
        BY <2>4, <4>1 DEF Grace
      <4>3. d.at = c.at /\ quota.at # Never /\ c.at - quota.at < QuotaInterval
        BY <3>2 DEF Asks, SameCollect, Throttled
      <4>4. d.quota = <<>> => Grace = QuotaInterval
        BY <3>2, <4>1 DEF Grace
      <4>5. d.quota = <<>> => d.at < quota.at + Grace
        BY <2>4, <4>3, <4>4
      <4>6. GotOf(d, quota, Grace)
        BY <3>2, <4>1, <4>3, <4>5 DEF GotOf
      <4>7. QED
        BY <4>1, <4>2, <4>6
    <3>3. CASE Refresh(r) /\ d.step = "select" /\ d.quota = c.quota /\ Asks(r, d)
      <4>1. /\ lock' = r /\ quota'.at = c.at /\ quota'.items = quota.items
            /\ quota.at = Never \/ c.at - quota.at >= QuotaInterval
        BY <1>0, <3>3, AskSteps DEF Refresh
      <4>2. Grace' = 0
        BY <1>0, <4>1 DEF Grace
      <4>3. later
        BY <2>3, <2>4, <4>1, <4>2
      <4>4. GotOf(d, quota', Grace')
        BY <2>3, <3>3, <4>1 DEF GotOf
      <4>5. QED
        BY <4>1, <4>3, <4>4
    <3>4. CASE RefreshFails(r) /\ d.step = "pop" /\ d.quota = quota'.items /\ Asks(r, d)
      <4>1. /\ c.step \in {"select", "fetch"} /\ lock' = "free"
            /\ quota'.at = quota.at /\ quota'.items = quota.items /\ d.at = c.at
        BY <1>0, <3>4, AskSteps DEF Asks, SameCollect
      <4>2. lock = r /\ c.at = quota.at
        BY <2>2, <4>1 DEF CollectOf
      <4>3. Grace = 0 /\ Grace' = IF quota.items = <<>> THEN QuotaInterval ELSE 0
        BY <1>0, <4>1, <4>2 DEF Grace
      <4>4. later
        BY <1>0, <2>4, <4>1, <4>3
      <4>5. GotOf(d, quota', Grace')
        BY <1>0, <2>4, <3>4, <4>1, <4>2, <4>3 DEF GotOf
      <4>6. QED
        BY <4>1, <4>4, <4>5
    <3>5. CASE Refreshed(r) /\ d.step = "pop" /\ d.quota = quota'.items /\ Asks(r, d)
      <4>1. /\ c.step = "fetch" /\ lock' = "free" /\ quota'.at = quota.at /\ quota'.items # <<>>
        BY <1>0, <3>5, AskSteps
      <4>2. lock = r
        BY <2>2, <4>1 DEF CollectOf
      <4>3. Grace = 0 /\ Grace' = 0
        BY <1>0, <4>1, <4>2 DEF Grace
      <4>4. QED
        BY <2>4, <3>5, <4>1, <4>3 DEF GotOf
    <3>6. QED
      BY <2>1, <3>1, <3>2, <3>3, <3>4, <3>5 DEF Asks
  <2> DEFINE e == drain'
  <2>6. \A q \in Run : e[q] = IF q = r THEN d ELSE drain[q]
    BY <1>0, <2>1 DEF Goes
  <2>7. quota'.at \in Moments \cup {Never} /\ Grace' \in Nat /\ Grace \in Nat
    <3>1. CollectInv'
      BY CollectStep
    <3>2. QED
      BY <1>0, <3>1 DEF CollectInv, Grace, Moments, Never
  <2>8. ASSUME NEW q \in Run, q # r
        PROVE  GotOf(drain[q], quota', Grace')
    <3> DEFINE after == quota'
               graceAfter == Grace'
               grace == Grace
    <3>1. GotOf(drain[q], quota, grace) /\ drain[q].at \in Moments
      BY <1>1 DEF CollectInv, CollectOf
    <3>2. after.at \in Moments \cup {Never} /\ graceAfter \in Nat /\ grace \in Nat
      BY <2>7
    <3>3. /\ quota.items # <<>> => after.items # <<>>
          /\ quota.at # Never => after.at # Never /\ quota.at + grace <= after.at + graceAfter
      BY <2>5
    <3> HIDE DEF after, graceAfter, grace
    <3>4. GotOf(drain[q], after, graceAfter)
      BY <2>2, <3>1, <3>2, <3>3, GotStays
    <3>5. QED
      BY <3>4 DEF after, graceAfter
  <2> HIDE DEF e
  <2>9. \A q \in Run : GotOf(e[q], quota', Grace')
    BY <2>5, <2>6, <2>8
  <2>10. Stated(claude'.items) # {} => quota'.items # <<>>
    <3>1. CASE List(r)
      <4>1. quota' = quota
        BY <3>1 DEF List
      <4>2. claude'.items = claude.items \/ Stated(claude'.items) = Range(c.quota)
        BY <3>1, ListShows DEF LastGoodInv
      <4>3. Range(c.quota) # {} => c.quota # <<>>
        BY DEF Range
      <4>4. QED
        BY <1>1, <2>3, <4>1, <4>2, <4>3 DEF GotOf
    <3>2. CASE claude'.items = claude.items
      BY <1>1, <2>5, <3>2
    <3>3. List(r) \/ claude'.items = claude.items
      BY <1>2, ClaudeStays DEF LastGoodInv
    <3>4. QED
      BY <3>1, <3>2, <3>3
  <2>11. QED
    BY <2>9, <2>10 DEF e
<1>3. CASE UNCHANGED <<quota, lock, drain, claude>>
  BY <1>1, <1>3 DEF Grace
<1>4. \/ \E r \in Run : CPACollect(r) /\ now' = now
      \/ UNCHANGED <<quota, lock, drain, claude>>
  <2>1. ~Restart
    BY DEF Restart
  <2>2. \/ Time
        \/ (\E auth \in cpa.used, kind \in cpa.kinds : Request(auth, kind)) /\ now' = now
        \/ (\E auth \in cpa.switches : Switch(auth)) /\ now' = now
        \/ (Redeliver \/ Expire \/ Restart) /\ now' = now
        \/ (\E r \in Run : CPACollect(r)) /\ now' = now
        \/ UNCHANGED <<now, cpaVars>>
    BY DEF Next, CPA, Antigravity, vars
  <2>3. QED
    BY <2>1, <2>2 DEF Time, Request, Switch, Redeliver, Expire, cpaVars
<1>5. QED
  BY <1>2, <1>3, <1>4

\* The panel loses the quota of Claude only to a collect that began before the last refresh.
LEMMA GoodStays ==
  ASSUME RecordInv, CollectInv, LastGoodInv, [Next]_vars,
         HasQuota(claude), ~cpa.restarts, claude'.at >= quota.at, claude' # claude
  PROVE  HasQuota(claude')
<1> DEFINE after == claude'
<1>1. Answered(claude.items) /\ Answered(after.items)
  BY AnswerStep DEF LastGoodInv, AnswerInv
<1>2. Stated(claude.items) # {} /\ quota.items # <<>>
  BY <1>1, QuotaShown DEF LastGoodInv
<1>3. (\E r \in Run : List(r)) \/ after.items = claude.items
  <2>1. ~Restart
    BY DEF Restart
  <2>2. (\E r \in Run : CPACollect(r)) \/ claude' = claude
    BY <2>1, CPASteps DEF Time, Request, Switch, Redeliver, Expire, cpaVars
  <2>3. QED
    BY <2>2, ClaudeStays DEF LastGoodInv
<1>4. Stated(after.items) # {}
  <2>1. CASE after.items = claude.items
    BY <1>2, <2>1
  <2>2. ASSUME NEW r \in Run, List(r), after.items # claude.items
        PROVE  Stated(after.items) # {}
    <3>1. Stated(after.items) = Range(drain[r].quota) /\ after.at = drain[r].at
      BY <2>2, ListShows DEF LastGoodInv
    <3>2. drain[r].step = "list" /\ GotOf(drain[r], quota, 0)
      BY <1>2, <2>2 DEF List, At, LastGoodInv, Grace
    <3>3. drain[r].at \in Int /\ quota.at \in Int
      BY ClockConstants DEF CollectInv, CollectOf, Moments, Never
    <3>4. drain[r].quota # <<>>
      BY <3>1, <3>2, <3>3 DEF GotOf
    <3>5. Windows(drain[r].quota)
      BY DEF LastGoodInv, AnswerInv
    <3>6. Range(drain[r].quota) # {}
      <4> DEFINE items == drain[r].quota
      <4>1. items \in Seq(Range(items)) /\ items # <<>>
        BY <3>4, <3>5 DEF Windows
      <4> HIDE DEF items
      <4>2. 1 \in DOMAIN items
        BY <4>1
      <4>3. Range(items) # {}
        BY <4>2 DEF Range
      <4>4. QED
        BY <4>3 DEF items
    <3>7. QED
      BY <3>1, <3>6
  <2>3. QED
    BY <1>3, <2>1, <2>2
<1> HIDE DEF after
<1>5. HasQuota(after)
  BY <1>1, <1>4, QuotaShown
<1>6. QED
  BY <1>5 DEF after

\* What is typed and locked, and what was answered, hold whatever collects overlap.
LEMMA CollectsHold == Spec => []RecordInv /\ []CollectInv /\ []LastGoodInv
<1>1. Init => RecordInv /\ CollectInv /\ LastGoodInv
  BY RecordInit, CollectInit, LastGoodInit
<1>2. RecordInv /\ CollectInv /\ LastGoodInv /\ [Next]_vars => (RecordInv /\ CollectInv /\ LastGoodInv)'
  BY RecordStep, CollectStep, LastGoodStep
<1>3. QED
  BY <1>1, <1>2, PTL DEF Spec

\* Whatever collects overlap and whichever refreshes fail, a quota of Claude the panel shows
\* stays until the process ends, except for a collect that began before the last refresh
\* (quota: a failed refresh keeps the last good items).
THEOREM LastGoodKept == Spec => KeepsLastGood
<1>1. RecordInv /\ CollectInv /\ LastGoodInv /\ [Next]_vars =>
        [HasQuota(claude) /\ ~cpa.restarts /\ claude'.at >= quota.at => HasQuota(claude')]_claude
  BY GoodStays
<1>2. QED
  BY <1>1, CollectsHold, PTL DEF Spec, KeepsLastGood

---------------------------------------------------------------------------
(* The totals of days.                                                     *)

\* What is said to have been used on some days is no more than was used.
Reported(days, used) == \A d \in DOMAIN days : d \in Days /\ days[d] \in 0..used[d]

\* A machine has one row for a day at most.
Stored(stored, used) ==
  /\ \A row \in stored : row.key = row.day /\ row.day \in Days /\ row.total \in 0..used[row.day]
  /\ \A row, other \in stored : row.key = other.key => row = other

\* What a machine can have filed under each day.
FiledOf(used, moved) == [d \in Days |-> IF moved[d] > used[d] THEN moved[d] ELSE used[d]]

\* What is filed under a later day was used on one that had ended.
Moved(used, moved) == \A d \in Days : moved[d] > 0 => \E e \in Days : e < d /\ moved[d] <= used[e]

\* A cycle that Switch has answered, on the day it was asked.
Asked(a, used, today) == a.step = "dated" => Reported(a.days, used) /\ a.day \in Days /\ a.day <= today

\* The totals of one machine: what was used, what was misfiled, its push, its cycle, its rows.
TotalsOf(used, moved, p, a, stored, today) ==
  /\ used \in [Days -> 0..MaxTokens] /\ moved \in [Days -> 0..MaxTokens] /\ Moved(used, moved)
  /\ DOMAIN p = DOMAIN NoReading
  /\ Reported(p.days, FiledOf(used, moved)) /\ Stored(stored, FiledOf(used, moved))
  /\ Asked(a, used, today)

TotalsInv ==
  /\ now \in Moments
  /\ DOMAIN tokens = agy.machines /\ DOMAIN misfiled = agy.machines /\ DOMAIN push = agy.machines
  /\ DOMAIN agent = agy.machines /\ DOMAIN totals = agy.machines
  /\ \A m \in agy.machines :
       TotalsOf(tokens[m], misfiled[m], push[m], agent[m], totals[m], DayOf(now))

LEMMA DivisionGrows ==
  ASSUME NEW t \in Nat, NEW u \in Nat, NEW d \in Nat \ {0}, t <= u
  PROVE  t \div d \in Nat /\ t \div d <= u \div d
OBVIOUS

LEMMA DayOfMoment ==
  ASSUME NEW t \in Moments
  PROVE  DayOf(t) \in Days
BY ClockConstants, DivisionGrows DEF Moments, DayOf, Days

LEMMA MomentStays == now \in Moments /\ [Next]_vars => now' \in Moments
<1> SUFFICES ASSUME now \in Moments, [Next]_vars
             PROVE  now' \in Moments
  OBVIOUS
<1>1. CASE UNCHANGED now
  BY <1>1
<1>2. CASE Time
  BY <1>2, ClockConstants DEF Time, Tick, Moments
<1>3. QED
  BY <1>1, <1>2, ClockStep

LEMMA TotalsInit == Init => TotalsInv
<1> SUFFICES ASSUME Init
             PROVE  TotalsInv
  OBVIOUS
<1> DEFINE none == [d \in Days |-> 0]
<1>1. 0 \in Moments /\ MaxTokens \in Nat
  BY ClockConstants, GroupConstants DEF Moments
<1>2. none \in [Days -> 0..MaxTokens] /\ \A d \in Days : none[d] = 0
  BY <1>1
<1> HIDE DEF none
<1>3. \A used : Reported(<<>>, used) /\ Stored({}, used)
  BY DEF Reported, Stored
<1>4. Moved(none, none)
  BY <1>2 DEF Moved
<1>5. NoReading.days = <<>> /\ NoReading.step = "idle"
  BY DEF NoReading
<1>6. \A today : Asked(NoReading, none, today)
  BY <1>5 DEF Asked
<1>7. \A today : TotalsOf(none, none, NoReading, NoReading, {}, today)
  BY <1>2, <1>3, <1>4, <1>5, <1>6 DEF TotalsOf
<1>8. /\ now \in Moments
      /\ DOMAIN tokens = agy.machines /\ DOMAIN misfiled = agy.machines /\ DOMAIN push = agy.machines
      /\ DOMAIN agent = agy.machines /\ DOMAIN totals = agy.machines
      /\ \A m \in agy.machines : /\ tokens[m] = none /\ misfiled[m] = none /\ push[m] = NoReading
                                 /\ agent[m] = NoReading /\ totals[m] = {}
  BY <1>1 DEF Init, GroupsInit, none
<1>9. QED
  BY <1>7, <1>8 DEF TotalsInv

\* When more was used, what was said before of it still is no more.
LEMMA MoreUsed ==
  ASSUME NEW used \in [Days -> 0..MaxTokens], NEW more \in [Days -> 0..MaxTokens],
         \A d \in Days : used[d] <= more[d]
  PROVE  /\ \A days : Reported(days, used) => Reported(days, more)
         /\ \A stored : Stored(stored, used) => Stored(stored, more)
<1>1. \A d \in Days : \A n \in 0..used[d] : n \in 0..more[d]
  BY GroupConstants
<1>2. QED
  BY <1>1 DEF Reported, Stored

\* What can have been filed is no less than what was used, or misfiled.
LEMMA FiledTypes ==
  ASSUME NEW used \in [Days -> 0..MaxTokens], NEW moved \in [Days -> 0..MaxTokens]
  PROVE  /\ FiledOf(used, moved) \in [Days -> 0..MaxTokens]
         /\ \A d \in Days : used[d] <= FiledOf(used, moved)[d] /\ moved[d] <= FiledOf(used, moved)[d]
BY GroupConstants DEF FiledOf

LEMMA FiledGrows ==
  ASSUME NEW used \in [Days -> 0..MaxTokens], NEW moved \in [Days -> 0..MaxTokens],
         NEW more \in [Days -> 0..MaxTokens], NEW then \in [Days -> 0..MaxTokens],
         \A d \in Days : used[d] <= more[d] /\ moved[d] <= then[d]
  PROVE  \A d \in Days : FiledOf(used, moved)[d] <= FiledOf(more, then)[d]
<1> SUFFICES ASSUME NEW d \in Days
             PROVE  FiledOf(used, moved)[d] <= FiledOf(more, then)[d]
  OBVIOUS
<1>1. /\ FiledOf(used, moved)[d] = IF moved[d] > used[d] THEN moved[d] ELSE used[d]
      /\ FiledOf(more, then)[d] = IF then[d] > more[d] THEN then[d] ELSE more[d]
  BY DEF FiledOf
<1>2. /\ used[d] \in Int /\ moved[d] \in Int /\ more[d] \in Int /\ then[d] \in Int
      /\ used[d] <= more[d] /\ moved[d] <= then[d]
  BY GroupConstants
<1>3. QED
  BY <1>1, <1>2

\* The push and the rows of a machine are still covered when it used or misfiled more.
LEMMA StillFiled ==
  ASSUME NEW used \in [Days -> 0..MaxTokens], NEW moved \in [Days -> 0..MaxTokens],
         NEW more \in [Days -> 0..MaxTokens], NEW then \in [Days -> 0..MaxTokens],
         \A d \in Days : used[d] <= more[d] /\ moved[d] <= then[d]
  PROVE  /\ \A days : Reported(days, FiledOf(used, moved)) => Reported(days, FiledOf(more, then))
         /\ \A stored : Stored(stored, FiledOf(used, moved)) => Stored(stored, FiledOf(more, then))
<1>1. FiledOf(used, moved) \in [Days -> 0..MaxTokens] /\ FiledOf(more, then) \in [Days -> 0..MaxTokens]
  BY FiledTypes
<1>2. \A d \in Days : FiledOf(used, moved)[d] <= FiledOf(more, then)[d]
  BY FiledGrows
<1>3. QED
  BY <1>1, <1>2, MoreUsed

\* A function of the machines that changes for one of them only.
ChangesTo(v, w, machines, m, y) ==
  DOMAIN w = machines /\ w[m] = y /\ \A x \in machines \ {m} : w[x] = v[x]

\* More was used and misfiled on some machine.
Grown(m) ==
  \A d \in Days : tokens[m][d] <= tokens'[m][d] /\ misfiled[m][d] <= misfiled'[m][d]

\* A step of one machine.
LEMMA MachineStep ==
  ASSUME TotalsInv, UNCHANGED <<now, agy>>, NEW m \in agy.machines,
         NEW used, NEW moved, NEW p, NEW a, NEW stored,
         ChangesTo(tokens, tokens', agy.machines, m, used),
         ChangesTo(misfiled, misfiled', agy.machines, m, moved),
         ChangesTo(push, push', agy.machines, m, p),
         ChangesTo(agent, agent', agy.machines, m, a),
         ChangesTo(totals, totals', agy.machines, m, stored),
         TotalsOf(used, moved, p, a, stored, DayOf(now)),
         \A d \in Days : tokens[m][d] <= used[d] /\ misfiled[m][d] <= moved[d]
  PROVE  TotalsInv' /\ \A x \in agy.machines : Grown(x)
<1>1. ASSUME NEW x \in agy.machines
      PROVE  /\ TotalsOf(tokens'[x], misfiled'[x], push'[x], agent'[x], totals'[x], DayOf(now))
             /\ Grown(x)
  <2>1. CASE x = m
    BY <2>1 DEF ChangesTo, Grown
  <2>2. CASE x # m
    <3>1. /\ tokens'[x] = tokens[x] /\ misfiled'[x] = misfiled[x] /\ push'[x] = push[x]
          /\ agent'[x] = agent[x] /\ totals'[x] = totals[x]
      BY <2>2 DEF ChangesTo
    <3>2. TotalsOf(tokens[x], misfiled[x], push[x], agent[x], totals[x], DayOf(now))
      BY DEF TotalsInv
    <3>3. \A d \in Days : tokens[x][d] <= tokens[x][d] /\ misfiled[x][d] <= misfiled[x][d]
      BY <3>2, GroupConstants DEF TotalsOf
    <3>4. QED
      BY <3>1, <3>2, <3>3 DEF Grown
  <2>3. QED
    BY <2>1, <2>2
<1>2. /\ now' \in Moments
      /\ DOMAIN tokens' = agy'.machines /\ DOMAIN misfiled' = agy'.machines
      /\ DOMAIN push' = agy'.machines /\ DOMAIN agent' = agy'.machines
      /\ DOMAIN totals' = agy'.machines
  BY DEF TotalsInv, ChangesTo
<1>3. DayOf(now)' = DayOf(now)
  BY DEF DayOf
<1>4. QED
  BY <1>1, <1>2, <1>3 DEF TotalsInv

\* What is the case on one day stays so when more was used, and on later days.
LEMMA StillTrue ==
  ASSUME NEW used, NEW moved, NEW p, NEW a, NEW stored, NEW today \in Int,
         TotalsOf(used, moved, p, a, stored, today),
         NEW more \in [Days -> 0..MaxTokens], \A d \in Days : used[d] <= more[d],
         NEW later \in Int, today <= later
  PROVE  TotalsOf(more, moved, p, a, stored, later)
<1>1. /\ used \in [Days -> 0..MaxTokens] /\ moved \in [Days -> 0..MaxTokens] /\ Moved(used, moved)
      /\ DOMAIN p = DOMAIN NoReading
      /\ Reported(p.days, FiledOf(used, moved)) /\ Stored(stored, FiledOf(used, moved))
      /\ Asked(a, used, today)
  BY DEF TotalsOf
<1>2. \A d \in Days : moved[d] <= moved[d] /\ used[d] \in Int /\ more[d] \in Int /\ moved[d] \in Int
  BY <1>1, GroupConstants
<1>3. Reported(p.days, FiledOf(more, moved)) /\ Stored(stored, FiledOf(more, moved))
  BY <1>1, <1>2, StillFiled
<1>4. Moved(more, moved)
  BY <1>1, <1>2 DEF Moved
<1>5. Asked(a, more, later)
  <2>1. Reported(a.days, used) => Reported(a.days, more)
    BY <1>1, MoreUsed
  <2>2. a.day \in Days /\ a.day <= today => a.day <= later
    BY DEF Days
  <2>3. QED
    BY <1>1, <2>1, <2>2 DEF Asked
<1>6. QED
  BY <1>1, <1>3, <1>4, <1>5 DEF TotalsOf

LEMMA TodayIsDay ==
  ASSUME TotalsInv
  PROVE  DayOf(now) \in Days /\ DayOf(now) \in Int
BY DayOfMoment, ClockConstants DEF TotalsInv, Days

LEMMA UseTotals ==
  ASSUME TotalsInv, NEW m \in agy.machines, UseTokens(m), UNCHANGED now
  PROVE  TotalsInv' /\ \A x \in agy.machines : Grown(x)
<1> DEFINE today == DayOf(now)
           more == [tokens[m] EXCEPT ![today] = @ + 1]
<1>1. /\ tokens[m][today] < MaxTokens /\ tokens' = [tokens EXCEPT ![m] = more]
      /\ UNCHANGED <<agy, misfiled, push, agent, totals>>
  BY DEF UseTokens
<1>2. /\ TotalsOf(tokens[m], misfiled[m], push[m], agent[m], totals[m], today)
      /\ today \in Days /\ today \in Int /\ MaxTokens \in Nat
  BY TodayIsDay, GroupConstants DEF TotalsInv
<1>3. tokens[m] \in [Days -> 0..MaxTokens] /\ misfiled[m] \in [Days -> 0..MaxTokens]
  BY <1>2 DEF TotalsOf
<1> HIDE DEF today
<1>4. /\ more \in [Days -> 0..MaxTokens]
      /\ \A d \in Days : tokens[m][d] <= more[d] /\ misfiled[m][d] <= misfiled[m][d]
  BY <1>1, <1>2, <1>3
<1> HIDE DEF more
<1>5. TotalsOf(more, misfiled[m], push[m], agent[m], totals[m], today)
  <2>1. today <= today
    BY <1>2
  <2>2. QED
    BY <1>2, <1>4, <2>1, StillTrue
<1>6. /\ ChangesTo(tokens, tokens', agy.machines, m, more)
      /\ ChangesTo(misfiled, misfiled', agy.machines, m, misfiled[m])
      /\ ChangesTo(push, push', agy.machines, m, push[m])
      /\ ChangesTo(agent, agent', agy.machines, m, agent[m])
      /\ ChangesTo(totals, totals', agy.machines, m, totals[m])
  BY <1>1 DEF ChangesTo, TotalsInv
<1>7. QED
  BY <1>1, <1>4, <1>5, <1>6, MachineStep DEF today

\* A step that changes only the cycle, the push or the rows of a machine.
LEMMA HandsStep ==
  ASSUME TotalsInv, UNCHANGED <<now, agy, tokens, misfiled>>, NEW m \in agy.machines,
         NEW p, NEW a, NEW stored,
         ChangesTo(push, push', agy.machines, m, p),
         ChangesTo(agent, agent', agy.machines, m, a),
         ChangesTo(totals, totals', agy.machines, m, stored),
         DOMAIN p = DOMAIN NoReading, Reported(p.days, FiledOf(tokens[m], misfiled[m])),
         Stored(stored, FiledOf(tokens[m], misfiled[m])), Asked(a, tokens[m], DayOf(now))
  PROVE  TotalsInv' /\ \A x \in agy.machines : Grown(x)
<1>1. /\ tokens[m] \in [Days -> 0..MaxTokens] /\ misfiled[m] \in [Days -> 0..MaxTokens]
      /\ Moved(tokens[m], misfiled[m])
  BY DEF TotalsInv, TotalsOf
<1>2. TotalsOf(tokens[m], misfiled[m], p, a, stored, DayOf(now))
  BY <1>1 DEF TotalsOf
<1>3. \A d \in Days : tokens[m][d] <= tokens[m][d] /\ misfiled[m][d] <= misfiled[m][d]
  BY <1>1, GroupConstants
<1>4. /\ ChangesTo(tokens, tokens', agy.machines, m, tokens[m])
      /\ ChangesTo(misfiled, misfiled', agy.machines, m, misfiled[m])
  BY DEF ChangesTo, TotalsInv
<1>5. QED
  BY <1>2, <1>3, <1>4, MachineStep

\* The push, the cycle and the rows of a machine that a step leaves alone.
LEMMA HandsStay ==
  ASSUME TotalsInv, NEW m \in agy.machines
  PROVE  /\ DOMAIN push[m] = DOMAIN NoReading
         /\ Reported(push[m].days, FiledOf(tokens[m], misfiled[m]))
         /\ Stored(totals[m], FiledOf(tokens[m], misfiled[m]))
         /\ Asked(agent[m], tokens[m], DayOf(now))
         /\ UNCHANGED push => ChangesTo(push, push', agy.machines, m, push[m])
         /\ UNCHANGED agent => ChangesTo(agent, agent', agy.machines, m, agent[m])
         /\ UNCHANGED totals => ChangesTo(totals, totals', agy.machines, m, totals[m])
         /\ \A y : push' = [push EXCEPT ![m] = y] => ChangesTo(push, push', agy.machines, m, y)
         /\ \A y : agent' = [agent EXCEPT ![m] = y] => ChangesTo(agent, agent', agy.machines, m, y)
         /\ \A y : totals' = [totals EXCEPT ![m] = y] => ChangesTo(totals, totals', agy.machines, m, y)
<1>1. TotalsOf(tokens[m], misfiled[m], push[m], agent[m], totals[m], DayOf(now))
  BY DEF TotalsInv
<1>2. QED
  BY <1>1 DEF TotalsInv, TotalsOf, ChangesTo

LEMMA FetchTotals ==
  ASSUME TotalsInv, PushInv, NEW m \in agy.machines, FetchGroups(m), UNCHANGED now
  PROVE  TotalsInv' /\ \A x \in agy.machines : Grown(x)
<1>1. UNCHANGED <<agy, tokens, misfiled, push, totals>>
  BY DEF FetchGroups
<1>2. \E c, host : FromSwitch(m, c) \/ FromCloud(m, c, host)
  BY Zenon DEF FetchGroups
<1>3. \E c, read, at, from : Reads(m, c, read, at, from)
  BY <1>2, Zenon DEF FromSwitch, FromCloud
<1>4. PICK c, read, at, from : Reads(m, c, read, at, from)
  BY <1>3, Zenon
<1> DEFINE d == [NoReading EXCEPT !.step = "read", !.groups = read, !.from = from,
                                  !.read = at, !.at = now]
<1>5. agent' = [agent EXCEPT ![m] = d]
  BY <1>4 DEF Reads
<1>6. Asked(d, tokens[m], DayOf(now))
  <2>1. d.step = "read"
    BY DEF NoReading
  <2>2. QED
    BY <2>1 DEF Asked
<1> HIDE DEF d
<1>7. QED
  BY <1>1, <1>5, <1>6, HandsStay, HandsStep

LEMMA StatsTotals ==
  ASSUME TotalsInv, PushInv, NEW m \in agy.machines, ReadStats(m), UNCHANGED now
  PROVE  TotalsInv' /\ \A x \in agy.machines : Grown(x)
<1>1. UNCHANGED <<agy, tokens, misfiled, push, totals>>
  BY StatsRead
<1>2. PICK y : /\ agent' = [agent EXCEPT ![m] = y]
               /\ y.days \in {<<>>, [d \in {e \in Days : tokens[m][e] > 0} |-> tokens[m][d]]}
               /\ y.day = DayOf(now)
  BY StatsRead
<1>3. tokens[m] \in [Days -> 0..MaxTokens]
  BY DEF TotalsInv, TotalsOf
<1>4. Reported(<<>>, tokens[m])
  BY DEF Reported
<1>5. Reported([d \in {e \in Days : tokens[m][e] > 0} |-> tokens[m][d]], tokens[m])
  BY <1>3, GroupConstants DEF Reported
<1>6. Reported(y.days, tokens[m])
  BY <1>2, <1>4, <1>5
<1>7. Asked(y, tokens[m], DayOf(now))
  BY <1>2, <1>6, TodayIsDay DEF Asked
<1>8. QED
  BY <1>1, <1>2, <1>7, HandsStay, HandsStep

LEMMA WeekBegins ==
  ASSUME NEW day \in Int
  PROVE  WeekStart(day) \in Int /\ WeekStart(day) <= day /\ day - 6 <= WeekStart(day)
BY DEF WeekStart, Weekday

\* What is filed: the days Switch told of, and today what it told of the day it was asked.
LEMMA FiledRecords ==
  ASSUME NEW used, NEW a, NEW today \in Days, Reported(a.days, used),
         a.day \in Days, a.day <= today, NEW d \in DOMAIN Records(a, today)
  PROVE  /\ d \in Days
         /\ d \in DOMAIN a.days => Records(a, today)[d] \in 0..used[d]
         /\ d \notin DOMAIN a.days => a.day < d /\ Records(a, today)[d] \in 0..used[a.day]
<1> DEFINE listed == {e \in DOMAIN a.days : e >= WeekStart(today) - 7}
           filed == IF a.day \in DOMAIN a.days THEN {today} ELSE {}
           days == Records(a, today)
<1>1. days = [e \in listed \cup filed |-> IF e \in listed THEN a.days[e] ELSE a.days[a.day]]
  BY DEF Records
<1>2. d \in listed \/ (d = today /\ a.day \in DOMAIN a.days)
  BY <1>1
<1>3. d \in DOMAIN a.days => d \in listed
  <2>1. today \in Int /\ WeekStart(today) - 7 <= today
    <3>1. today \in Int
      BY DEF Days
    <3>2. QED
      BY <3>1, WeekBegins
  <2>2. today \in DOMAIN a.days => today \in listed
    BY <2>1
  <2>3. QED
    BY <1>2, <2>2
<1>4. days[d] = IF d \in listed THEN a.days[d] ELSE a.days[a.day]
  BY <1>1
<1>5. \A e \in DOMAIN a.days : e \in Days /\ a.days[e] \in 0..used[e]
  BY DEF Reported
<1>6. d \in listed => d \in DOMAIN a.days
  OBVIOUS
<1> HIDE DEF listed, filed, days
<1>7. CASE d \in DOMAIN a.days
  BY <1>3, <1>4, <1>5, <1>7 DEF days
<1>8. CASE d \notin DOMAIN a.days
  <2>1. d = today /\ a.day \in DOMAIN a.days /\ days[d] = a.days[a.day]
    BY <1>2, <1>4, <1>6, <1>8
  <2>2. a.day < d
    BY <1>8, <2>1 DEF Days
  <2>3. QED
    BY <1>5, <1>8, <2>1, <2>2 DEF days
<1>9. QED
  BY <1>7, <1>8

LEMMA PushTotals ==
  ASSUME TotalsInv, PushInv, NEW m \in agy.machines, Push(m), UNCHANGED now
  PROVE  TotalsInv' /\ \A x \in agy.machines : Grown(x)
<1> DEFINE used == tokens[m]
           moved == misfiled[m]
           a == agent[m]
           days == Records(a, DayOf(now))
           late == DOMAIN days \ DOMAIN a.days
           then == [d \in Days |-> IF d \in late /\ days[d] > moved[d] THEN days[d] ELSE moved[d]]
           sent == [a EXCEPT !.step = "sent", !.days = days]
           p == IF a.groups = <<>> /\ days = <<>> THEN push[m] ELSE sent
<1>1. /\ a.step = "dated" /\ UNCHANGED <<agy, tokens, totals>>
      /\ misfiled' = [misfiled EXCEPT ![m] = then] /\ agent' = [agent EXCEPT ![m] = NoReading]
      /\ push' = IF a.groups = <<>> /\ days = <<>> THEN push ELSE [push EXCEPT ![m] = sent]
  BY DEF Push
<1>2. TotalsOf(used, moved, push[m], a, totals[m], DayOf(now))
  BY DEF TotalsInv
<1>3. /\ used \in [Days -> 0..MaxTokens] /\ moved \in [Days -> 0..MaxTokens] /\ Moved(used, moved)
      /\ Reported(a.days, used) /\ a.day \in Days /\ a.day <= DayOf(now) /\ MaxTokens \in Nat
  BY <1>1, <1>2, GroupConstants DEF TotalsOf, Asked
<1>4. DOMAIN sent = DOMAIN NoReading /\ sent.days = days
  BY DEF PushInv, NoReading
<1> HIDE DEF days, sent
<1>5. \A d \in DOMAIN days :
        /\ d \in Days
        /\ d \in DOMAIN a.days => days[d] \in 0..used[d]
        /\ d \notin DOMAIN a.days => a.day < d /\ days[d] \in 0..used[a.day]
  BY <1>3, TodayIsDay, FiledRecords DEF days
<1>6. /\ ChangesTo(tokens, tokens', agy.machines, m, used)
      /\ ChangesTo(misfiled, misfiled', agy.machines, m, then)
      /\ ChangesTo(push, push', agy.machines, m, p)
      /\ ChangesTo(agent, agent', agy.machines, m, NoReading)
      /\ ChangesTo(totals, totals', agy.machines, m, totals[m])
  <2> HIDE DEF late, then
  <2>1. QED
    BY <1>1 DEF ChangesTo, TotalsInv
<1> HIDE DEF used, moved, a
<1>7. \A d \in Days : used[d] \in 0..MaxTokens /\ moved[d] \in 0..MaxTokens
  BY <1>3
<1>8. \A d \in late : d \in Days /\ a.day < d /\ days[d] \in 0..used[a.day] /\ days[d] \in 0..MaxTokens
  BY <1>3, <1>5, <1>7
<1>9. \A d \in Days : then[d] = IF d \in late /\ days[d] > moved[d] THEN days[d] ELSE moved[d]
  OBVIOUS
<1>10. then \in [Days -> 0..MaxTokens]
  BY <1>7, <1>8
<1>11. \A d \in DOMAIN days : d \in late \/ d \in DOMAIN a.days
  OBVIOUS
<1> HIDE DEF late, then, p
<1>12. \A d \in Days : used[d] <= used[d] /\ moved[d] <= then[d]
  <2> SUFFICES ASSUME NEW d \in Days
               PROVE  used[d] <= used[d] /\ moved[d] <= then[d]
    OBVIOUS
  <2>1. used[d] \in Int /\ moved[d] \in Int /\ (d \in late => days[d] \in Int)
    BY <1>3, <1>7, <1>8
  <2>2. QED
    BY <1>9, <2>1
<1>13. Moved(used, then)
  <2> SUFFICES ASSUME NEW d \in Days, then[d] > 0
               PROVE  \E e \in Days : e < d /\ then[d] <= used[e]
    BY DEF Moved
  <2>1. CASE then[d] = moved[d]
    BY <1>3, <2>1 DEF Moved
  <2>2. CASE d \in late /\ then[d] = days[d]
    <3>1. a.day < d /\ days[d] <= used[a.day]
      BY <1>3, <1>7, <1>8, <2>2
    <3>2. QED
      BY <1>3, <2>2, <3>1
  <2>3. QED
    BY <1>9, <2>1, <2>2
<1>14. /\ FiledOf(used, then) \in [Days -> 0..MaxTokens]
       /\ \A d \in Days : used[d] <= FiledOf(used, then)[d] /\ then[d] <= FiledOf(used, then)[d]
  BY <1>3, <1>10, FiledTypes
<1>15. Reported(days, FiledOf(used, then))
  <2> DEFINE all == FiledOf(used, then)
  <2> HIDE DEF all
  <2> SUFFICES ASSUME NEW d \in DOMAIN days
               PROVE  d \in Days /\ days[d] \in 0..all[d]
    BY DEF Reported, all
  <2>1. d \in Days /\ all[d] \in 0..MaxTokens /\ used[d] <= all[d] /\ then[d] <= all[d]
    BY <1>5, <1>14 DEF all
  <2>2. CASE d \in DOMAIN a.days
    <3>1. days[d] \in 0..used[d] /\ used[d] \in Int /\ all[d] \in Int
      BY <1>5, <1>3, <1>7, <2>1, <2>2
    <3>2. QED
      BY <2>1, <3>1
  <2>3. CASE d \in late
    <3>1. days[d] \in 0..MaxTokens /\ moved[d] \in Int /\ all[d] \in Int
      BY <1>3, <1>7, <1>8, <2>1, <2>3
    <3>2. days[d] <= then[d]
      BY <1>9, <2>1, <2>3, <3>1, <1>3
    <3>3. then[d] \in Int
      BY <1>3, <1>10, <2>1
    <3>4. QED
      BY <1>3, <2>1, <3>1, <3>2, <3>3
  <2>4. QED
    BY <1>11, <2>2, <2>3
<1>16. /\ DOMAIN p = DOMAIN NoReading /\ Reported(p.days, FiledOf(used, then))
       /\ Stored(totals[m], FiledOf(used, then))
  <2>1. /\ DOMAIN push[m] = DOMAIN NoReading /\ Reported(push[m].days, FiledOf(used, moved))
        /\ Stored(totals[m], FiledOf(used, moved))
    BY <1>2 DEF TotalsOf
  <2>2. Reported(push[m].days, FiledOf(used, then)) /\ Stored(totals[m], FiledOf(used, then))
    BY <1>3, <1>10, <1>12, <2>1, StillFiled
  <2>3. CASE p = push[m]
    BY <2>1, <2>2, <2>3
  <2>4. CASE p = sent
    BY <1>4, <1>15, <2>2, <2>4
  <2>5. QED
    BY <2>3, <2>4 DEF p
<1>17. Asked(NoReading, used, DayOf(now))
  BY DEF Asked, NoReading
<1>18. TotalsOf(used, then, p, NoReading, totals[m], DayOf(now))
  BY <1>3, <1>10, <1>13, <1>16, <1>17 DEF TotalsOf
<1>19. \A d \in Days : tokens[m][d] <= used[d] /\ misfiled[m][d] <= then[d]
  BY <1>12 DEF used, moved
<1>20. QED
  BY <1>1, <1>6, <1>18, <1>19, MachineStep

LEMMA SaveTotalsOnce ==
  ASSUME TotalsInv, NEW m \in agy.machines, SaveTotals(m), UNCHANGED now
  PROVE  TotalsInv' /\ \A x \in agy.machines : Grown(x)
<1> DEFINE p == push[m]
           all == FiledOf(tokens[m], misfiled[m])
           said == DOMAIN p.days
           rowOf(d) == [key |-> DayKey(p, d), day |-> d, total |-> p.days[d]]
           old == {row \in totals[m] : row.key \notin {DayKey(p, d) : d \in said}}
           stored == old \cup {rowOf(d) : d \in said}
           saved == [p EXCEPT !.step = "saved"]
<1>1. /\ totals' = [totals EXCEPT ![m] = stored] /\ push' = [push EXCEPT ![m] = saved]
      /\ UNCHANGED <<agy, tokens, misfiled, agent>>
  BY DEF SaveTotals
<1>2. Reported(p.days, all) /\ Stored(totals[m], all) /\ DOMAIN p = DOMAIN NoReading
  BY HandsStay
<1>3. saved.days = p.days /\ DOMAIN saved = DOMAIN NoReading
  BY <1>2 DEF NoReading
<1> HIDE DEF all
<1>4. \A d \in said : rowOf(d).key = d /\ rowOf(d).day = d /\ d \in Days /\ rowOf(d).total \in 0..all[d]
  BY <1>2 DEF Reported, DayKey
<1>5. \A row \in old : row \in totals[m] /\ \A d \in said : row.key # d
  BY DEF DayKey
<1> HIDE DEF saved, rowOf, old, said
<1>6. Stored(stored, all)
  <2>1. ASSUME NEW row \in stored
        PROVE  row.key = row.day /\ row.day \in Days /\ row.total \in 0..all[row.day]
    BY <1>2, <1>4, <1>5 DEF Stored
  <2>2. ASSUME NEW row \in stored, NEW other \in stored, row.key = other.key
        PROVE  row = other
    <3>1. CASE row \in old /\ other \in old
      BY <1>2, <1>5, <2>2, <3>1 DEF Stored
    <3>2. CASE row \in old /\ other \notin old
      BY <1>4, <1>5, <2>2, <3>2
    <3>3. CASE row \notin old /\ other \in old
      BY <1>4, <1>5, <2>2, <3>3
    <3>4. CASE row \notin old /\ other \notin old
      BY <1>4, <2>2, <3>4
    <3>5. QED
      BY <3>1, <3>2, <3>3, <3>4
  <2>3. QED
    BY <2>1, <2>2 DEF Stored
<1> HIDE DEF stored, p
<1>7. /\ ChangesTo(totals, totals', agy.machines, m, stored)
      /\ ChangesTo(push, push', agy.machines, m, saved)
      /\ ChangesTo(agent, agent', agy.machines, m, agent[m])
      /\ Asked(agent[m], tokens[m], DayOf(now))
  BY <1>1, HandsStay
<1>8. Reported(saved.days, all) /\ DOMAIN saved = DOMAIN NoReading
  BY <1>2, <1>3
<1>9. QED
  BY <1>1, <1>6, <1>7, <1>8, HandsStep DEF all

LEMMA PushDropped ==
  ASSUME TotalsInv, NEW m \in agy.machines, push' = [push EXCEPT ![m] = NoReading],
         UNCHANGED <<now, agy, tokens, misfiled, agent, totals>>
  PROVE  TotalsInv' /\ \A x \in agy.machines : Grown(x)
<1>1. DOMAIN NoReading = DOMAIN NoReading /\ NoReading.days = <<>> /\ \A used : Reported(<<>>, used)
  BY DEF NoReading, Reported
<1>2. Reported(NoReading.days, FiledOf(tokens[m], misfiled[m]))
  BY <1>1
<1>3. /\ ChangesTo(push, push', agy.machines, m, NoReading)
      /\ ChangesTo(agent, agent', agy.machines, m, agent[m])
      /\ ChangesTo(totals, totals', agy.machines, m, totals[m])
      /\ Stored(totals[m], FiledOf(tokens[m], misfiled[m])) /\ Asked(agent[m], tokens[m], DayOf(now))
  BY HandsStay
<1>4. QED
  BY <1>1, <1>2, <1>3, HandsStep

LEMMA DaysPass ==
  ASSUME NEW t \in Moments, NEW u \in Moments, t <= u
  PROVE  DayOf(t) \in Int /\ DayOf(u) \in Int /\ DayOf(t) <= DayOf(u)
<1>1. /\ t \in Nat /\ u \in Nat /\ DayLength \in Nat \ {0} /\ FirstDay \in Int
  BY ClockConstants DEF Moments
<1>2. t \div DayLength \in Nat /\ u \div DayLength \in Nat /\ t \div DayLength <= u \div DayLength
  <2>1. u <= u
    BY <1>1
  <2>2. QED
    BY <1>1, <2>1, DivisionGrows
<1> DEFINE k == t \div DayLength
           l == u \div DayLength
<1>3. DayOf(t) = FirstDay + k /\ DayOf(u) = FirstDay + l
  BY DEF DayOf
<1>4. k \in Nat /\ l \in Nat /\ k <= l
  BY <1>2
<1> HIDE DEF k, l
<1>5. QED
  BY <1>1, <1>3, <1>4

\* Of what was said nothing becomes wrong as time passes.
LEMMA TotalsWait ==
  ASSUME TotalsInv, [Next]_vars, UNCHANGED <<agy, tokens, misfiled, push, agent, totals>>
  PROVE  TotalsInv' /\ \A x \in agy.machines : Grown(x)
<1> DEFINE today == DayOf(now)
           later == DayOf(now')
<1>1. now \in Moments /\ now' \in Moments /\ now <= now'
  <2>1. now \in Moments /\ now' \in Moments
    BY MomentStays DEF TotalsInv
  <2>2. now' = now \/ now' = now + 1
    BY ClockStep DEF Time, Tick
  <2>3. QED
    BY <2>1, <2>2, ClockConstants DEF Moments
<1>2. today \in Int /\ later \in Int /\ today <= later
  BY <1>1, DaysPass
<1>3. later = DayOf(now)'
  BY DEF DayOf
<1> HIDE DEF today, later
<1>4. ASSUME NEW x \in agy.machines
      PROVE  TotalsOf(tokens[x], misfiled[x], push[x], agent[x], totals[x], later) /\ Grown(x)
  <2>1. TotalsOf(tokens[x], misfiled[x], push[x], agent[x], totals[x], today)
    BY DEF TotalsInv, today
  <2>2. tokens[x] \in [Days -> 0..MaxTokens] /\ misfiled[x] \in [Days -> 0..MaxTokens]
    BY <2>1 DEF TotalsOf
  <2>3. \A d \in Days : tokens[x][d] <= tokens[x][d] /\ misfiled[x][d] <= misfiled[x][d]
    BY <2>2, GroupConstants
  <2>4. Grown(x)
    BY <2>3 DEF Grown
  <2>5. QED
    BY <1>2, <2>1, <2>2, <2>3, <2>4, StillTrue
<1>5. QED
  BY <1>1, <1>3, <1>4 DEF TotalsInv

\* What can have been filed under each day on each machine.
AllFiled == [m \in agy.machines |-> FiledOf(tokens[m], misfiled[m])]

LEMMA FiledAreTokens ==
  ASSUME TotalsInv, NEW x \in agy.machines
  PROVE  AllFiled[x] \in [Days -> 0..MaxTokens] /\ \A d \in Days : AllFiled[x][d] \in Nat
<1>1. tokens[x] \in [Days -> 0..MaxTokens] /\ misfiled[x] \in [Days -> 0..MaxTokens]
  BY DEF TotalsInv, TotalsOf
<1>2. FiledOf(tokens[x], misfiled[x]) \in [Days -> 0..MaxTokens]
  BY <1>1, FiledTypes
<1>3. AllFiled[x] = FiledOf(tokens[x], misfiled[x])
  BY DEF AllFiled
<1>4. QED
  BY <1>2, <1>3, GroupConstants

LEMMA TotalsStep ==
  ASSUME TotalsInv, PushInv, [Next]_vars
  PROVE  /\ TotalsInv' /\ agy' = agy
         /\ \A x \in agy.machines, d \in Days :
              AllFiled[x][d] \in Nat /\ AllFiled'[x][d] \in Nat /\ AllFiled[x][d] <= AllFiled'[x][d]
<1>1. agy' = agy
  BY AgyStays
<1>2. TotalsInv' /\ \A x \in agy.machines : Grown(x)
  <2>1. CASE UNCHANGED <<tokens, misfiled, push, agent, totals>>
    BY <1>1, <2>1, TotalsWait
  <2>2. ASSUME NEW m \in agy.machines, UNCHANGED now, UseTokens(m)
        PROVE  TotalsInv' /\ \A x \in agy.machines : Grown(x)
    BY <2>2, UseTotals
  <2>3. ASSUME NEW m \in agy.machines, UNCHANGED now, FetchGroups(m) \/ ReadStats(m) \/ Push(m)
        PROVE  TotalsInv' /\ \A x \in agy.machines : Grown(x)
    BY <2>3, FetchTotals, StatsTotals, PushTotals
  <2>4. ASSUME NEW m \in agy.machines, UNCHANGED now, Lose(m) \/ SaveTotals(m) \/ ReplaceGroups(m)
        PROVE  TotalsInv' /\ \A x \in agy.machines : Grown(x)
    <3>1. CASE Lose(m) \/ ReplaceGroups(m)
      BY <1>1, <2>4, <3>1, PushDropped DEF Lose, ReplaceGroups
    <3>2. CASE SaveTotals(m)
      BY <2>4, <3>2, SaveTotalsOnce
    <3>3. QED
      BY <2>4, <3>1, <3>2
  <2>5. \/ UNCHANGED <<tokens, misfiled, push, agent, totals>>
        \/ /\ UNCHANGED now
           /\ \E m \in agy.machines :
                \/ UseTokens(m) \/ FetchGroups(m) \/ ReadStats(m) \/ Push(m)
                \/ Lose(m) \/ SaveTotals(m) \/ ReplaceGroups(m)
    BY Zenon DEF Next, Time, CPA, Antigravity, CollectGroups, vars, agyVars
  <2>6. QED
    BY <2>1, <2>2, <2>3, <2>4, <2>5
<1>3. ASSUME NEW x \in agy.machines
      PROVE  \A d \in Days :
               AllFiled[x][d] \in Nat /\ AllFiled'[x][d] \in Nat /\ AllFiled[x][d] <= AllFiled'[x][d]
  <2> DEFINE used == tokens[x]
             moved == misfiled[x]
             more == tokens'[x]
             then == misfiled'[x]
  <2>1. used \in [Days -> 0..MaxTokens] /\ moved \in [Days -> 0..MaxTokens]
    BY DEF TotalsInv, TotalsOf
  <2>2. more \in [Days -> 0..MaxTokens] /\ then \in [Days -> 0..MaxTokens]
    BY <1>1, <1>2 DEF TotalsInv, TotalsOf
  <2>3. \A d \in Days : used[d] <= more[d] /\ moved[d] <= then[d]
    BY <1>2 DEF Grown
  <2>4. AllFiled[x] = FiledOf(used, moved) /\ AllFiled'[x] = FiledOf(more, then)
    BY <1>1 DEF AllFiled, FiledOf
  <2> HIDE DEF used, moved, more, then
  <2>5. \A d \in Days : FiledOf(used, moved)[d] <= FiledOf(more, then)[d]
    BY <2>1, <2>2, <2>3, FiledGrows
  <2>6. FiledOf(used, moved) \in [Days -> 0..MaxTokens] /\ FiledOf(more, then) \in [Days -> 0..MaxTokens]
    BY <2>1, <2>2, FiledTypes
  <2>7. QED
    BY <2>4, <2>5, <2>6, GroupConstants
<1>4. QED
  BY <1>1, <1>2, <1>3

LEMMA TotalsHold == Spec => []PushInv /\ []TotalsInv
<1>1. Init => PushInv /\ TotalsInv
  BY PushInit, TotalsInit
<1>2. PushInv /\ TotalsInv /\ [Next]_vars => (PushInv /\ TotalsInv)'
  BY PushStep, TotalsStep
<1>3. QED
  BY <1>1, <1>2, PTL DEF Spec

\* The types of the panel hold, with the lock, the cache and the batches of the collects,
\* the rows of the requests and the totals of the machines within their bounds.
THEOREM TypesHold == Spec => []TypeOK
<1>1. Delivered /\ CollectInv /\ TotalsInv => TypeOK
  <2> SUFFICES ASSUME Delivered, CollectInv, TotalsInv
               PROVE  TypeOK
    OBVIOUS
  <2>1. /\ now \in Moments /\ lock \in Run \cup {"free"}
        /\ quota.at \in Moments \cup {Never} /\ quota.err \in BOOLEAN
        /\ \A r \in Run : drain[r].left \in 0..MaxBatches /\ Cardinality(drain[r].batch) <= BatchSize
    BY DEF CollectInv, CollectOf
  <2>2. \A row \in rows : row.record \in made
    BY DEF Delivered
  <2>3. ASSUME NEW m \in agy.machines, NEW row \in totals[m]
        PROVE  row.day \in Days /\ row.total \in 0..MaxTokens
    <3> DEFINE all == FiledOf(tokens[m], misfiled[m])
    <3>1. /\ tokens[m] \in [Days -> 0..MaxTokens] /\ misfiled[m] \in [Days -> 0..MaxTokens]
          /\ Stored(totals[m], all)
      BY DEF TotalsInv, TotalsOf
    <3>2. all \in [Days -> 0..MaxTokens]
      BY <3>1, FiledTypes
    <3> HIDE DEF all
    <3>3. row.day \in Days /\ row.total \in 0..all[row.day]
      BY <3>1 DEF Stored
    <3>4. all[row.day] \in 0..MaxTokens /\ MaxTokens \in Nat
      BY <3>2, <3>3, GroupConstants
    <3>5. QED
      BY <3>3, <3>4
  <2>4. QED
    BY <2>1, <2>2, <2>3 DEF TypeOK
<1>2. RecordInv => Delivered
  BY DEF RecordInv
<1>3. QED
  BY <1>1, <1>2, CollectsHold, TotalsHold, PTL

---------------------------------------------------------------------------
(* The figures of Antigravity.                                             *)

\* The tokens of the days from one to another, on the machines, by what is said of them.
UsedOn(used, machines, from, to) ==
  SumFunction([p \in machines \X (Days \cap (from..to)) |-> used[p[1]][p[2]]])

\* What the panel shows are figures of what was reported, and items of quotas, or those alone.
FiguresWithin(snapshot, used, machines) ==
  LET today == DayOf(snapshot.at)
  IN  \E q : /\ q \in Seq(Range(q)) /\ \A i \in Range(q) : IsQuota(i)
             /\ \/ snapshot.items = q
                \/ \E t, w \in Nat :
                     /\ snapshot.items = Figures("antigravity", today, t, w) \o q
                     /\ t <= UsedOn(used, machines, today, today)
                     /\ w <= UsedOn(used, machines, WeekStart(today), today)
                     /\ t <= w

FiguresInv == FiguresWithin(gemini, AllFiled, agy.machines)

\* The more is said of the days, the greater the sum.
LEMMA UsedGrows ==
  ASSUME NEW machines, IsFiniteSet(machines), NEW from \in Int, NEW to \in Int, NEW used, NEW more,
         \A m \in machines, d \in Days :
           used[m][d] \in Nat /\ more[m][d] \in Nat /\ used[m][d] <= more[m][d]
  PROVE  UsedOn(used, machines, from, to) <= UsedOn(more, machines, from, to)
<1> DEFINE S == machines \X (Days \cap (from..to))
           v == [p \in S |-> used[p[1]][p[2]]]
           w == [p \in S |-> more[p[1]][p[2]]]
           h == [p \in S |-> p]
<1>1. IsFiniteSet(S)
  <2>1. IsFiniteSet(from..to)
    BY FS_Interval
  <2>2. IsFiniteSet(Days \cap (from..to))
    BY <2>1, FS_Intersection
  <2>3. QED
    BY <2>2, FS_Product
<1>2. \A p \in S : v[p] \in Nat /\ w[p] \in Nat /\ v[p] <= w[p] /\ h[p] = p
  <2>1. \A p \in S : p[1] \in machines /\ p[2] \in Days
    OBVIOUS
  <2>2. QED
    BY <2>1
<1>3. UsedOn(used, machines, from, to) = SumFunctionOnSet(v, S)
        /\ UsedOn(more, machines, from, to) = SumFunctionOnSet(w, S)
  <2>1. DOMAIN v = S /\ DOMAIN w = S
    OBVIOUS
  <2>2. UsedOn(used, machines, from, to) = SumFunction(v) /\ UsedOn(more, machines, from, to) = SumFunction(w)
    BY DEF UsedOn
  <2> HIDE DEF v, w, S
  <2>3. QED
    BY <2>1, <2>2, SumOfAll
<1> HIDE DEF S, v, w, h
<1>4. \A p \in S : v[p] \in Int /\ w[p] \in Nat /\ h[p] \in S /\ v[p] <= w[h[p]]
  BY <1>2
<1>5. \A p, q \in S : h[p] = h[q] => p = q
  BY <1>2
<1>6. QED
  BY <1>1, <1>3, <1>4, <1>5, SumWithin

\* They are numbers.
LEMMA UsedIsNat ==
  ASSUME NEW machines, IsFiniteSet(machines), NEW from \in Int, NEW to \in Int, NEW used,
         \A m \in machines, d \in Days : used[m][d] \in Nat
  PROVE  UsedOn(used, machines, from, to) \in Nat
<1> DEFINE S == machines \X (Days \cap (from..to))
           v == [p \in S |-> used[p[1]][p[2]]]
<1>1. IsFiniteSet(S)
  BY FS_Interval, FS_Intersection, FS_Product
<1>2. ASSUME NEW p \in S PROVE v[p] \in Nat
  <2>1. p[1] \in machines /\ p[2] \in Days
    OBVIOUS
  <2>2. QED
    BY <2>1
<1>3. UsedOn(used, machines, from, to) = SumFunction(v) /\ DOMAIN v = S
  BY DEF UsedOn
<1> HIDE DEF S, v
<1>4. QED
  BY <1>1, <1>2, <1>3, SumOfAll, SumIsNat

\* The totals stored for some days, and their sum.
RowsOn(from, to) ==
  {p \in UNION {totals[m] \X {m} : m \in agy.machines} : p[1].day \in from..to}

SumOn(from, to) == SumFunction([p \in RowsOn(from, to) |-> p[1].total])

LEMMA SumOnTokens ==
  ASSUME TotalsInv, IsFiniteSet(agy.machines), NEW from \in Int, NEW to \in Int
  PROVE  /\ IsFiniteSet(RowsOn(from, to)) /\ \A p \in RowsOn(from, to) : p[1].total \in Nat
         /\ SumOn(from, to) \in Nat
         /\ SumOn(from, to) <= UsedOn(AllFiled, agy.machines, from, to)
<1> DEFINE S == RowsOn(from, to)
           T == agy.machines \X (Days \cap (from..to))
           v == [p \in S |-> p[1].total]
           w == [p \in T |-> AllFiled[p[1]][p[2]]]
           h == [p \in S |-> <<p[2], p[1].day>>]
<1>1. ASSUME NEW p \in S
      PROVE  /\ p[2] \in agy.machines /\ p[1] \in totals[p[2]] /\ p[1].day \in from..to
             /\ p = <<p[1], p[2]>>
  BY DEF RowsOn
<1>2. ASSUME NEW p \in S
      PROVE  /\ p[1].key = p[1].day /\ p[1].day \in Days /\ AllFiled[p[2]][p[1].day] \in Nat
             /\ p[1].total \in Nat /\ p[1].total <= AllFiled[p[2]][p[1].day]
  <2>0. Stored(totals[p[2]], AllFiled[p[2]])
    BY <1>1 DEF TotalsInv, TotalsOf, AllFiled
  <2>1. p[1].key = p[1].day /\ p[1].day \in Days /\ p[1].total \in 0..AllFiled[p[2]][p[1].day]
    BY <1>1, <2>0 DEF Stored
  <2>2. AllFiled[p[2]] \in [Days -> 0..MaxTokens]
    BY <1>1, FiledAreTokens
  <2>3. AllFiled[p[2]][p[1].day] \in Nat
    BY <2>1, <2>2, GroupConstants
  <2>4. QED
    BY <2>1, <2>3
<1>3. ASSUME NEW p \in S, NEW q \in S, h[p] = h[q]
      PROVE  p = q
  <2>1. p[2] = q[2] /\ p[1].day = q[1].day
    BY <1>3
  <2>2. p[1].key = q[1].key /\ p[1] \in totals[p[2]] /\ q[1] \in totals[p[2]] /\ p[2] \in agy.machines
    BY <1>1, <1>2, <2>1
  <2>3. p[1] = q[1]
    <3>1. Stored(totals[p[2]], AllFiled[p[2]])
      BY <2>2 DEF TotalsInv, TotalsOf, AllFiled
    <3>2. QED
      BY <2>2, <3>1 DEF Stored
  <2>4. QED
    BY <1>1, <2>1, <2>3
<1>4. ASSUME NEW p \in S
      PROVE  h[p] \in T /\ v[p] \in Nat /\ v[p] <= w[h[p]]
  <2> DEFINE k == <<p[2], p[1].day>>
  <2>1. k \in T /\ k[1] = p[2] /\ k[2] = p[1].day
    BY <1>1, <1>2
  <2>2. h[p] = k /\ v[p] = p[1].total
    OBVIOUS
  <2> HIDE DEF k
  <2>3. w[k] = AllFiled[p[2]][p[1].day]
    BY <2>1
  <2> HIDE DEF S, T, v, w, h
  <2>4. QED
    BY <1>2, <2>1, <2>2, <2>3
<1>5. IsFiniteSet(T)
  BY FS_Interval, FS_Intersection, FS_Product
<1>6. \A p \in T : w[p] \in Nat
  <2> SUFFICES ASSUME NEW p \in T PROVE AllFiled[p[1]][p[2]] \in Nat
    OBVIOUS
  <2>1. p[1] \in agy.machines /\ p[2] \in Days
    OBVIOUS
  <2>2. AllFiled[p[1]] \in [Days -> 0..MaxTokens]
    BY <2>1, FiledAreTokens
  <2>3. QED
    BY <2>1, <2>2, GroupConstants
<1>7. DOMAIN h = S /\ DOMAIN v = S /\ DOMAIN w = T /\ h = [p \in S |-> h[p]]
  OBVIOUS
<1>8. SumOn(from, to) = SumFunction(v) /\ UsedOn(AllFiled, agy.machines, from, to) = SumFunction(w)
  BY DEF SumOn, UsedOn
<1>9. \A p \in S : p[1].total \in Nat
  BY <1>2
<1> HIDE DEF S, T, v, w, h
<1>10. IsFiniteSet(S)
  <2>1. h \in Injection(S, T)
    BY <1>3, <1>4, <1>7 DEF Injection, IsInjective
  <2>2. QED
    BY <1>5, <2>1, FS_Injection
<1>11. SumFunction(v) = SumFunctionOnSet(v, S) /\ SumFunction(w) = SumFunctionOnSet(w, T)
  BY <1>7, SumOfAll
<1>12. SumFunctionOnSet(v, S) \in Nat
  BY <1>4, <1>10, SumIsNat
<1>13. SumFunctionOnSet(v, S) <= SumFunctionOnSet(w, T)
  <2>1. \A p \in S : v[p] \in Int
    BY <1>4
  <2>2. QED
    BY <1>3, <1>4, <1>5, <1>6, <1>10, <2>1, SumWithin
<1>14. QED
  BY <1>8, <1>9, <1>10, <1>11, <1>12, <1>13 DEF S

\* The sum of more days is not smaller.
LEMMA MoreDays ==
  ASSUME TotalsInv, IsFiniteSet(agy.machines), NEW from \in Int, NEW to \in Int, from <= to
  PROVE  SumOn(to, to) <= SumOn(from, to)
<1> DEFINE S == RowsOn(to, to)
           T == RowsOn(from, to)
           v == [p \in S |-> p[1].total]
           w == [p \in T |-> p[1].total]
           h == [p \in S |-> p]
<1>1. S \subseteq T
  BY DEF RowsOn
<1>2. /\ IsFiniteSet(S) /\ IsFiniteSet(T)
      /\ (\A p \in S : p[1].total \in Nat) /\ \A p \in T : p[1].total \in Nat
  BY SumOnTokens
<1>3. \A p \in S : h[p] = p /\ p \in T /\ v[p] \in Nat /\ v[p] = w[p]
  BY <1>1, <1>2
<1>4. \A p \in T : w[p] \in Nat
  BY <1>2
<1>5. SumOn(to, to) = SumFunction(v) /\ SumOn(from, to) = SumFunction(w) /\ DOMAIN v = S /\ DOMAIN w = T
  BY DEF SumOn
<1> HIDE DEF S, T, v, w, h
<1>6. SumFunction(v) = SumFunctionOnSet(v, S) /\ SumFunction(w) = SumFunctionOnSet(w, T)
  BY <1>5, SumOfAll
<1>7. SumFunctionOnSet(v, S) <= SumFunctionOnSet(w, T)
  <2>1. \A p \in S : v[p] \in Int /\ h[p] \in T /\ v[p] <= w[h[p]]
    BY <1>3
  <2>2. \A p, q \in S : h[p] = h[q] => p = q
    BY <1>3
  <2>3. QED
    BY <1>2, <1>4, <2>1, <2>2, SumWithin
<1>8. QED
  BY <1>5, <1>6, <1>7

LEMMA TotalsShown ==
  ASSUME TotalsInv, IsFiniteSet(agy.machines), NEW today, today = DayOf(now)
  PROVE  \/ TotalItems = <<>>
         \/ \E t, w \in Nat : /\ TotalItems = Figures("antigravity", today, t, w)
                              /\ t <= UsedOn(AllFiled, agy.machines, today, today)
                              /\ w <= UsedOn(AllFiled, agy.machines, WeekStart(today), today)
                              /\ t <= w
<1>1. today \in Int /\ WeekStart(today) \in Int /\ WeekStart(today) <= today
  <2>1. today \in Int
    BY DayOfMoment, ClockConstants DEF TotalsInv, Days
  <2>2. QED
    BY <2>1, WeekBegins
<1>2. \/ TotalItems = <<>>
      \/ TotalItems = Figures("antigravity", today, SumOn(today, today), SumOn(WeekStart(today), today))
  BY DEF TotalItems, Figures, SumOn, RowsOn
<1>3. /\ SumOn(today, today) \in Nat /\ SumOn(WeekStart(today), today) \in Nat
      /\ SumOn(today, today) <= UsedOn(AllFiled, agy.machines, today, today)
      /\ SumOn(WeekStart(today), today) <= UsedOn(AllFiled, agy.machines, WeekStart(today), today)
      /\ SumOn(today, today) <= SumOn(WeekStart(today), today)
  BY <1>1, SumOnTokens, MoreDays
<1>4. QED
  BY <1>2, <1>3

LEMMA FiguresInit == Init => FiguresInv
<1>1. Init => gemini.items = <<>>
  BY DEF Init, GroupsInit
<1>2. <<>> \in Seq(Range(<<>>)) /\ \A i \in Range(<<>>) : IsQuota(i)
  BY DEF Range
<1>3. QED
  BY <1>1, <1>2 DEF FiguresInv, FiguresWithin

\* A collect shows the totals, and then items of quotas.
LEMMA CollectItems ==
  ASSUME CollectGroups
  PROVE  \E q : /\ q \in Seq(Range(q)) /\ \A i \in Range(q) : IsQuota(i)
                /\ gemini'.items = TotalItems \o q /\ gemini'.at = now
<1> DEFINE latest == {n \in DOMAIN Group : Latest(Group[n]) # {}}
           names == Picked(Group, latest)
           reportsOf(from) == [n \in DOMAIN names |-> ReportOf(from[n], names[n])]
           shownOf(from) == [n \in DOMAIN names |-> [name |-> names[n], read |-> groups[from[n]].read,
                                                     from |-> groups[from[n]].from]]
           snapshotOf(from) == [status |-> "ok", at |-> now, shown |-> shownOf(from),
                                items |-> TotalItems \o QuotaItems(reportsOf(from))]
<1>0. PICK from \in [DOMAIN names -> agy.machines] : gemini' = snapshotOf(from)
  BY Zenon DEF CollectGroups
<1>1. gemini'.items = TotalItems \o QuotaItems(reportsOf(from)) /\ gemini'.at = now
  BY <1>0
<1>2. latest \in SUBSET (1..Len(Group)) /\ latest \in SUBSET Nat /\ Len(Group) \in Nat
  BY GroupConstants
<1> HIDE DEF latest
<1>3. IsFiniteSet(latest)
  BY <1>2, Within
<1> DEFINE l == Cardinality(latest)
<1>4. l \in Nat /\ DOMAIN names = 1..l
  BY <1>2, <1>3, PickedRange
<1> HIDE DEF names, l
<1> DEFINE reports == reportsOf(from)
<1>5. DOMAIN reports = 1..l /\ reports = [n \in 1..l |-> reports[n]]
  BY <1>4
<1>6. \A n \in DOMAIN reports : reports[n] \in Range(reports)
  BY DEF Range
<1> HIDE DEF reports
<1>7. reports \in Seq(Range(reports))
  BY <1>4, <1>5, <1>6
<1> DEFINE q == QuotaItems(reports)
<1>8. /\ q \in Seq(Range(q))
      /\ \A i : i \in Range(q) <=> \E n \in DOMAIN reports : IsItemOf(i, reports[n], now)
  BY <1>7, ItemsOfReports
<1>9. \A i \in Range(q) : IsQuota(i)
  BY <1>8 DEF IsItemOf, QuotaItem, IsQuota
<1>10. gemini'.items = TotalItems \o q
  BY <1>1 DEF reports
<1>11. QED
  BY <1>1, <1>8, <1>9, <1>10

LEMMA FiguresStep ==
  ASSUME ReadInv, TotalsInv, ShownInv, PushInv, FiguresInv, [Next]_vars
  PROVE  FiguresInv'
<1>1. /\ TotalsInv' /\ agy' = agy
      /\ \A x \in agy.machines, d \in Days :
           AllFiled[x][d] \in Nat /\ AllFiled'[x][d] \in Nat /\ AllFiled[x][d] <= AllFiled'[x][d]
  BY TotalsStep
<1>2. IsFiniteSet(agy.machines)
  BY SetupConstants DEF ReadInv
<1>4. ASSUME NEW from \in Int, NEW to \in Int
      PROVE  UsedOn(AllFiled, agy.machines, from, to) <= UsedOn(AllFiled', agy.machines, from, to)
  BY <1>1, <1>2, UsedGrows
<1>5. ASSUME NEW from \in Int, NEW to \in Int
      PROVE  UsedOn(AllFiled, agy.machines, from, to) \in Nat /\ UsedOn(AllFiled', agy.machines, from, to) \in Nat
  BY <1>1, <1>2, UsedIsNat
<1>6. CASE gemini' = gemini
  <2> DEFINE today == DayOf(gemini.at)
  <2>1. today \in Int /\ WeekStart(today) \in Int
    <3>1. today \in Days
      BY DayOfMoment DEF ShownInv, Shows
    <3> HIDE DEF today
    <3>2. QED
      BY <3>1, WeekBegins DEF Days
  <2> HIDE DEF today
  <2>2. /\ UsedOn(AllFiled, agy.machines, today, today) <= UsedOn(AllFiled', agy.machines, today, today)
        /\ UsedOn(AllFiled, agy.machines, WeekStart(today), today)
             <= UsedOn(AllFiled', agy.machines, WeekStart(today), today)
    BY <1>4, <2>1
  <2>3. PICK q : /\ q \in Seq(Range(q)) /\ \A i \in Range(q) : IsQuota(i)
                 /\ \/ gemini.items = q
                    \/ \E t, w \in Nat :
                         /\ gemini.items = Figures("antigravity", today, t, w) \o q
                         /\ t <= UsedOn(AllFiled, agy.machines, today, today)
                         /\ w <= UsedOn(AllFiled, agy.machines, WeekStart(today), today)
                         /\ t <= w
    BY DEF FiguresInv, FiguresWithin, today
  <2>4. CASE gemini.items = q
    BY <1>6, <2>3, <2>4 DEF FiguresInv, FiguresWithin
  <2>5. ASSUME NEW t \in Nat, NEW w \in Nat, gemini.items = Figures("antigravity", today, t, w) \o q,
               t <= UsedOn(AllFiled, agy.machines, today, today),
               w <= UsedOn(AllFiled, agy.machines, WeekStart(today), today), t <= w
        PROVE  FiguresInv'
    <3>0. /\ UsedOn(AllFiled, agy.machines, today, today) \in Nat
          /\ UsedOn(AllFiled', agy.machines, today, today) \in Nat
          /\ UsedOn(AllFiled, agy.machines, WeekStart(today), today) \in Nat
          /\ UsedOn(AllFiled', agy.machines, WeekStart(today), today) \in Nat
      BY <1>5, <2>1
    <3>1. t <= UsedOn(AllFiled', agy.machines, today, today)
            /\ w <= UsedOn(AllFiled', agy.machines, WeekStart(today), today)
      BY <2>2, <2>5, <3>0
    <3>2. FiguresWithin(gemini, AllFiled', agy.machines)
      BY <2>3, <2>5, <3>1 DEF FiguresWithin, today
    <3>3. QED
      BY <1>1, <1>6, <3>2 DEF FiguresInv
  <2>6. QED
    BY <2>3, <2>4, <2>5
<1>7. CASE CollectGroups
  <2> DEFINE today == DayOf(now)
  <2>1. AllFiled' = AllFiled /\ gemini'.at = now
    <3>1. UNCHANGED <<agy, tokens, misfiled>>
      BY <1>7 DEF CollectGroups
    <3>2. QED
      BY <1>7, <3>1, CollectItems DEF AllFiled
  <2>2. PICK q : /\ q \in Seq(Range(q)) /\ \A i \in Range(q) : IsQuota(i)
                 /\ gemini'.items = TotalItems \o q
    BY <1>7, CollectItems
  <2>3. \/ TotalItems = <<>>
        \/ \E t, w \in Nat : /\ TotalItems = Figures("antigravity", today, t, w)
                             /\ t <= UsedOn(AllFiled, agy.machines, today, today)
                             /\ w <= UsedOn(AllFiled, agy.machines, WeekStart(today), today)
                             /\ t <= w
    BY <1>2, TotalsShown
  <2>4. <<>> \o q = q
    BY <2>2
  <2> HIDE DEF today
  <2>5. \/ gemini'.items = q
        \/ \E t, w \in Nat :
             /\ gemini'.items = Figures("antigravity", today, t, w) \o q
             /\ t <= UsedOn(AllFiled, agy.machines, today, today)
             /\ w <= UsedOn(AllFiled, agy.machines, WeekStart(today), today)
             /\ t <= w
    BY <2>2, <2>3, <2>4
  <2>6. FiguresWithin(gemini', AllFiled, agy.machines)
    BY <2>1, <2>2, <2>5 DEF FiguresWithin, today
  <2>7. QED
    BY <1>1, <2>1, <2>6 DEF FiguresInv
<1>8. gemini' = gemini \/ CollectGroups
  BY Zenon DEF Next, Time, CPA, Antigravity, FetchGroups, ReadStats, Push, Lose, SaveTotals, ReplaceGroups,
     UseTokens, vars, agyVars
<1>9. QED
  BY <1>6, <1>7, <1>8

LEMMA UsedIsFiled ==
  ASSUME NEW from, NEW to
  PROVE  Used(from, to) = UsedOn(AllFiled, agy.machines, from, to)
<1> DEFINE S == agy.machines \X (Days \cap (from..to))
<1>1. \A p \in S : Reportable(p[1], p[2]) = AllFiled[p[1]][p[2]]
  BY DEF Reportable, AllFiled, FiledOf
<1>2. [p \in S |-> Reportable(p[1], p[2])] = [p \in S |-> AllFiled[p[1]][p[2]]]
  BY <1>1
<1>3. QED
  BY <1>2 DEF Used, UsedOn

LEMMA FiguresCounted == TotalsInv /\ FiguresInv => TokensCountedOnce
<1>0. ASSUME TotalsInv, NEW m \in agy.machines, NEW d \in Days, misfiled[m][d] > 0
      PROVE  \E e \in Days : e < d /\ misfiled[m][d] <= tokens[m][e]
  BY <1>0 DEF TotalsInv, TotalsOf, Moved
<1> SUFFICES ASSUME FiguresInv, GeminiToday # Missing
             PROVE  LET today == DayOf(gemini.at)
                    IN  /\ GeminiToday <= Used(today, today)
                        /\ GeminiWeek <= Used(WeekStart(today), today)
                        /\ GeminiToday <= GeminiWeek
  BY <1>0 DEF TokensCountedOnce
<1> DEFINE today == DayOf(gemini.at)
<1>1. PICK q : /\ q \in Seq(Range(q)) /\ \A i \in Range(q) : IsQuota(i)
               /\ \/ gemini.items = q
                  \/ \E t, w \in Nat :
                       /\ gemini.items = Figures("antigravity", today, t, w) \o q
                       /\ t <= UsedOn(AllFiled, agy.machines, today, today)
                       /\ w <= UsedOn(AllFiled, agy.machines, WeekStart(today), today)
                       /\ t <= w
  BY DEF FiguresInv, FiguresWithin
<1>2. gemini.items # q
  BY <1>1, NoFigures DEF GeminiToday
<1>3. PICK t \in Nat, w \in Nat :
        /\ gemini.items = Figures("antigravity", today, t, w) \o q
        /\ t <= UsedOn(AllFiled, agy.machines, today, today)
        /\ w <= UsedOn(AllFiled, agy.machines, WeekStart(today), today)
        /\ t <= w
  BY <1>1, <1>2
<1> HIDE DEF today
<1>4. GeminiToday = t /\ GeminiWeek = w
  <2>1. t \in Int /\ w \in Int
    OBVIOUS
  <2>2. QED
    BY <1>1, <1>3, <2>1, FiguresShown DEF GeminiToday, GeminiWeek
<1>5. \A from, to : Used(from, to) = UsedOn(AllFiled, agy.machines, from, to)
  BY UsedIsFiled
<1>6. QED
  BY <1>3, <1>4, <1>5 DEF today

\* The tokens Antigravity is said to have used are no more than the machines can have
\* reported, of the day of the collect and of the days of its week, whatever pushes are
\* repeated, lost or half stored, and what can be reported of a day is what was used on it
\* or, by a cycle over midnight, on one day before it (FetchUsageRecords).
THEOREM TokensCounted == Spec => []TokensCountedOnce
<1>1. Init => PushInv /\ TotalsInv /\ ReadInv /\ ShownInv /\ FiguresInv
  BY PushInit, TotalsInit, ReadInit, ShownInit, FiguresInit
<1>2. /\ PushInv /\ TotalsInv /\ ReadInv /\ ShownInv /\ FiguresInv /\ [Next]_vars
      => (PushInv /\ TotalsInv /\ ReadInv /\ ShownInv /\ FiguresInv)'
  BY PushStep, TotalsStep, ReadStep, ShownStep, FiguresStep
<1>3. QED
  BY <1>1, <1>2, FiguresCounted, PTL DEF Spec

---------------------------------------------------------------------------
(* The figures of Claude.                                                  *)

\* How many of some records are of the days from one to another.
CountedIn(records, from, to) == Cardinality({e \in records : DayOf(e.at) \in from..to})

FiguresOf(records, at) ==
  LET today == DayOf(at)
  IN  Figures("claude", today, CountedIn(records, today, today),
              CountedIn(records, WeekStart(today), today))

\* The panel shows the counts of records that are still stored: after a whole collect, of
\* every one that was made before it began and that it does not leave out: the provider's,
\* those that can be read, and with a configured account those of its credential.
CountsOf(snapshot, stored) ==
  \E q : /\ Windows(q)
         /\ \/ snapshot.items = q
            \/ \E R \in SUBSET stored :
                 /\ snapshot.items = FiguresOf(R, snapshot.at) \o q
                 /\ snapshot.whole =>
                      \A e \in snapshot.made : e.kind = "own" => e \in R \/ (Pinned /\ e.auth # cpa.account)

\* A record has one row at most.
OneRow == \A row, other \in rows : row.record = other.record => row = other

CountsInv ==
  /\ {"items", "at", "whole", "made"} \subseteq DOMAIN claude
  /\ \A r \in Run : drain[r].made \subseteq made
  /\ OneRow
  /\ CountsOf(claude, RecordsOf(rows))

LEMMA StoredAreMade == Delivered => RecordsOf(rows) \subseteq made
BY DEF Delivered, RecordsOf

\* To count the rows is to count the records.
LEMMA CountOfRows ==
  ASSUME Numbered, Delivered, OneRow, NEW from, NEW to
  PROVE  Cardinality({row \in rows : DayOf(row.record.at) \in from..to})
           = CountedIn(RecordsOf(rows), from, to)
<1> DEFINE S == {row \in rows : DayOf(row.record.at) \in from..to}
           T == {e \in RecordsOf(rows) : DayOf(e.at) \in from..to}
           f == [row \in S |-> row.record]
<1>1. f \in [S -> T] /\ \A row \in S : f[row] = row.record
  BY DEF RecordsOf
<1>2. \A row, other \in S : f[row] = f[other] => row = other
  BY DEF OneRow
<1>3. \A e \in T : \E row \in S : f[row] = e
  BY DEF RecordsOf
<1>4. IsFiniteSet(T)
  <2>1. T \in SUBSET made /\ IsFiniteSet(made)
    BY StoredAreMade DEF Numbered
  <2>2. QED
    BY <2>1, FS_Subset
<1> HIDE DEF S, T, f
<1>5. f \in Injection(S, T) /\ f \in Surjection(S, T)
  BY <1>1, <1>2, <1>3 DEF Injection, Surjection, IsInjective
<1>6. Cardinality(S) = Cardinality(T)
  BY <1>4, <1>5, FS_Injection
<1>7. QED
  BY <1>6 DEF S, T, CountedIn

LEMMA UsageCounted ==
  ASSUME Numbered, Delivered, OneRow, NEW at
  PROVE  UsageItems(at) = FiguresOf(RecordsOf(rows), at)
<1> DEFINE today == DayOf(at)
           count(from) == Cardinality({row \in rows : DayOf(row.record.at) \in from..today})
<1>1. \A from : count(from) = CountedIn(RecordsOf(rows), from, today)
  BY CountOfRows
<1>2. UsageItems(at) = Figures("claude", today, count(today), count(WeekStart(today)))
  BY DEF UsageItems, UsageItem, Figures
<1> HIDE DEF count
<1>3. QED
  BY <1>1, <1>2 DEF FiguresOf

\* When nothing is on its way and nothing was lost, every record made is stored or left out.
LEMMA AllStored ==
  ASSUME Accounted, queue = <<>>, Held = {}, lost = {}, NEW e \in made, e.kind = "own"
  PROVE  e \in RecordsOf(rows) \/ (Pinned /\ e.auth # cpa.account)
BY DEF Accounted, RecordsOf, Range

\* The records stored stay stored, each in one row.
LEMMA RowsStay ==
  ASSUME Numbered, Delivered, OneRow, [Next]_vars
  PROVE  OneRow' /\ RecordsOf(rows) \subseteq RecordsOf(rows')
<1>1. ASSUME NEW r \in Run, Save(r)
      PROVE  OneRow' /\ RecordsOf(rows) \subseteq RecordsOf(rows')
  <2> DEFINE batch == drain[r].batch
             rowOf(e) == [key |-> Key(e), record |-> e.record, blind |-> drain[r].blind]
             kept == {row \in rows : \A e \in batch : Key(e) # row.key}
  <2>1. rows' = kept \cup {rowOf(e) : e \in batch}
    BY <1>1 DEF Save
  <2>2. \A e \in batch : e.record \in made /\ Key(e) = e.record.n
    BY DEF Delivered, Entry, Key
  <2>3. \A row \in rows : row.record \in made /\ row.key = row.record.n
    BY DEF Delivered
  <2>4. \A e \in batch : rowOf(e).record = e.record
    OBVIOUS
  <2>5. \A e, x \in batch : e.record = x.record => rowOf(e) = rowOf(x)
    BY DEF Key
  <2>6. ASSUME NEW row \in rows, row \notin kept
        PROVE  \E e \in batch : e.record = row.record
    BY <2>2, <2>3, <2>6 DEF Numbered
  <2>7. \A row \in kept, e \in batch : row.record # e.record
    BY <2>2, <2>3
  <2>8. \A row \in kept : row \in rows
    OBVIOUS
  <2> HIDE DEF kept, rowOf, batch
  <2>9. ASSUME NEW row \in rows', NEW other \in rows', row.record = other.record
        PROVE  row = other
    <3>1. CASE row \in kept /\ other \in kept
      BY <2>8, <2>9, <3>1 DEF OneRow
    <3>2. CASE row \notin kept /\ other \notin kept
      <4>1. PICK e \in batch, x \in batch : row = rowOf(e) /\ other = rowOf(x)
        BY <2>1, <2>9, <3>2
      <4>2. e.record = x.record
        BY <2>4, <2>9, <4>1
      <4>3. QED
        BY <2>5, <4>1, <4>2
    <3>3. CASE row \in kept /\ other \notin kept
      BY <2>1, <2>4, <2>7, <2>9, <3>3
    <3>4. CASE row \notin kept /\ other \in kept
      BY <2>1, <2>4, <2>7, <2>9, <3>4
    <3>5. QED
      BY <3>1, <3>2, <3>3, <3>4
  <2>10. ASSUME NEW row \in rows
         PROVE  \E other \in rows' : other.record = row.record
    <3>1. CASE row \in kept
      BY <2>1, <3>1
    <3>2. CASE row \notin kept
      BY <2>1, <2>4, <2>6, <3>2
    <3>3. QED
      BY <3>1, <3>2
  <2>11. OneRow'
    BY <2>9 DEF OneRow
  <2>12. QED
    BY <2>10, <2>11 DEF RecordsOf
<1>2. CASE rows' = rows
  BY <1>2 DEF OneRow
<1>3. QED
  BY <1>1, <1>2, RowsSaved

LEMMA CountsInit == Init => CountsInv
<1> SUFFICES ASSUME Init
             PROVE  CountsInv
  OBVIOUS
<1>1. /\ drain = [r \in Run |-> NoDrain] /\ rows = {}
      /\ claude = [status |-> "none", items |-> <<>>, at |-> 0, whole |-> FALSE, made |-> {}]
  BY DEF Init, CPAInit
<1>2. claude.items = <<>> /\ {"items", "at", "whole", "made"} \subseteq DOMAIN claude
  BY <1>1
<1>3. CountsOf(claude, RecordsOf(rows))
  BY <1>2, NothingGot DEF CountsOf
<1>4. \A r \in Run : drain[r].made = {}
  BY <1>1 DEF NoDrain
<1>5. QED
  BY <1>1, <1>2, <1>3, <1>4 DEF CountsInv, OneRow

LEMMA ListCounts ==
  ASSUME RecordInv, AnswerInv, CountsInv, NEW r \in Run, List(r)
  PROVE  /\ {"items", "at", "whole", "made"} \subseteq DOMAIN claude'
         /\ CountsOf(claude', RecordsOf(rows))
<1> DEFINE c == drain[r]
           items == UsageItems(c.at) \o c.quota
           whole == ~c.drainErr /\ queue = <<>> /\ Held = {} /\ lost = {}
           new == [status |-> "ok", items |-> items, at |-> c.at, made |-> c.made, whole |-> whole]
<1>1. claude' = [claude EXCEPT !.status = "error"] \/ claude' = new
  BY DEF List
<1>2. CASE claude' = [claude EXCEPT !.status = "error"]
  <2>1. /\ DOMAIN claude' = DOMAIN claude /\ claude'.items = claude.items /\ claude'.at = claude.at
        /\ claude'.whole = claude.whole /\ claude'.made = claude.made
    BY <1>2 DEF CountsInv
  <2>2. QED
    BY <2>1 DEF CountsInv, CountsOf
<1>3. CASE claude' = new
  <2>1. /\ {"items", "at", "whole", "made"} \subseteq DOMAIN claude'
        /\ claude'.items = items /\ claude'.at = c.at /\ claude'.whole = whole /\ claude'.made = c.made
    BY <1>3
  <2>2. items = FiguresOf(RecordsOf(rows), c.at) \o c.quota
    BY UsageCounted DEF RecordInv, CountsInv
  <2>3. Windows(c.quota)
    BY DEF AnswerInv
  <2>4. whole => \A e \in c.made :
          e.kind = "own" => e \in RecordsOf(rows) \/ (Pinned /\ e.auth # cpa.account)
    BY AllStored DEF RecordInv, CountsInv
  <2> HIDE DEF items, whole, c
  <2> DEFINE s == claude'
             stored == RecordsOf(rows)
  <2>5. s.items = FiguresOf(stored, s.at) \o c.quota
    BY <2>1, <2>2
  <2>6. s.whole => \A e \in s.made : e.kind = "own" => e \in stored \/ (Pinned /\ e.auth # cpa.account)
    BY <2>1, <2>4
  <2> HIDE DEF s, stored
  <2>7. CountsOf(s, stored)
    BY <2>3, <2>5, <2>6 DEF CountsOf
  <2>8. QED
    BY <2>1, <2>7 DEF s, stored
<1>4. QED
  BY <1>1, <1>2, <1>3

\* More records stored leave the figures true of those they count.
LEMMA CountsStay ==
  ASSUME NEW snapshot, NEW stored, NEW more, CountsOf(snapshot, stored), stored \subseteq more
  PROVE  CountsOf(snapshot, more)
BY DEF CountsOf

LEMMA CountsStep ==
  ASSUME RecordInv, AnswerInv, CountsInv, [Next]_vars
  PROVE  CountsInv'
<1>0. /\ cpa' = cpa /\ OneRow' /\ RecordsOf(rows) \subseteq RecordsOf(rows') /\ made \subseteq made'
      /\ DOMAIN drain = Run
  BY ConfigurationStays, RowsStay, MadeGrows DEF RecordInv, CountsInv, Accounts
<1> DEFINE c == drain'
           s == claude'
           stored == RecordsOf(rows')
<1>1. (\A r \in Run : c[r].made \subseteq made) => \A r \in Run : c[r].made \subseteq made'
  BY <1>0
<1>2. /\ \A r \in Run : c[r].made \subseteq made
      /\ {"items", "at", "whole", "made"} \subseteq DOMAIN s
      /\ CountsOf(s, RecordsOf(rows))
  <2>1. ASSUME NEW r \in Run, CPACollect(r)
        PROVE  \A x \in Run : c[x].made \subseteq made
    <3>1. PICK d : Goes(r, d) /\ (Begun(r, d) \/ Asks(r, d) \/ Drains(r, d) \/ Ends(r, d))
      BY <2>1, CollectGoes DEF RecordInv
    <3>2. d.made \in {{}, made, drain[r].made}
      BY <3>1 DEF Begun, Asks, Drains, Ends, SameCollect, NoDrain
    <3>3. \A x \in Run : c[x] = IF x = r THEN d ELSE drain[x]
      BY <1>0, <3>1 DEF Goes
    <3> HIDE DEF c
    <3>4. QED
      BY <3>2, <3>3 DEF CountsInv
  <2>2. ASSUME NEW r \in Run, CPACollect(r)
        PROVE  {"items", "at", "whole", "made"} \subseteq DOMAIN s /\ CountsOf(s, RecordsOf(rows))
    <3>1. CASE List(r)
      BY <3>1, ListCounts
    <3>2. CASE ListFails(r)
      <4>1. claude' = [claude EXCEPT !.status = "error"]
        BY <3>2 DEF ListFails
      <4>2. /\ DOMAIN s = DOMAIN claude /\ s.items = claude.items /\ s.at = claude.at
            /\ s.whole = claude.whole /\ s.made = claude.made
        BY <4>1 DEF CountsInv
      <4>3. QED
        BY <4>2 DEF CountsInv, CountsOf
    <3>3. CASE claude' = claude
      BY <3>3 DEF CountsInv
    <3>4. List(r) \/ ListFails(r) \/ claude' = claude
      BY <2>2, Zenon DEF CPACollect, Start, Throttled, Refresh, RefreshFails, Select, Refreshed,
         Pop, PopFails, Save, SaveFails
    <3>5. QED
      BY <3>1, <3>2, <3>3, <3>4
  <2>3. CASE Restart
    <3>1. claude' = claude /\ drain' = [r \in Run |-> NoDrain] /\ NoDrain.made = {}
      BY <2>3 DEF Restart, NoDrain
    <3>2. QED
      BY <3>1 DEF CountsInv
  <2>4. CASE UNCHANGED <<drain, claude>>
    BY <2>4 DEF CountsInv
  <2>5. (\E r \in Run : CPACollect(r)) \/ Restart \/ UNCHANGED <<drain, claude>>
    BY CPASteps, Zenon DEF Time, Request, Switch, Redeliver, Expire, cpaVars
  <2> HIDE DEF c, s
  <2>6. QED
    BY <2>1, <2>2, <2>3, <2>4, <2>5
<1>3. CountsOf(s, stored)
  <2> HIDE DEF s, stored
  <2>1. RecordsOf(rows) \subseteq stored
    BY <1>0 DEF stored
  <2>2. QED
    BY <1>2, <2>1, CountsStay
<1>4. CountsOf(claude, RecordsOf(rows))'
  BY <1>0, <1>3 DEF CountsOf, Pinned, FiguresOf, RecordsOf
<1>5. QED
  BY <1>0, <1>1, <1>2, <1>4 DEF CountsInv

LEMMA CountsAreTrue ==
  ASSUME RecordInv, CountsInv
  PROVE  UsageIsTruth
<1> DEFINE today  == DayOf(claude.at)
           monday == WeekStart(today)
<1> SUFFICES ASSUME ClaudeToday # Missing, Pinned => \A row \in rows : row.record.auth = cpa.account
             PROVE  /\ ClaudeToday <= Requests(made, today, today)
                    /\ ClaudeWeek  <= Requests(made, monday, today)
                    /\ claude.whole => /\ ClaudeToday >= Requests(claude.made, today, today)
                                       /\ ClaudeWeek  >= Requests(claude.made, monday, today)
  BY DEF UsageIsTruth
<1>1. PICK q : /\ Windows(q)
               /\ \/ claude.items = q
                  \/ \E R \in SUBSET RecordsOf(rows) :
                       /\ claude.items = FiguresOf(R, claude.at) \o q
                       /\ claude.whole => \A e \in claude.made :
                            e.kind = "own" => e \in R \/ (Pinned /\ e.auth # cpa.account)
  BY DEF CountsInv, CountsOf
<1>2. q \in Seq(Range(q)) /\ \A i \in Range(q) : IsQuota(i)
  BY <1>1 DEF Windows
<1>3. claude.items # q
  BY <1>2, NoFigures DEF ClaudeToday
<1>4. PICK R \in SUBSET RecordsOf(rows) :
        /\ claude.items = FiguresOf(R, claude.at) \o q
        /\ claude.whole => \A e \in claude.made :
             e.kind = "own" => e \in R \/ (Pinned /\ e.auth # cpa.account)
  BY <1>1, <1>3
<1>5. /\ IsFiniteSet(made) /\ R \in SUBSET made
      /\ \A e \in R : e.kind = "own" /\ (Pinned => e.auth = cpa.account)
  BY StoredAreMade DEF RecordInv, Numbered, Delivered, RecordsOf
<1>6. ASSUME NEW from, NEW to
      PROVE  /\ CountedIn(R, from, to) \in Nat
             /\ CountedIn(R, from, to) <= Requests(made, from, to)
             /\ claude.whole => CountedIn(R, from, to) >= Requests(claude.made, from, to)
  <2> DEFINE counted == {e \in R : DayOf(e.at) \in from..to}
             asked(records) == {e \in records : /\ e.kind = "own" /\ DayOf(e.at) \in from..to
                                                /\ Pinned => e.auth = cpa.account}
  <2>1. counted \in SUBSET asked(made) /\ asked(made) \in SUBSET made
    BY <1>5
  <2>2. claude.whole => asked(claude.made) \in SUBSET counted
    BY <1>4
  <2>3. IsFiniteSet(asked(made))
    BY <1>5, <2>1, FS_Subset
  <2>4. CountedIn(R, from, to) = Cardinality(counted) /\ \A records : Requests(records, from, to) = Cardinality(asked(records))
    BY DEF CountedIn, Requests
  <2> HIDE DEF counted, asked
  <2>5. IsFiniteSet(counted) /\ Cardinality(counted) <= Cardinality(asked(made))
    BY <2>1, <2>3, FS_Subset
  <2>6. claude.whole => Cardinality(asked(claude.made)) <= Cardinality(counted)
                          /\ Cardinality(asked(claude.made)) \in Nat
    BY <2>2, <2>5, FS_Subset, FS_CardinalityType
  <2>7. Cardinality(counted) \in Nat
    BY <2>5, FS_CardinalityType
  <2>8. QED
    BY <2>4, <2>5, <2>6, <2>7
<1> HIDE DEF today
<1>7. ClaudeToday = CountedIn(R, today, today) /\ ClaudeWeek = CountedIn(R, monday, today)
  <2> DEFINE t == CountedIn(R, today, today)
             w == CountedIn(R, monday, today)
  <2>1. t \in Int /\ w \in Int
    BY <1>6
  <2>2. claude.items = Figures("claude", today, t, w) \o q
    BY <1>4 DEF FiguresOf, today
  <2> HIDE DEF t, w
  <2>3. ClaudeToday = t /\ ClaudeWeek = w
    BY <1>2, <2>1, <2>2, FiguresShown DEF ClaudeToday, ClaudeWeek
  <2>4. QED
    BY <2>3 DEF t, w
<1> HIDE DEF monday
<1>8. QED
  BY <1>6, <1>7

\* The figures of Claude count no request twice and, when nothing was lost or on its way,
\* every one made before the collect, whatever collects overlap and records are delivered
\* again (drainUsage, usageItems).
THEOREM UsageTrue == Spec => []UsageIsTruth
<1>1. Init => CountsInv
  BY CountsInit
<1>2. RecordInv /\ LastGoodInv /\ CountsInv /\ [Next]_vars => CountsInv'
  BY CountsStep DEF LastGoodInv
<1>3. RecordInv /\ CountsInv => UsageIsTruth
  BY CountsAreTrue
<1>4. QED
  BY <1>1, <1>2, <1>3, CollectsHold, PTL DEF Spec
=============================================================================
