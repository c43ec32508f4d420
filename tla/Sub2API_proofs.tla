--------------------------- MODULE Sub2API_proofs ---------------------------
(***************************************************************************)
(* Theorems about the collects of Sub2API and the panel that shows their   *)
(* items, for any targets, accounts and users a setup may have, any usage  *)
(* meanwhile, any days, and any requests that fail.                        *)
(***************************************************************************)
EXTENDS Sub2API, Dashboard_proofs

---------------------------------------------------------------------------
(* Lists.                                                                  *)

\* A list of some length; its elements are those at its positions.
LEMMA ListElements ==
  ASSUME NEW s, IsSequence(s)
  PROVE  /\ Len(s) \in Nat /\ DOMAIN s = 1..Len(s) /\ (s = <<>> <=> Len(s) = 0)
         /\ \A n \in DOMAIN s : s[n] \in Range(s)
         /\ \A x \in Range(s) : \E n \in DOMAIN s : x = s[n]
BY DEF IsSequence, Range

LEMMA PickedIsList ==
  ASSUME NEW seq, NEW S \in SUBSET Nat, IsFiniteSet(S)
  PROVE  /\ IsSequence(Picked(seq, S)) /\ Len(Picked(seq, S)) = Cardinality(S)
         /\ DOMAIN Picked(seq, S) = 1..Cardinality(S) /\ Range(Picked(seq, S)) = {seq[k] : k \in S}
<1>1. /\ Cardinality(S) \in Nat /\ DOMAIN Picked(seq, S) = 1..Cardinality(S)
      /\ Range(Picked(seq, S)) = {seq[k] : k \in S}
  BY PickedRange
<1>2. \A k \in S : seq[k] \in Range(Picked(seq, S))
  BY <1>1
<1>3. IsSequence(Picked(seq, S))
  BY <1>2, PickedSequence DEF IsSequence
<1>4. QED
  BY <1>1, <1>3 DEF IsSequence

\* The elements of a list that pass some test, by their positions.
LEMMA PickedOfList ==
  ASSUME NEW s, IsSequence(s), NEW S \in SUBSET DOMAIN s
  PROVE  /\ S \in SUBSET Nat /\ IsFiniteSet(S) /\ Cardinality(S) \in Nat
         /\ IsSequence(Picked(s, S)) /\ Len(Picked(s, S)) = Cardinality(S)
         /\ DOMAIN Picked(s, S) = 1..Cardinality(S)
         /\ Range(Picked(s, S)) = {s[k] : k \in S} /\ Range(Picked(s, S)) \subseteq Range(s)
<1>1. Len(s) \in Nat /\ DOMAIN s = 1..Len(s)
  BY ListElements
<1>2. S \in SUBSET Nat /\ IsFiniteSet(S) /\ Cardinality(S) \in Nat
  BY <1>1, Within
<1>3. QED
  BY <1>1, <1>2, PickedIsList, ListElements

LEMMA AppendToList ==
  ASSUME NEW s, IsSequence(s), NEW x
  PROVE  /\ IsSequence(Append(s, x)) /\ Len(Append(s, x)) = Len(s) + 1
         /\ DOMAIN Append(s, x) = 1..(Len(s) + 1)
         /\ \A n \in 1..Len(s) : Append(s, x)[n] = s[n]
         /\ Append(s, x)[Len(s) + 1] = x
<1> DEFINE T == Range(s) \cup {x}
           a == Append(s, x)
<1>1. s \in Seq(T) /\ x \in T /\ Len(s) \in Nat
  <2>1. s \in Seq(Range(s))
    BY DEF IsSequence
  <2>2. QED
    BY <2>1
<1> HIDE DEF T
<1>2. /\ a \in Seq(T) /\ Len(a) = Len(s) + 1
      /\ \A n \in 1..Len(s) : a[n] = s[n]
      /\ a[Len(s) + 1] = x
  BY <1>1
<1> HIDE DEF a
<1>3. a \in Seq(Range(a)) /\ DOMAIN a = 1..(Len(s) + 1)
  BY <1>1, <1>2 DEF Range
<1>4. QED
  BY <1>2, <1>3 DEF a, IsSequence

LEMMA RangeIsFinite ==
  ASSUME NEW s, IsSequence(s)
  PROVE  IsFiniteSet(Range(s))
<1>1. Len(s) \in Nat /\ DOMAIN s = 1..Len(s)
  BY ListElements
<1>2. IsFiniteSet(1..Len(s))
  BY <1>1, FS_Interval
<1>3. s \in Surjection(DOMAIN s, Range(s))
  <2>1. s = [n \in DOMAIN s |-> s[n]]
    BY DEF IsSequence
  <2>2. s \in [DOMAIN s -> Range(s)]
    BY <2>1 DEF Range
  <2>3. QED
    BY <2>2 DEF Surjection, Range
<1>4. QED
  BY <1>1, <1>2, <1>3, FS_Surjection

LEMMA LastReplaced ==
  ASSUME NEW s, IsSequence(s), s # <<>>, NEW x
  PROVE  LET r == [s EXCEPT ![Len(s)] = x]
         IN  /\ IsSequence(r) /\ Len(r) = Len(s) /\ DOMAIN r = DOMAIN s /\ r[Len(s)] = x
             /\ \A n \in DOMAIN s : n # Len(s) => r[n] = s[n]
<1> DEFINE r == [s EXCEPT ![Len(s)] = x]
           T == Range(s) \cup {x}
<1>1. /\ Len(s) \in Nat /\ DOMAIN s = 1..Len(s) /\ Len(s) \in DOMAIN s
      /\ \A n \in DOMAIN s : s[n] \in Range(s)
  BY ListElements
<1>2. DOMAIN r = DOMAIN s /\ r[Len(s)] = x /\ \A n \in DOMAIN s : n # Len(s) => r[n] = s[n]
  BY <1>1
<1>3. r = [n \in 1..Len(s) |-> r[n]]
  BY <1>1
<1> HIDE DEF r
<1>4. \A n \in 1..Len(s) : r[n] \in Range(r)
  BY <1>1, <1>2 DEF Range
<1>5. r \in [1..Len(s) -> Range(r)]
  BY <1>3, <1>4
<1>6. r \in Seq(Range(r)) /\ Len(r) = Len(s)
  BY <1>1, <1>5
<1>7. QED
  BY <1>2, <1>6 DEF r, IsSequence

---------------------------------------------------------------------------
(* Targets and accounts.                                                   *)

\* What the collector is configured with does not change.
ConfigInv == setup \in Setups /\ targets = Configured(setup)

\* A target keeps its id when it is normalized.
LEMMA NormalizedTarget ==
  ASSUME NEW t, t = [type |-> t.type, id |-> t.id, name |-> t.name,
                     match |-> t.match, email |-> t.email, usage |-> t.usage]
  PROVE  Normalized(t).id = t.id
<1> DEFINE u == Normalized(t)
<1>1. \E a, b, c, d : u = [t EXCEPT !.type = a, !.email = b, !.match = c, !.usage = d]
  BY DEF Normalized
<1>2. PICK a, b, c, d : u = [t EXCEPT !.type = a, !.email = b, !.match = c, !.usage = d]
  BY <1>1, Zenon
<1> HIDE DEF u
<1>3. u.id = t.id
  BY <1>2
<1>4. QED
  BY <1>3 DEF u

LEMMA ConfiguredTargets ==
  ASSUME ConfigInv
  PROVE  /\ IsSetup(setup) /\ IsSequence(targets) /\ DOMAIN targets = DOMAIN setup.targets
         /\ Len(targets) = Len(setup.targets)
         /\ \A n \in DOMAIN targets : targets[n].id = setup.targets[n].id
<1>1. IsSetup(setup) /\ targets = [n \in DOMAIN setup.targets |-> Normalized(setup.targets[n])]
  BY SetupAssumption DEF ConfigInv, Configured
<1>2. IsSequence(setup.targets)
  BY <1>1 DEF IsSetup
<1> DEFINE l == Len(setup.targets)
<1>3. l \in Nat /\ DOMAIN setup.targets = 1..l /\ \A n \in 1..l : setup.targets[n] \in Range(setup.targets)
  BY <1>2, ListElements
<1> HIDE DEF l
<1>4. DOMAIN targets = 1..l /\ \A n \in 1..l : targets[n] \in Range(targets)
  BY <1>1, <1>3 DEF Range
<1>5. targets = [n \in 1..l |-> targets[n]]
  BY <1>1, <1>3
<1>6. targets \in Seq(Range(targets)) /\ Len(targets) = l
  <2>1. targets \in [1..l -> Range(targets)]
    BY <1>4, <1>5
  <2>2. QED
    BY <1>3, <1>4, <2>1
<1>7. ASSUME NEW n \in 1..l
      PROVE  targets[n].id = setup.targets[n].id
  <2>1. targets[n] = Normalized(setup.targets[n])
    BY <1>1, <1>3, <1>7
  <2> DEFINE t == setup.targets[n]
  <2>2. t = [type |-> t.type, id |-> t.id, name |-> t.name,
             match |-> t.match, email |-> t.email, usage |-> t.usage]
    BY <1>1, <1>3, <1>7, Zenon DEF IsSetup
  <2> HIDE DEF t
  <2>3. Normalized(t).id = t.id
    BY <2>2, NormalizedTarget
  <2>4. QED
    BY <2>1, <2>3 DEF t
<1>8. QED
  BY <1>1, <1>3, <1>4, <1>6, <1>7 DEF IsSequence, l

\* The targets that are users, each of them one of those configured.
LEMMA UserTargetList ==
  ASSUME ConfigInv
  PROVE  /\ IsSequence(UserTargets) /\ IsSequence(AccountTargets)
         /\ \A t \in Range(UserTargets) : \E c \in Range(setup.targets) : t.id = c.id
<1>1. /\ IsSequence(targets) /\ IsSequence(setup.targets) /\ DOMAIN targets = DOMAIN setup.targets
      /\ \A n \in DOMAIN targets : targets[n].id = setup.targets[n].id
  BY ConfiguredTargets DEF IsSetup
<1> DEFINE S == {n \in DOMAIN targets : targets[n].type = {"user"}}
           A == {n \in DOMAIN targets : targets[n].type \in {{"account"}, {"gpt_account"}, {"gpt"}}}
<1>2. IsSequence(Picked(targets, A))
  <2>1. A \in SUBSET DOMAIN targets
    OBVIOUS
  <2> HIDE DEF A
  <2>2. QED
    BY <1>1, <2>1, PickedOfList
<1>3. IsSequence(Picked(targets, S)) /\ Range(Picked(targets, S)) = {targets[k] : k \in S}
  <2>1. S \in SUBSET DOMAIN targets
    OBVIOUS
  <2> HIDE DEF S
  <2>2. QED
    BY <1>1, <2>1, PickedOfList
<1>4. \A k \in S : targets[k].id = setup.targets[k].id /\ setup.targets[k] \in Range(setup.targets)
  BY <1>1, ListElements
<1> HIDE DEF S
<1>5. QED
  BY <1>2, <1>3, <1>4 DEF UserTargets, AccountTargets, S

LEMMA NamedIsAsked ==
  ASSUME ConfigInv, NEW t \in Range(UserTargets), NEW id \in NamedBy(setup.users, t)
  PROVE  id \in Asked
<1>1. CASE Searched(t)
  <2>1. id \in {u.id : u \in Range(setup.users)}
    BY <1>1 DEF NamedBy, Similar
  <2>2. QED
    BY <2>1 DEF Asked, Scopes
<1>2. CASE ~Searched(t)
  <2>1. id = t.id /\ "@" \notin t.id
    BY <1>2 DEF NamedBy, Searched, EmailLike
  <2>2. PICK c \in Range(setup.targets) : t.id = c.id
    BY UserTargetList
  <2>3. c \in {d \in Range(setup.targets) : "@" \notin d.id}
    BY <2>1, <2>2
  <2>4. QED
    BY <2>1, <2>2, <2>3 DEF Asked
<1>3. QED
  BY <1>1, <1>2

\* Whoever the search answers with first, the user picked is one the target may stand for.
LEMMA PickedUserIsNamed ==
  ASSUME NEW t, Searched(t), NEW found \in SetToSeqs(Similar(setup.users, Keyword(t))), found # <<>>,
         IsFiniteSet(Similar(setup.users, Keyword(t)))
  PROVE  PickUser(found, Keyword(t)).id \in NamedBy(setup.users, t)
<1> DEFINE similar == Similar(setup.users, Keyword(t))
           exact   == {u \in similar : u.email = Keyword(t)}
           S == {n \in DOMAIN found : found[n].email = Keyword(t)}
           c == Cardinality(similar)
<1>1. /\ c \in Nat /\ found \in [1..c -> similar]
      /\ \A i, j \in 1..c : i # j => found[i] # found[j]
  BY FS_CardinalityType DEF SetToSeqs
<1>2. c # 0
  BY <1>1
<1>3. \A u \in similar : \E n \in 1..c : found[n] = u
  <2>1. found \in Injection(1..c, similar)
    <3> HIDE DEF c, similar
    <3>1. \A i, j \in 1..c : found[i] = found[j] => i = j
      BY <1>1
    <3>2. QED
      BY <1>1, <3>1 DEF Injection, IsInjective
  <2>2. IsFiniteSet(1..c) /\ Cardinality(1..c) = Cardinality(similar)
    BY <1>1, FS_Interval
  <2>3. found \in Surjection(1..c, similar)
    <3> HIDE DEF c
    <3>1. QED
      BY <2>1, <2>2, FS_Injection
  <2>4. QED
    <3> HIDE DEF c, similar
    <3>1. QED
      BY <2>3 DEF Surjection
<1> HIDE DEF similar
<1>4. S \in SUBSET Nat /\ IsFiniteSet(S) /\ DOMAIN found = 1..c
  <2>1. DOMAIN found = 1..c /\ S \in SUBSET (1..c)
    BY <1>1
  <2> HIDE DEF S, c
  <2>2. QED
    BY <1>1, <2>1, Within
<1>5. CASE exact = {}
  <2>1. S = {}
    BY <1>1, <1>4, <1>5
  <2>2. PickUser(found, Keyword(t)) = found[1]
    BY <2>1, PickedNone, Zenon DEF PickUser
  <2>3. found[1] \in similar
    BY <1>1, <1>2
  <2>4. QED
    BY <1>5, <2>2, <2>3 DEF NamedBy, similar
<1>6. CASE exact # {}
  <2>1. PICK u \in similar : u.email = Keyword(t)
    BY <1>6
  <2>2. PICK n \in 1..c : found[n] = u
    BY <1>3
  <2>3. n \in S
    BY <1>4, <2>1, <2>2
  <2> DEFINE p == Picked(found, S)
  <2>4. /\ Cardinality(S) \in Nat /\ DOMAIN p = 1..Cardinality(S)
        /\ Range(p) = {found[k] : k \in S}
    <3> HIDE DEF S
    <3>1. QED
      BY <1>4, PickedRange
  <2>5. Cardinality(S) # 0
    <3> HIDE DEF S
    <3>1. QED
      BY <1>4, <2>3, FS_EmptySet
  <2>6. p[1] \in Range(p) /\ p # <<>>
    <3> HIDE DEF p, S
    <3>1. 1 \in DOMAIN p
      BY <2>4, <2>5
    <3>2. QED
      BY <3>1 DEF Range
  <2>7. PickUser(found, Keyword(t)) = p[1]
    BY <2>6 DEF PickUser
  <2>8. p[1] \in exact
    BY <1>1, <1>4, <2>4, <2>6
  <2>9. QED
    BY <2>7, <2>8 DEF NamedBy, similar
<1>7. QED
  BY <1>5, <1>6

IsAccount(a) == a = [id |-> a.id, name |-> a.name, email |-> a.email, enabled |-> a.enabled,
                     usage |-> a.usage, five |-> a.five, week |-> a.week]

\* An account as configured but for its usage.
SameAccount(a, b) ==
  IsAccount(a) /\ IsAccount(b) /\ \E u : a = [b EXCEPT !.usage = u]

LEMMA SameFields ==
  ASSUME NEW a, NEW b, SameAccount(a, b)
  PROVE  a.id = b.id /\ a.name = b.name /\ a.email = b.email /\ a.five = b.five /\ a.week = b.week
<1>1. PICK u : a = [b EXCEPT !.usage = u]
  BY DEF SameAccount
<1>2. b = [id |-> b.id, name |-> b.name, email |-> b.email, enabled |-> b.enabled,
           usage |-> b.usage, five |-> b.five, week |-> b.week]
  BY Zenon DEF SameAccount, IsAccount
<1>3. QED
  BY <1>1, <1>2

LEMMA MarkedAccount ==
  ASSUME NEW b, IsAccount(b), NEW u
  PROVE  SameAccount([b EXCEPT !.usage = u], b)
<1> DEFINE a == [b EXCEPT !.usage = u]
<1>1. b = [id |-> b.id, name |-> b.name, email |-> b.email, enabled |-> b.enabled,
           usage |-> b.usage, five |-> b.five, week |-> b.week]
  BY Zenon DEF IsAccount
<1>2. a = [id |-> a.id, name |-> a.name, email |-> a.email, enabled |-> a.enabled,
           usage |-> a.usage, five |-> a.five, week |-> a.week]
  BY <1>1
<1>3. IsAccount(a)
  <2> HIDE DEF a
  <2>1. QED
    BY <1>2, Zenon DEF IsAccount
<1>4. QED
  BY <1>3, Zenon DEF SameAccount

\* The accounts of a list that some test selects, each once and with the usage given.
LEMMA MarkedList ==
  ASSUME NEW accounts, IsSequence(accounts), \A a \in Range(accounts) : IsAccount(a),
         \A n, m \in DOMAIN accounts : accounts[n].id = accounts[m].id => n = m,
         NEW S \in SUBSET DOMAIN accounts, NEW u
  PROVE  LET c == Marked(Picked(accounts, S), u)
         IN  /\ IsSequence(c)
             /\ \A p \in DOMAIN c : \E k \in S : SameAccount(c[p], accounts[k])
             /\ \A p, q \in DOMAIN c : c[p].id = c[q].id => p = q
<1> DEFINE s == Picked(accounts, S)
           c == Marked(s, u)
           l == Cardinality(S)
<1>1. S \in SUBSET Nat /\ IsFiniteSet(S) /\ l \in Nat /\ DOMAIN s = 1..l
  BY PickedOfList
<1>2. c = [m \in 1..l |-> [s[m] EXCEPT !.usage = u]]
  BY <1>1 DEF Marked
<1>3. PICK at : /\ \A n \in 1..l : at[n] \in S /\ s[n] = accounts[at[n]]
                /\ \A n, m \in 1..l : at[n] = at[m] => n = m
  BY <1>1, PickedAt
<1> HIDE DEF s, l
<1>4. ASSUME NEW p \in 1..l
      PROVE  at[p] \in S /\ SameAccount(c[p], accounts[at[p]]) /\ c[p].id = accounts[at[p]].id
  <2>1. at[p] \in S /\ IsAccount(accounts[at[p]])
    BY <1>3, ListElements
  <2>2. c[p] = [accounts[at[p]] EXCEPT !.usage = u]
    <3>1. c[p] = [s[p] EXCEPT !.usage = u]
      BY <1>2
    <3> HIDE DEF c
    <3>2. QED
      BY <1>3, <3>1, Zenon
  <2> HIDE DEF c
  <2>3. SameAccount(c[p], accounts[at[p]])
    BY <2>1, <2>2, MarkedAccount
  <2>4. QED
    BY <2>1, <2>3, SameFields
<1>5. IsSequence(c) /\ DOMAIN c = 1..l
  <2>1. DOMAIN c = 1..l /\ c = [m \in 1..l |-> c[m]]
    BY <1>2
  <2> HIDE DEF c
  <2>2. c \in [1..l -> Range(c)]
    BY <2>1 DEF Range
  <2>3. QED
    BY <1>1, <2>1, <2>2 DEF IsSequence
<1>6. ASSUME NEW p \in 1..l, NEW q \in 1..l, c[p].id = c[q].id
      PROVE  p = q
  <2> HIDE DEF c
  <2>1. at[p] \in DOMAIN accounts /\ at[q] \in DOMAIN accounts
    BY <1>4
  <2>2. accounts[at[p]].id = accounts[at[q]].id
    BY <1>4, <1>6
  <2>3. at[p] = at[q]
    BY <2>1, <2>2
  <2>4. QED
    BY <1>3, <2>3
<1> HIDE DEF c
<1>7. QED
  BY <1>4, <1>5, <1>6 DEF c, s

\* selectSub2APIAccounts: every account selected is one that is enabled, and none is
\* selected twice, however targets overlap.
LEMMA SelectedOnce ==
  ASSUME NEW accounts, IsSequence(accounts), \A a \in Range(accounts) : IsAccount(a),
         \A n, m \in DOMAIN accounts : accounts[n].id = accounts[m].id => n = m,
         NEW wanted, IsSequence(wanted)
  PROVE  LET c == SelectAccounts(accounts, wanted)
         IN  /\ IsSequence(c)
             /\ \A p \in DOMAIN c : \E k \in Enabled(accounts) : SameAccount(c[p], accounts[k])
             /\ \A p, q \in DOMAIN c : c[p].id = c[q].id => p = q
<1> DEFINE c == SelectAccounts(accounts, wanted)
<1>1. Enabled(accounts) \in SUBSET DOMAIN accounts
  BY DEF Enabled
<1>2. CASE wanted = <<>>
  <2> DEFINE S == Enabled(accounts)
  <2>1. c = Picked(accounts, S)
    BY <1>2 DEF SelectAccounts
  <2>2. IsSequence(c) /\ DOMAIN c = 1..Cardinality(S) /\ S \in SUBSET Nat /\ IsFiniteSet(S)
    BY <1>1, <2>1, PickedOfList
  <2>3. PICK at : /\ \A n \in 1..Cardinality(S) : at[n] \in S /\ Picked(accounts, S)[n] = accounts[at[n]]
                  /\ \A n, m \in 1..Cardinality(S) : at[n] = at[m] => n = m
    BY <2>2, PickedAt
  <2> HIDE DEF S
  <2>4. ASSUME NEW p \in DOMAIN c
        PROVE  at[p] \in S /\ c[p] = accounts[at[p]] /\ at[p] \in DOMAIN accounts
    <3> HIDE DEF c
    <3>1. QED
      BY <1>1, <2>1, <2>2, <2>3 DEF S
  <2> HIDE DEF c
  <2>5. ASSUME NEW p \in DOMAIN c
        PROVE  \E k \in S : SameAccount(c[p], accounts[k])
    <3>1. at[p] \in S /\ c[p] = accounts[at[p]] /\ IsAccount(accounts[at[p]])
      BY <2>4, ListElements
    <3> DEFINE a == accounts[at[p]]
    <3>2. a = [a EXCEPT !.usage = a.usage]
      <4>1. a = [id |-> a.id, name |-> a.name, email |-> a.email, enabled |-> a.enabled,
                 usage |-> a.usage, five |-> a.five, week |-> a.week]
        BY <3>1, Zenon DEF IsAccount
      <4> HIDE DEF a
      <4>2. QED
        BY <4>1
    <3>3. SameAccount(a, a)
      BY <3>1, <3>2, Zenon DEF SameAccount
    <3> HIDE DEF a
    <3>4. QED
      BY <3>1, <3>3 DEF a
  <2>6. \A p, q \in DOMAIN c : c[p].id = c[q].id => p = q
    BY <2>2, <2>3, <2>4
  <2>7. QED
    BY <2>2, <2>5, <2>6 DEF c, S
<1>3. CASE wanted # <<>>
  <2> DEFINE first(n) == {k \in Enabled(accounts) :
               Matches(accounts[k], wanted[n]) /\ \A m \in 1..(n - 1) : ~Matches(accounts[k], wanted[m])}
             ss == [n \in DOMAIN wanted |-> Marked(Selected(accounts, wanted, n), wanted[n].usage)]
             T == UNION {Range(ss[n]) : n \in DOMAIN wanted}
             l == Len(wanted)
  <2>1. l \in Nat /\ DOMAIN wanted = 1..l
    BY ListElements
  <2>2. ASSUME NEW n \in 1..l
        PROVE  /\ IsSequence(ss[n])
               /\ \A p \in DOMAIN ss[n] : \E k \in first(n) : SameAccount(ss[n][p], accounts[k])
               /\ \A p, q \in DOMAIN ss[n] : ss[n][p].id = ss[n][q].id => p = q
    <3>1. ss[n] = Marked(Picked(accounts, first(n)), wanted[n].usage)
      BY <2>1 DEF Selected
    <3>2. first(n) \in SUBSET DOMAIN accounts
      BY <1>1
    <3> HIDE DEF first, ss
    <3>3. QED
      BY <3>1, <3>2, MarkedList
  <2>3. c = FlattenSeq(ss)
    BY <1>3 DEF SelectAccounts
  <2>4. ss = [n \in 1..l |-> ss[n]] /\ DOMAIN ss = 1..l
    BY <2>1
  <2> HIDE DEF ss, c, l
  <2>5. ss \in Seq(Seq(T)) /\ Len(ss) = l
    <3>1. ASSUME NEW n \in 1..l
          PROVE  ss[n] \in Seq(T)
      <4>1. ss[n] \in Seq(Range(ss[n])) /\ Range(ss[n]) \subseteq T
        BY <2>1, <2>2 DEF IsSequence
      <4> HIDE DEF T
      <4>2. QED
        BY <4>1
    <3> HIDE DEF T
    <3>2. ss \in [1..l -> Seq(T)]
      BY <2>4, <3>1
    <3>3. QED
      BY <2>1, <2>4, <3>2
  <2>6. c \in Seq(T) /\ FlatUpTo(c, ss, l)
    <3> HIDE DEF T
    <3>1. QED
      BY <2>3, <2>5, FlatElements
  <2>7. IsSequence(c) /\ DOMAIN c = 1..Len(c)
    <3> HIDE DEF T
    <3>1. \A p \in 1..Len(c) : c[p] \in Range(c)
      BY <2>6 DEF Range
    <3>2. QED
      BY <2>6, <3>1 DEF IsSequence
  <2>8. PICK row, col : FlatBy(c, ss, l, row, col)
    BY <2>6, Zenon DEF FlatUpTo
  <2>9. /\ \A p \in 1..Len(c) : row[p] \in 1..l /\ col[p] \in 1..Len(ss[row[p]]) /\ c[p] = ss[row[p]][col[p]]
        /\ \A p, q \in 1..Len(c) : row[p] = row[q] /\ col[p] = col[q] => p = q
    BY <2>8 DEF FlatBy
  <2> HIDE DEF T
  <2>10. ASSUME NEW p \in 1..Len(c)
        PROVE  \E k \in first(row[p]) : SameAccount(c[p], accounts[k])
    <3>1. row[p] \in 1..l /\ col[p] \in DOMAIN ss[row[p]] /\ c[p] = ss[row[p]][col[p]]
      BY <2>2, <2>9, ListElements
    <3> HIDE DEF first
    <3>2. QED
      BY <2>2, <3>1
  <2>11. ASSUME NEW p \in 1..Len(c), NEW q \in 1..Len(c), c[p].id = c[q].id
         PROVE  p = q
    <3>1. PICK k \in first(row[p]) : SameAccount(c[p], accounts[k])
      BY <2>10
    <3>2. PICK j \in first(row[q]) : SameAccount(c[q], accounts[j])
      BY <2>10
    <3>3. k \in DOMAIN accounts /\ j \in DOMAIN accounts /\ accounts[k].id = accounts[j].id
      BY <1>1, <2>11, <3>1, <3>2, SameFields
    <3>4. k = j
      BY <3>3
    <3>5. row[p] \in 1..l /\ row[q] \in 1..l
      BY <2>9
    <3>6. ~(row[p] < row[q]) /\ ~(row[q] < row[p])
      <4>1. row[p] < row[q] => row[p] \in 1..(row[q] - 1)
        BY <2>1, <3>5
      <4>2. row[q] < row[p] => row[q] \in 1..(row[p] - 1)
        BY <2>1, <3>5
      <4>3. QED
        BY <3>1, <3>2, <3>4, <4>1, <4>2, Zenon
    <3>7. row[p] = row[q]
      BY <2>1, <3>5, <3>6
    <3>8. col[p] \in DOMAIN ss[row[p]] /\ col[q] \in DOMAIN ss[row[p]]
      <4>1. DOMAIN ss[row[p]] = 1..Len(ss[row[p]])
        BY <2>2, <3>5, ListElements
      <4>2. col[p] \in 1..Len(ss[row[p]]) /\ col[q] \in 1..Len(ss[row[q]])
        BY <2>9
      <4>3. QED
        BY <3>7, <4>1, <4>2
    <3>9. ss[row[p]][col[p]].id = ss[row[p]][col[q]].id
      BY <2>9, <2>11, <3>7
    <3>10. col[p] = col[q]
      <4> HIDE DEF first
      <4>1. QED
        BY <2>2, <3>5, <3>8, <3>9
    <3>11. QED
      BY <2>9, <3>7, <3>10
  <2>12. \A p \in DOMAIN c : \E k \in Enabled(accounts) : SameAccount(c[p], accounts[k])
    BY <2>7, <2>10
  <2>13. QED
    BY <2>7, <2>11, <2>12 DEF c
<1>4. QED
  BY <1>2, <1>3

\* The accounts the targets select, and those of them whose usage is asked for.
Chosen == SelectAccounts(setup.accounts, AccountTargets)
Counted == WithUsage(Chosen)

LEMMA ChosenAccounts ==
  ASSUME ConfigInv
  PROVE  /\ IsSequence(Chosen)
         /\ \A a \in Range(Chosen) : \E b \in Range(setup.accounts) : SameAccount(a, b)
         /\ \A p, q \in DOMAIN Chosen : Chosen[p].id = Chosen[q].id => p = q
<1>1. IsSetup(setup) /\ IsSequence(AccountTargets)
  BY ConfiguredTargets, UserTargetList
<1>2. /\ IsSequence(setup.accounts)
      /\ \A n, m \in DOMAIN setup.accounts : setup.accounts[n].id = setup.accounts[m].id => n = m
  BY <1>1, Zenon DEF IsSetup
<1>3. ASSUME NEW a \in Range(setup.accounts)
      PROVE  IsAccount(a)
  <2>1. a = [id |-> a.id, name |-> a.name, email |-> a.email, enabled |-> a.enabled,
             usage |-> FALSE, five |-> a.five, week |-> a.week]
    BY <1>1, Zenon DEF IsSetup
  <2>2. a.usage = FALSE
    BY <2>1
  <2>3. QED
    BY <2>1, <2>2, Zenon DEF IsAccount
<1>4. /\ IsSequence(Chosen)
      /\ \A p \in DOMAIN Chosen : \E k \in Enabled(setup.accounts) : SameAccount(Chosen[p], setup.accounts[k])
      /\ \A p, q \in DOMAIN Chosen : Chosen[p].id = Chosen[q].id => p = q
  BY <1>1, <1>2, <1>3, SelectedOnce DEF Chosen
<1>5. \A k \in Enabled(setup.accounts) : setup.accounts[k] \in Range(setup.accounts)
  BY <1>2, ListElements DEF Enabled
<1>6. QED
  BY <1>4, <1>5, ListElements

LEMMA CountedAccounts ==
  ASSUME ConfigInv
  PROVE  /\ IsSequence(Counted) /\ Range(Counted) \subseteq Range(Chosen)
         /\ \A p, q \in DOMAIN Counted : Counted[p].id = Counted[q].id => p = q
         /\ \A p \in DOMAIN Counted : Counted[p].id \in Scopes
<1>1. /\ IsSequence(Chosen)
      /\ \A a \in Range(Chosen) : \E b \in Range(setup.accounts) : SameAccount(a, b)
      /\ \A p, q \in DOMAIN Chosen : Chosen[p].id = Chosen[q].id => p = q
  BY ChosenAccounts
<1>2. /\ IsSequence(Counted) /\ Range(Counted) \subseteq Range(Chosen)
      /\ \A p, q \in DOMAIN Counted : Counted[p].id = Counted[q].id => p = q
  <2>1. CASE targets = <<>>
    <3>1. Counted = Chosen
      BY <2>1 DEF Counted, WithUsage
    <3>2. QED
      BY <1>1, <3>1
  <2>2. CASE targets # <<>>
    <3> DEFINE S == {n \in DOMAIN Chosen : Chosen[n].usage}
    <3>1. Counted = Picked(Chosen, S) /\ S \in SUBSET DOMAIN Chosen
      BY <2>2 DEF Counted, WithUsage
    <3> HIDE DEF S
    <3>2. /\ IsSequence(Counted) /\ Range(Counted) \subseteq Range(Chosen)
          /\ DOMAIN Counted = 1..Cardinality(S) /\ S \in SUBSET Nat /\ IsFiniteSet(S)
      BY <1>1, <3>1, PickedOfList
    <3>3. PICK at : /\ \A n \in 1..Cardinality(S) : at[n] \in S /\ Picked(Chosen, S)[n] = Chosen[at[n]]
                    /\ \A n, m \in 1..Cardinality(S) : at[n] = at[m] => n = m
      BY <3>2, PickedAt
    <3>4. ASSUME NEW p \in DOMAIN Counted, NEW q \in DOMAIN Counted, Counted[p].id = Counted[q].id
          PROVE  p = q
      <4>1. /\ Counted[p] = Chosen[at[p]] /\ at[p] \in DOMAIN Chosen
            /\ Counted[q] = Chosen[at[q]] /\ at[q] \in DOMAIN Chosen
        BY <3>1, <3>2, <3>3
      <4>2. at[p] = at[q]
        BY <1>1, <3>4, <4>1
      <4>3. QED
        BY <3>2, <3>3, <4>2
    <3>5. QED
      BY <3>2, <3>4
  <2>3. QED
    BY <2>1, <2>2
<1>3. ASSUME NEW p \in DOMAIN Counted
      PROVE  Counted[p].id \in Scopes
  <2>1. Counted[p] \in Range(Chosen)
    BY <1>2, ListElements
  <2>2. PICK b \in Range(setup.accounts) : SameAccount(Counted[p], b)
    BY <1>1, <2>1
  <2>3. Counted[p].id = b.id
    BY <2>2, SameFields
  <2>4. QED
    BY <2>3 DEF Scopes
<1>4. QED
  BY <1>2, <1>3

\* Users that targets apart are given have different ids, none of them an account's.
LEMMA NamedApart ==
  ASSUME ConfigInv, Apart, NEW n \in DOMAIN UserTargets, NEW i \in NamedBy(setup.users, UserTargets[n])
  PROVE  /\ \A m \in DOMAIN UserTargets : i \in NamedBy(setup.users, UserTargets[m]) => m = n
         /\ \A a \in Range(Chosen) : a.id # i
<1>1. \A m \in DOMAIN UserTargets : i \in NamedBy(setup.users, UserTargets[m]) => m = n
  BY Zenon DEF Apart
<1>2. ASSUME NEW a \in Range(Chosen)
      PROVE  a.id # i
  <2>1. PICK b \in Range(setup.accounts) : SameAccount(a, b)
    BY ChosenAccounts
  <2>2. a.id \in {c.id : c \in Range(setup.accounts)}
    BY <2>1, SameFields
  <2>3. QED
    BY <2>2 DEF Apart
<1>3. QED
  BY <1>1, <1>2

---------------------------------------------------------------------------
(* The invariant of a collect.                                             *)

Counting ==
  /\ day \in Days /\ today \in FirstDay..day
  /\ used \subseteq Unit /\ IsFiniteSet(used) /\ Cardinality(used) \in 0..MaxUse
  /\ \A u \in used : u.n <= Cardinality(used) /\ u.day <= day
  /\ began = [units |-> began.units, read |-> began.read]
  /\ began.units \in 0..Cardinality(used) /\ began.read \in FirstDay..day

\* At each request, what was fetched by those before it.
Accounted ==
  /\ step \in Steps /\ round \in 0..MaxRounds
  /\ selected = IF step \in {"idle", "accounts"} THEN <<>> ELSE Chosen
  /\ step \in {"idle", "accounts", "stats"} => stats = <<>>
  /\ step \notin {"idle", "accounts", "stats"} =>
       /\ DOMAIN stats = {a.id : a \in Range(Counted)}
       /\ \A s \in DOMAIN stats : stats[s] \in 0..MaxUse

Full(u) == u.usage \in [Products -> 0..MaxUse] /\ u.quota = UserQuota

Resolved ==
  /\ IsSequence(users) /\ Len(users) <= Len(UserTargets)
  /\ step \in {"idle", "accounts", "stats"} => users = <<>>
  /\ step = "resolve" => Len(users) < Len(UserTargets)
  /\ step \in {"usage", "quota"} => users # <<>>
  /\ step = "week" => Len(users) = Len(UserTargets)
  /\ \A n \in DOMAIN users : users[n].id \in NamedBy(setup.users, UserTargets[n])
  /\ \A n \in DOMAIN users : n < Len(users) \/ step \in {"resolve", "week"} => Full(users[n])
  /\ step = "quota" => users[Len(users)].usage \in [Products -> 0..MaxUse]

AskedWeeks ==
  /\ IsSequence(items)
  /\ step # "week" => items = <<>>
  /\ step = "week" => Len(items) <= Len(WeekScopes)
  /\ \A n \in DOMAIN items : /\ items[n] = WeekItem(WeekScopes[n], items[n].value)
                             /\ items[n].value \in 0..MaxUse \cup {Missing}

CollectInv == ConfigInv /\ Counting /\ Accounted /\ Resolved /\ AskedWeeks

LEMMA ConfigStep ==
  ASSUME [Next]_vars
  PROVE  /\ setup' = setup /\ targets' = targets /\ Chosen' = Chosen /\ Counted' = Counted
         /\ UserTargets' = UserTargets /\ UserQuota' = UserQuota /\ Scopes' = Scopes
<1>1. setup' = setup /\ targets' = targets
  BY DEF Next, Use, Midnight, Begin, Collect, FetchAccounts, FetchTodayStats, ResolveUser, FetchUsage,
         FetchQuota, FetchWeek, WeekFails, Finish, Fails, Failed, Returned, vars
<1>2. Chosen' = Chosen
  BY <1>1 DEF Chosen, AccountTargets
<1>3. Counted' = Counted
  BY <1>1, <1>2 DEF Counted, WithUsage
<1>4. UserTargets' = UserTargets /\ UserQuota' = UserQuota /\ Scopes' = Scopes
  BY <1>1 DEF UserTargets, UserQuota, AsksQuota, Scopes
<1>5. QED
  BY <1>1, <1>2, <1>3, <1>4

LEMMA ConfigKept == ConfigInv /\ [Next]_vars => ConfigInv'
BY ConfigStep DEF ConfigInv

\* What the upstream counts of a scope is part of all it counts.
LEMMA UsedInBound ==
  ASSUME Counting, NEW s, NEW p, NEW from, NEW to
  PROVE  UsedIn(s, p, from, to) \in 0..MaxUse
<1> DEFINE U == {u \in used : u.scope = s /\ u.product = p /\ u.day \in from..to}
<1>1. IsFiniteSet(used) /\ Cardinality(used) \in 0..MaxUse /\ MaxUse \in Nat
  BY BoundAssumption DEF Counting
<1>2. Cardinality(U) \in Nat /\ Cardinality(U) <= Cardinality(used)
  <2>1. U \in SUBSET used
    OBVIOUS
  <2> HIDE DEF U
  <2>2. QED
    BY <1>1, <2>1, FS_Subset, FS_CardinalityType
<1> HIDE DEF U
<1>3. Cardinality(U) \in 0..MaxUse
  BY <1>1, <1>2
<1>4. QED
  BY <1>3 DEF UsedIn, U

LEMMA CountingKept == Counting /\ [Next]_vars => Counting'
<1> SUFFICES ASSUME Counting, [Next]_vars
             PROVE  Counting'
  OBVIOUS
<1> USE BoundAssumption
<1>1. ASSUME NEW s \in Scopes, NEW p \in Products, Use(s, p)
      PROVE  Counting'
  <2> DEFINE u == [n |-> Cardinality(used) + 1, scope |-> s, product |-> p, day |-> day]
             c == Cardinality(used)
  <2>1. used' = used \cup {u} /\ c < MaxUse /\ c \in Nat /\ IsFiniteSet(used)
        /\ UNCHANGED <<setup, day, today, began>>
    BY <1>1 DEF Use, Counting, collectVars
  <2>2. u \notin used /\ u.n = c + 1 /\ u.day = day /\ u \in Unit
    <3>1. u.n = c + 1 /\ u.day = day
      OBVIOUS
    <3>2. c + 1 \in 1..MaxUse /\ day \in Days
      BY <2>1 DEF Counting
    <3>3. u \in Unit
      BY <3>2 DEF Unit
    <3>4. ~(u.n <= c)
      BY <2>1, <3>1
    <3>5. u \notin used
      BY <3>4 DEF Counting
    <3>6. QED
      BY <3>1, <3>3, <3>5
  <2> HIDE DEF u
  <2>3. IsFiniteSet(used') /\ Cardinality(used') = c + 1
    BY <2>1, <2>2, FS_AddElement
  <2>4. Scopes' = Scopes /\ Unit' = Unit
    BY <2>1 DEF Scopes, Unit
  <2>5. ASSUME NEW v \in used'
        PROVE  v \in Unit' /\ v.n <= c + 1 /\ v.day <= day
    <3>1. CASE v = u
      BY <2>1, <2>2, <2>4, <3>1 DEF Counting, Days
    <3>2. CASE v \in used
      <4>1. v \in Unit /\ v.n <= c /\ v.day <= day
        BY <3>2 DEF Counting
      <4>2. v.n \in Int
        BY <4>1 DEF Unit
      <4>3. QED
        BY <2>1, <2>4, <4>1, <4>2
    <3>3. QED
      BY <2>1, <3>1, <3>2
  <2>6. day' \in Days' /\ today' \in FirstDay..day' /\ began'.read \in FirstDay..day'
        /\ began' = [units |-> began'.units, read |-> began'.read]
    BY <2>1 DEF Counting, Days
  <2>7. Cardinality(used') \in 0..MaxUse /\ began'.units \in 0..Cardinality(used')
    BY <2>1, <2>3 DEF Counting
  <2>8. used' \subseteq Unit' /\ \A v \in used' : v.n <= Cardinality(used') /\ v.day <= day'
    BY <2>1, <2>3, <2>5
  <2>9. QED
    BY <2>3, <2>6, <2>7, <2>8 DEF Counting
<1>2. CASE Midnight
  <2>1. ASSUME NEW v \in used
        PROVE  v.day <= day + 1
    BY <2>1 DEF Counting, Unit, Days
  <2>2. QED
    BY <1>2, <2>1 DEF Counting, Midnight, collectVars, Days, Unit, Scopes
<1>3. CASE Begin
  BY <1>3 DEF Counting, Begin, Days, Unit, Scopes
<1>4. CASE FetchTodayStats
  BY <1>4 DEF Counting, FetchTodayStats, Days, Unit, Scopes
<1>5. ASSUME Returned, UNCHANGED <<setup, day, used>>
      PROVE  Counting'
  BY <1>5 DEF Counting, Returned, NotBegun, Days, Unit, Scopes
<1>6. CASE UNCHANGED <<setup, day, used, today, began>>
  BY <1>6 DEF Counting, Days, Unit, Scopes
<1>7. CASE Collect
  BY <1>4, <1>5, <1>6, <1>7 DEF Collect, FetchAccounts, ResolveUser, FetchUsage, FetchQuota, FetchWeek,
     WeekFails, Finish, Fails, Failed, Returned
<1>8. CASE UNCHANGED vars
  BY <1>6, <1>8 DEF vars, collectVars
<1>9. QED
  BY <1>1, <1>2, <1>3, <1>7, <1>8 DEF Next

LEMMA AccountedKept == ConfigInv /\ Counting /\ Accounted /\ [Next]_vars => Accounted'
<1> SUFFICES ASSUME ConfigInv, Counting, Accounted, [Next]_vars
             PROVE  Accounted'
  OBVIOUS
<1>1. Chosen' = Chosen /\ Counted' = Counted /\ WithUsage(Chosen) = Counted /\ targets' = targets
  BY ConfigStep DEF Counted
<1>2. MaxRounds \in Nat
  BY BoundAssumption
<1>3. AfterStats \in {"resolve", "week"}
  BY DEF AfterStats
<1>4. CASE UNCHANGED <<step, round, selected, stats>>
  BY <1>1, <1>4 DEF Accounted
<1>5. CASE Begin
  BY <1>1, <1>2, <1>5 DEF Accounted, Begin, Steps
<1>6. CASE FetchAccounts
  <2>1. selected' = Chosen /\ stats' = <<>> /\ round' = round /\ step = "accounts"
        /\ step' = IF WithUsage(selected') = <<>> THEN AfterStats ELSE "stats"
    BY <1>6 DEF FetchAccounts, Accounted, Chosen
  <2>2. step' = IF Counted = <<>> THEN AfterStats ELSE "stats"
    BY <1>1, <2>1
  <2>3. CASE Counted = <<>>
    <3>1. step' \in {"resolve", "week"}
      BY <1>3, <2>2, <2>3
    <3>2. DOMAIN stats' = {a.id : a \in Range(Counted)} /\ DOMAIN stats' = {}
      BY <2>1, <2>3 DEF Range
    <3>3. QED
      BY <1>1, <2>1, <3>1, <3>2 DEF Accounted, Steps
  <2>4. CASE Counted # <<>>
    BY <1>1, <2>1, <2>2, <2>4 DEF Accounted, Steps
  <2>5. QED
    BY <2>3, <2>4
<1>7. CASE FetchTodayStats
  <2>1. /\ step = "stats" /\ step' = AfterStats /\ selected' = Chosen /\ round' = round
        /\ stats' = [s \in {a.id : a \in Range(WithUsage(selected))} |-> UsedIn(s, "codex", day, day)]
    BY <1>7 DEF FetchTodayStats, Accounted
  <2>2. selected = Chosen
    BY <2>1 DEF Accounted
  <2>3. stats' = [s \in {a.id : a \in Range(Counted)} |-> UsedIn(s, "codex", day, day)]
    BY <1>1, <2>1, <2>2
  <2>4. \A s : UsedIn(s, "codex", day, day) \in 0..MaxUse
    BY UsedInBound
  <2>5. DOMAIN stats' = {a.id : a \in Range(Counted)} /\ \A s \in DOMAIN stats' : stats'[s] \in 0..MaxUse
    BY <2>3, <2>4
  <2>6. QED
    BY <1>1, <1>3, <2>1, <2>5 DEF Accounted, Steps
<1>8. CASE ResolveUser \/ FetchUsage \/ FetchQuota
  <2>1. UNCHANGED <<round, selected, stats>> /\ step \in {"resolve", "usage", "quota"}
        /\ step' \in {"resolve", "usage", "quota", "week"}
    BY <1>8 DEF ResolveUser, FetchUsage, FetchQuota
  <2>2. QED
    BY <1>1, <2>1 DEF Accounted, Steps
<1>9. ASSUME Returned
      PROVE  Accounted'
  BY <1>1, <1>9 DEF Accounted, Returned, Steps
<1>10. QED
  BY <1>4, <1>5, <1>6, <1>7, <1>8, <1>9
     DEF Next, Use, Midnight, Collect, FetchWeek, WeekFails, Finish, Fails, Failed, collectVars, vars

LEMMA ResolvedKept == ConfigInv /\ Counting /\ Resolved /\ [Next]_vars => Resolved'
<1> SUFFICES ASSUME ConfigInv, Counting, Resolved, [Next]_vars
             PROVE  Resolved'
  OBVIOUS
<1> DEFINE named(n) == NamedBy(setup.users, UserTargets[n])
           usages == [Products -> 0..MaxUse]
<1>1. /\ UserTargets' = UserTargets /\ UserQuota' = UserQuota /\ setup' = setup
      /\ \A u : Full(u)' <=> Full(u)
  BY ConfigStep DEF Full
<1>2. IsSequence(UserTargets) /\ Len(UserTargets) \in Nat /\ DOMAIN UserTargets = 1..Len(UserTargets)
      /\ (UserTargets = <<>> <=> Len(UserTargets) = 0)
  BY UserTargetList, ListElements
<1>3. IsSequence(users) /\ Len(users) \in Nat /\ DOMAIN users = 1..Len(users)
      /\ (users = <<>> <=> Len(users) = 0)
  BY ListElements DEF Resolved
<1>4. CASE UNCHANGED <<step, users>>
  BY <1>1, <1>4 DEF Resolved
<1>5. IsSequence(<<>>) /\ Len(<<>>) = 0 /\ DOMAIN <<>> = {}
  BY DEF IsSequence
<1>6. ASSUME users' = <<>>, step' \in {"idle", "accounts", "stats", "resolve", "week"},
             step' = "resolve" <=> step' \notin {"idle", "accounts", "stats"} /\ UserTargets # <<>>
      PROVE  Resolved'
  <2>1. step' = "resolve" => 0 < Len(UserTargets)
    BY <1>2, <1>6
  <2>2. step' = "week" => 0 = Len(UserTargets)
    BY <1>2, <1>6
  <2>3. QED
    BY <1>1, <1>2, <1>5, <1>6, <2>1, <2>2 DEF Resolved
<1>7. CASE Begin
  <2>1. users' = <<>> /\ step' = "accounts"
    BY <1>7 DEF Begin, Resolved
  <2>2. QED
    BY <1>6, <2>1
<1>8. CASE FetchAccounts \/ FetchTodayStats
  <2>1. users' = <<>> /\ (step' = AfterStats \/ step' = "stats")
    BY <1>8 DEF FetchAccounts, FetchTodayStats, Resolved
  <2>2. QED
    BY <1>6, <2>1 DEF AfterStats
<1>9. CASE ResolveUser
  <2> DEFINE l == Len(users)
  <2>1. step = "resolve" /\ step' = "usage" /\ l < Len(UserTargets) /\ Target = UserTargets[l + 1]
    BY <1>9 DEF ResolveUser, Resolved, Target
  <2>2. PICK i \in named(l + 1) : users' = Append(users, [id |-> i])
    <3>1. CASE Searched(Target)
      <4>1. PICK found \in SetToSeqs(Similar(setup.users, Keyword(Target))) :
              found # <<>> /\ users' = Append(users, [id |-> PickUser(found, Keyword(Target)).id])
        BY <1>9, <3>1 DEF ResolveUser
      <4>2. IsFiniteSet(Similar(setup.users, Keyword(Target)))
        <5>1. IsSequence(setup.users)
          BY ConfiguredTargets DEF IsSetup
        <5>2. IsFiniteSet(Range(setup.users))
          BY <5>1, RangeIsFinite
        <5>3. Similar(setup.users, Keyword(Target)) \subseteq Range(setup.users)
          BY DEF Similar
        <5>4. QED
          BY <5>2, <5>3, FS_Subset
      <4>3. PickUser(found, Keyword(Target)).id \in NamedBy(setup.users, Target)
        BY <3>1, <4>1, <4>2, PickedUserIsNamed
      <4>4. QED
        BY <2>1, <4>1, <4>3
    <3>2. CASE ~Searched(Target)
      <4>1. users' = Append(users, [id |-> Target.id])
        BY <1>9, <3>2 DEF ResolveUser
      <4>2. Target.id \in NamedBy(setup.users, Target)
        BY <3>2 DEF NamedBy
      <4>3. QED
        BY <2>1, <4>1, <4>2
    <3>3. QED
      BY <3>1, <3>2
  <2>3. /\ IsSequence(users') /\ Len(users') = l + 1 /\ DOMAIN users' = 1..(l + 1)
        /\ (\A n \in 1..l : users'[n] = users[n]) /\ users'[l + 1] = [id |-> i]
    BY <1>3, <2>2, AppendToList
  <2> HIDE DEF named
  <2>4. ASSUME NEW n \in 1..(l + 1)
        PROVE  users'[n].id \in named(n) /\ (n < l + 1 => Full(users'[n]))
    <3>1. CASE n = l + 1
      BY <1>3, <2>2, <2>3, <3>1
    <3>2. CASE n \in 1..l
      BY <1>3, <2>1, <2>3, <3>2 DEF Resolved, named
    <3>3. QED
      BY <1>3, <3>1, <3>2
  <2>5. users' # <<>> /\ Len(users') <= Len(UserTargets)
    BY <1>2, <1>3, <1>5, <2>1, <2>3
  <2>6. QED
    BY <1>1, <2>1, <2>3, <2>4, <2>5 DEF Resolved, named
<1>10. CASE FetchUsage \/ FetchQuota
  <2> DEFINE l == Len(users)
  <2>1. users # <<>> /\ l \in DOMAIN users /\ l # 0
    BY <1>3, <1>10 DEF FetchUsage, FetchQuota, Resolved
  <2>2. PICK x : /\ users' = [users EXCEPT ![l] = x] /\ x.id = users[l].id
                 /\ FetchUsage => x.usage \in usages
                 /\ FetchQuota => Full(x)
    <3>1. CASE FetchUsage
      <4> DEFINE x == [id |-> users[l].id, usage |-> [p \in Products |-> UserUsage(users[l].id, p)]]
      <4>1. users' = [users EXCEPT ![l] = x]
        BY <3>1 DEF FetchUsage
      <4>2. x.id = users[l].id /\ x.usage \in usages
        BY UsedInBound DEF UserUsage
      <4>3. ~FetchQuota
        BY <3>1 DEF FetchUsage, FetchQuota
      <4> HIDE DEF x
      <4>4. QED
        BY <4>1, <4>2, <4>3
    <3>2. CASE FetchQuota
      <4> DEFINE x == [id |-> users[l].id, usage |-> users[l].usage, quota |-> UserQuota]
      <4>1. users' = [users EXCEPT ![l] = x]
        BY <3>2 DEF FetchQuota
      <4>2. x.id = users[l].id /\ Full(x)
        BY <3>2 DEF FetchQuota, Resolved, Full
      <4>3. ~FetchUsage
        BY <3>2 DEF FetchUsage, FetchQuota
      <4> HIDE DEF x
      <4>4. QED
        BY <4>1, <4>2, <4>3
    <3>3. QED
      BY <1>10, <3>1, <3>2
  <2>3. /\ IsSequence(users') /\ Len(users') = l /\ DOMAIN users' = DOMAIN users /\ users'[l] = x
        /\ \A n \in DOMAIN users : n # l => users'[n] = users[n]
    BY <1>3, <2>1, <2>2, LastReplaced
  <2> HIDE DEF named, usages
  <2>4. ASSUME NEW n \in DOMAIN users
        PROVE  users'[n].id \in named(n) /\ (n < l => Full(users'[n]))
    <3>1. users[n].id \in named(n) /\ (n < l => Full(users[n]))
      BY DEF Resolved, named
    <3>2. CASE n = l
      BY <2>2, <2>3, <3>1, <3>2
    <3>3. CASE n # l
      BY <2>3, <3>1, <3>3
    <3>4. QED
      BY <3>2, <3>3
  <2>5. users' # <<>> /\ l <= Len(UserTargets)
    BY <1>5, <2>1, <2>3 DEF Resolved
  <2>6. CASE FetchUsage
    BY <1>1, <2>2, <2>3, <2>4, <2>5, <2>6 DEF Resolved, FetchUsage, named, usages
  <2>7. CASE FetchQuota
    <3>1. \A n \in DOMAIN users : Full(users'[n])
      BY <1>3, <2>2, <2>3, <2>4, <2>7
    <3>2. /\ step' \in {"resolve", "week"} /\ (step' = "resolve" => l < Len(UserTargets))
          /\ (step' = "week" => l = Len(UserTargets))
      <4>1. step' = IF l < Len(UserTargets) THEN "resolve" ELSE "week"
        BY <2>7 DEF FetchQuota
      <4> HIDE DEF l
      <4> DEFINE k == Len(UserTargets)
      <4>2. l \in Nat /\ k \in Nat /\ l <= k
        BY <1>2, <1>3, <2>5 DEF l
      <4> HIDE DEF k
      <4>3. CASE l < Len(UserTargets)
        BY <4>1, <4>3
      <4>4. CASE ~(l < Len(UserTargets))
        <5>1. l = Len(UserTargets)
          BY <4>2, <4>4 DEF k
        <5>2. QED
          BY <4>1, <4>4, <5>1
      <4>5. QED
        BY <4>3, <4>4
    <3>3. QED
      BY <1>1, <2>3, <2>4, <2>5, <3>1, <3>2 DEF Resolved, named
  <2>8. QED
    BY <1>10, <2>6, <2>7
<1>11. ASSUME Returned
       PROVE  Resolved'
  <2>1. users' = <<>> /\ step' = "idle"
    BY <1>11 DEF Returned
  <2>2. QED
    BY <1>6, <2>1
<1>12. QED
  BY <1>4, <1>7, <1>8, <1>9, <1>10, <1>11
     DEF Next, Use, Midnight, Collect, FetchWeek, WeekFails, Finish, Fails, Failed, collectVars, vars

\* The scopes whose week is asked for: the ids of the users, then of the accounts.
IdsOf(us, acc) == [n \in DOMAIN us |-> us[n].id] \o [n \in DOMAIN acc |-> acc[n].id]

LEMMA IdsInOrder ==
  ASSUME NEW us, IsSequence(us), NEW acc, IsSequence(acc)
  PROVE  /\ IsSequence(IdsOf(us, acc)) /\ Len(IdsOf(us, acc)) = Len(us) + Len(acc)
         /\ \A n \in 1..Len(us) : IdsOf(us, acc)[n] = us[n].id
         /\ \A n \in 1..Len(acc) : IdsOf(us, acc)[Len(us) + n] = acc[n].id
<1> DEFINE l == Len(us)
           m == Len(acc)
           a == [n \in DOMAIN us |-> us[n].id]
           b == [n \in DOMAIN acc |-> acc[n].id]
           T == Range(a) \cup Range(b)
<1>1. l \in Nat /\ DOMAIN us = 1..l /\ m \in Nat /\ DOMAIN acc = 1..m
  BY ListElements
<1>2. a = [n \in 1..l |-> us[n].id] /\ b = [n \in 1..m |-> acc[n].id]
  BY <1>1
<1>3. a \in [1..l -> T] /\ b \in [1..m -> T] /\ DOMAIN a = 1..l /\ DOMAIN b = 1..m
  BY <1>1, <1>2 DEF Range
<1> HIDE DEF a, b, T, l, m
<1>4. a \in Seq(T) /\ b \in Seq(T) /\ Len(a) = l /\ Len(b) = m
  <2>1. a \in Seq(T) /\ Len(a) = l
    BY <1>1, <1>3
  <2>2. b \in Seq(T) /\ Len(b) = m
    BY <1>1, <1>3
  <2>3. QED
    BY <2>1, <2>2
<1> DEFINE c == a \o b
<1>5. /\ c \in Seq(T) /\ Len(c) = l + m
      /\ (\A n \in 1..l : c[n] = a[n]) /\ \A n \in 1..m : c[l + n] = b[n]
  BY <1>1, <1>4
<1>6. IdsOf(us, acc) = c
  BY DEF IdsOf, a, b
<1> HIDE DEF c
<1>7. \A n \in 1..Len(c) : c[n] \in Range(c)
  BY <1>5 DEF Range
<1>8. c \in Seq(Range(c))
  BY <1>5, <1>7
<1>9. QED
  BY <1>2, <1>5, <1>6, <1>8 DEF IsSequence, l, m

LEMMA AskedWeeksKept ==
  ConfigInv /\ Counting /\ Accounted /\ Resolved /\ AskedWeeks /\ [Next]_vars => AskedWeeks'
<1> SUFFICES ASSUME ConfigInv, Counting, Accounted, Resolved, AskedWeeks, [Next]_vars
             PROVE  AskedWeeks'
  OBVIOUS
<1>1. Counted' = Counted /\ targets' = targets /\ Counted = WithUsage(Chosen) /\ IsSequence(Counted)
  BY ConfigStep, CountedAccounts DEF Counted
<1>2. Resolved' /\ Accounted' /\ IsSequence(users')
  BY ResolvedKept, AccountedKept DEF Resolved
<1>3. IsSequence(<<>>) /\ Len(<<>>) = 0 /\ DOMAIN <<>> = {}
  BY DEF IsSequence
<1>4. ASSUME items' = <<>>
      PROVE  AskedWeeks'
  <2>1. ASSUME step' = "week"
        PROVE  Len(items') <= Len(WeekScopes')
    <3>1. selected' = Chosen /\ WithUsage(Chosen)' = Counted
      BY <1>1, <1>2, <2>1, ConfigStep DEF Accounted, WithUsage
    <3>2. WeekScopes' = IdsOf(users', Counted)
      BY <1>1, <3>1 DEF WeekScopes, IdsOf, WithUsage
    <3>3. Len(IdsOf(users', Counted)) \in Nat
      BY <1>1, <1>2, IdsInOrder, ListElements
    <3>4. QED
      BY <1>3, <1>4, <3>2, <3>3
  <2>2. QED
    BY <1>3, <1>4, <2>1 DEF AskedWeeks
<1>5. CASE UNCHANGED <<collectVars, targets>>
  <2>1. WeekScopes' = WeekScopes /\ \A s, v : WeekItem(s, v)' = WeekItem(s, v)
    BY <1>5 DEF WeekScopes, WithUsage, WeekItem, collectVars
  <2>2. QED
    BY <1>5, <2>1 DEF AskedWeeks, collectVars
<1>6. ASSUME step = "week", Len(items) < Len(WeekScopes), NEW v \in 0..MaxUse \cup {Missing},
             items' = Append(items, WeekItem(NextWeek, v)),
             UNCHANGED <<targets, step, today, selected, users>>
      PROVE  AskedWeeks'
  <2> DEFINE l == Len(items)
             i == WeekItem(NextWeek, v)
  <2>1. WeekScopes' = WeekScopes /\ \A s, x : WeekItem(s, x)' = WeekItem(s, x)
    BY <1>6 DEF WeekScopes, WithUsage, WeekItem
  <2>2. IsSequence(items) /\ l \in Nat /\ DOMAIN items = 1..l
    BY ListElements DEF AskedWeeks
  <2>3. i = WeekItem(WeekScopes[l + 1], i.value) /\ i.value = v
    BY DEF NextWeek, WeekItem
  <2> HIDE DEF i
  <2>4. /\ IsSequence(items') /\ Len(items') = l + 1 /\ DOMAIN items' = 1..(l + 1)
        /\ (\A n \in 1..l : items'[n] = items[n]) /\ items'[l + 1] = i
    BY <1>6, <2>2, AppendToList DEF i
  <2>5. ASSUME NEW n \in 1..(l + 1)
        PROVE  /\ items'[n] = WeekItem(WeekScopes[n], items'[n].value)
               /\ items'[n].value \in 0..MaxUse \cup {Missing}
    <3>1. CASE n = l + 1
      BY <1>6, <2>3, <2>4, <3>1
    <3>2. CASE n \in 1..l
      BY <2>2, <2>4, <3>2 DEF AskedWeeks
    <3>3. QED
      BY <2>2, <3>1, <3>2
  <2>6. Len(items') <= Len(WeekScopes)
    <3> DEFINE k == Len(WeekScopes)
    <3>1. k \in Nat
      <4>1. selected = Chosen /\ IsSequence(users)
        BY <1>6 DEF Accounted, Resolved
      <4>2. WeekScopes = IdsOf(users, Counted)
        BY <1>1, <4>1 DEF WeekScopes, IdsOf
      <4>3. QED
        BY <1>1, <4>1, <4>2, IdsInOrder, ListElements
    <3>2. l < k
      BY <1>6
    <3> HIDE DEF k
    <3>3. l + 1 <= k
      BY <2>2, <3>1, <3>2
    <3>4. QED
      BY <2>4, <3>3 DEF k
  <2>7. QED
    BY <1>6, <2>1, <2>4, <2>5, <2>6 DEF AskedWeeks
<1>7. CASE FetchWeek
  BY <1>6, <1>7, UsedInBound DEF FetchWeek
<1>8. CASE WeekFails
  BY <1>6, <1>8 DEF WeekFails
<1>9. ASSUME step # "week", items' = items
      PROVE  AskedWeeks'
  BY <1>4, <1>9 DEF AskedWeeks
<1>10. CASE Begin \/ FetchAccounts \/ FetchTodayStats \/ ResolveUser \/ FetchUsage \/ FetchQuota
  BY <1>9, <1>10 DEF Begin, FetchAccounts, FetchTodayStats, ResolveUser, FetchUsage, FetchQuota
<1>11. CASE Fails \/ Finish
  BY <1>4, <1>11 DEF Fails, Finish, Failed, Returned
<1>12. QED
  BY <1>5, <1>7, <1>8, <1>10, <1>11 DEF Next, Use, Midnight, Collect, collectVars, vars

\* The invariant holds at the start, and every step keeps it.
LEMMA CollectInit == Init => CollectInv
<1> SUFFICES ASSUME Init
             PROVE  CollectInv
  OBVIOUS
<1>1. IsSequence(<<>>) /\ Len(<<>>) = 0 /\ DOMAIN <<>> = {}
  BY DEF IsSequence
<1>2. ConfigInv
  BY DEF Init, ConfigInv
<1>3. IsFiniteSet({}) /\ Cardinality({}) = 0
  BY FS_EmptySet
<1>4. Counting
  BY <1>3, BoundAssumption DEF Init, Counting, NotBegun, Days
<1>5. Accounted
  BY BoundAssumption DEF Init, Accounted, Steps
<1>6. Resolved
  BY <1>1, <1>2, UserTargetList, ListElements DEF Init, Resolved
<1>7. AskedWeeks
  BY <1>1 DEF Init, AskedWeeks
<1>8. QED
  BY <1>2, <1>4, <1>5, <1>6, <1>7 DEF CollectInv

LEMMA CollectKept == CollectInv /\ [Next]_vars => CollectInv'
BY ConfigKept, CountingKept, AccountedKept, ResolvedKept, AskedWeeksKept DEF CollectInv

---------------------------------------------------------------------------
(* The items of a collect.                                                 *)

LEMMA ConcatList ==
  ASSUME NEW a, IsSequence(a), NEW b, IsSequence(b)
  PROVE  /\ IsSequence(a \o b) /\ Range(a \o b) = Range(a) \cup Range(b)
         /\ Len(a \o b) = Len(a) + Len(b) /\ DOMAIN (a \o b) = 1..(Len(a) + Len(b))
         /\ \A n \in 1..Len(a) : (a \o b)[n] = a[n]
         /\ \A n \in 1..Len(b) : (a \o b)[Len(a) + n] = b[n]
<1>1. a \in Seq(Range(a)) /\ b \in Seq(Range(b))
  BY DEF IsSequence
<1>2. IsSequence(a \o b) /\ Range(a \o b) = Range(a) \cup Range(b)
  BY <1>1, ConcatElements DEF IsSequence
<1> DEFINE T == Range(a) \cup Range(b)
<1>3. a \in Seq(T) /\ b \in Seq(T)
  BY <1>1
<1> HIDE DEF T
<1>4. QED
  BY <1>2, <1>3

\* The positions of a list with usage of a category, and the scopes of the items there.
Of(list, category) == {n \in DOMAIN list : list[n].category = category /\ list[n].product = "codex"}

ScopesOf(list, category) == {list[n].scope : n \in Of(list, category)}

\* No scope is found twice.
Once(list, category) == \A n, m \in Of(list, category) : list[n].scope = list[m].scope => n = m

\* Where the items of a category are in two lists of which s is made, the first of l items.
Split(s, a, b, l, c) ==
  /\ \A n \in Of(s, c) : n \in Int
  /\ \A n \in Of(s, c) : \/ n \in 1..l /\ n \in Of(a, c) /\ s[n] = a[n]
                         \/ n \notin 1..l /\ n - l \in Of(b, c) /\ s[n] = b[n - l]
  /\ \A n \in Of(a, c) : n \in Of(s, c) /\ s[n] = a[n]
  /\ \A n \in Of(b, c) : l + n \in Of(s, c) /\ s[l + n] = b[n]

LEMMA OfConcat ==
  ASSUME NEW a, IsSequence(a), NEW b, IsSequence(b), NEW c
  PROVE  Split(a \o b, a, b, Len(a), c)
<1> DEFINE l == Len(a)
           m == Len(b)
           s == a \o b
<1>1. l \in Nat /\ m \in Nat /\ DOMAIN a = 1..l /\ DOMAIN b = 1..m
  BY ListElements
<1>2. /\ DOMAIN s = 1..(l + m)
      /\ (\A n \in 1..l : s[n] = a[n]) /\ \A n \in 1..m : s[l + n] = b[n]
  BY ConcatList
<1> HIDE DEF l, m, s
<1>3. ASSUME NEW n \in Of(s, c)
      PROVE  \/ n \in 1..l /\ n \in Of(a, c) /\ s[n] = a[n]
             \/ n \notin 1..l /\ n - l \in Of(b, c) /\ s[n] = b[n - l]
  <2>1. n \in 1..(l + m) /\ s[n].category = c /\ s[n].product = "codex"
    BY <1>2 DEF Of
  <2>2. CASE n <= l
    <3>1. n \in 1..l
      BY <1>1, <2>1, <2>2
    <3>2. s[n] = a[n]
      BY <1>2, <3>1
    <3>3. QED
      BY <1>1, <2>1, <3>1, <3>2 DEF Of
  <2>3. CASE ~(n <= l)
    <3>1. n - l \in 1..m /\ l + (n - l) = n /\ n \notin 1..l
      BY <1>1, <2>1, <2>3
    <3>2. s[n] = b[n - l]
      BY <1>2, <3>1
    <3>3. QED
      BY <1>1, <2>1, <3>1, <3>2 DEF Of
  <2>4. QED
    BY <2>2, <2>3
<1>4. \A n \in Of(s, c) : n \in Int
  BY <1>1, <1>2 DEF Of
<1>5. ASSUME NEW n \in Of(a, c)
      PROVE  n \in Of(s, c) /\ s[n] = a[n]
  <2>1. n \in 1..l /\ a[n].category = c /\ a[n].product = "codex"
    BY <1>1 DEF Of
  <2>2. s[n] = a[n] /\ n \in 1..(l + m)
    BY <1>1, <1>2, <2>1
  <2>3. QED
    BY <1>2, <2>1, <2>2 DEF Of
<1>6. ASSUME NEW n \in Of(b, c)
      PROVE  l + n \in Of(s, c) /\ s[l + n] = b[n]
  <2>1. n \in 1..m /\ b[n].category = c /\ b[n].product = "codex"
    BY <1>1 DEF Of
  <2>2. s[l + n] = b[n] /\ l + n \in 1..(l + m)
    BY <1>1, <1>2, <2>1
  <2>3. QED
    BY <1>2, <2>1, <2>2 DEF Of
<1>7. Split(s, a, b, l, c)
  BY <1>3, <1>4, <1>5, <1>6 DEF Split
<1>8. QED
  BY <1>7 DEF s, l

LEMMA OnceConcat ==
  ASSUME NEW a, IsSequence(a), NEW b, IsSequence(b), NEW c, Once(a, c), Once(b, c),
         ScopesOf(a, c) \cap ScopesOf(b, c) = {}
  PROVE  Once(a \o b, c) /\ ScopesOf(a \o b, c) = ScopesOf(a, c) \cup ScopesOf(b, c)
<1> DEFINE l == Len(a)
           s == a \o b
<1>1. l \in Nat
  BY ListElements
<1>2. Split(s, a, b, l, c)
  BY OfConcat
<1> HIDE DEF l, s
<1>3. ASSUME NEW n \in Of(s, c), NEW k \in Of(s, c), s[n].scope = s[k].scope
      PROVE  n = k
  <2>1. CASE n \in Of(a, c) /\ k \in Of(a, c) /\ s[n] = a[n] /\ s[k] = a[k]
    BY <1>3, <2>1 DEF Once
  <2>2. CASE n - l \in Of(b, c) /\ k - l \in Of(b, c) /\ s[n] = b[n - l] /\ s[k] = b[k - l]
    <3>1. n - l = k - l
      BY <1>3, <2>2 DEF Once
    <3>2. QED
      BY <1>1, <1>2, <3>1 DEF Split
  <2>3. \A i \in Of(a, c), j \in Of(b, c) : a[i].scope # b[j].scope
    BY DEF ScopesOf
  <2>4. QED
    BY <1>2, <1>3, <2>1, <2>2, <2>3 DEF Split
<1>4. Once(s, c)
  BY <1>3 DEF Once
<1>5. ScopesOf(s, c) \subseteq ScopesOf(a, c) \cup ScopesOf(b, c)
  BY <1>2 DEF ScopesOf, Split
<1>6. ScopesOf(a, c) \subseteq ScopesOf(s, c) /\ ScopesOf(b, c) \subseteq ScopesOf(s, c)
  BY <1>2 DEF ScopesOf, Split
<1>7. QED
  BY <1>4, <1>5, <1>6 DEF s

\* The items of a category, each with a position of its own in a list of scopes.
Placed(list, c, scopes, at) ==
  /\ \A n \in Of(list, c) : at[n] \in DOMAIN scopes /\ scopes[at[n]] = list[n].scope
  /\ \A n, m \in Of(list, c) : at[n] = at[m] => n = m

Each(list, c, scopes) == \E at : Placed(list, c, scopes, at)

LEMMA EachConcat ==
  ASSUME NEW a, IsSequence(a), NEW b, IsSequence(b), NEW c, NEW x, IsSequence(x), NEW y, IsSequence(y),
         Each(a, c, x), Each(b, c, y)
  PROVE  Each(a \o b, c, x \o y)
<1> DEFINE l == Len(a)
           k == Len(x)
           s == a \o b
           z == x \o y
<1>1. /\ l \in Nat /\ k \in Nat /\ DOMAIN x = 1..k /\ Len(y) \in Nat /\ DOMAIN y = 1..Len(y)
  BY ListElements
<1>2. Split(s, a, b, l, c)
  BY OfConcat
<1>3. /\ DOMAIN z = 1..(k + Len(y))
      /\ (\A n \in 1..k : z[n] = x[n]) /\ \A n \in 1..Len(y) : z[k + n] = y[n]
  BY ConcatList
<1>4. PICK i : Placed(a, c, x, i)
  BY DEF Each
<1>5. PICK j : Placed(b, c, y, j)
  BY DEF Each
<1> DEFINE at == [n \in Of(s, c) |-> IF n \in 1..l THEN i[n] ELSE k + j[n - l]]
<1>6. \A n \in Of(s, c) : at[n] = IF n \in 1..l THEN i[n] ELSE k + j[n - l]
  OBVIOUS
<1> HIDE DEF at, l, k, s, z
<1>7. ASSUME NEW n \in Of(s, c)
      PROVE  \/ n \in Of(a, c) /\ s[n] = a[n] /\ at[n] = i[n] /\ i[n] \in 1..k /\ z[i[n]] = s[n].scope
             \/ /\ n - l \in Of(b, c) /\ s[n] = b[n - l] /\ at[n] = k + j[n - l] /\ j[n - l] \in 1..Len(y)
                /\ z[k + j[n - l]] = s[n].scope
  <2>1. CASE n \in 1..l /\ n \in Of(a, c) /\ s[n] = a[n]
    <3>1. i[n] \in 1..k /\ x[i[n]] = a[n].scope
      BY <1>1, <1>4, <2>1 DEF Placed
    <3>2. QED
      BY <1>3, <1>6, <2>1, <3>1
  <2>2. CASE n \notin 1..l /\ n - l \in Of(b, c) /\ s[n] = b[n - l]
    <3>1. j[n - l] \in 1..Len(y) /\ y[j[n - l]] = b[n - l].scope
      BY <1>1, <1>5, <2>2 DEF Placed
    <3>2. QED
      BY <1>3, <1>6, <2>2, <3>1
  <2>3. QED
    BY <1>2, <2>1, <2>2 DEF Split
<1>8. ASSUME NEW n \in Of(s, c)
      PROVE  at[n] \in DOMAIN z /\ z[at[n]] = s[n].scope
  BY <1>1, <1>3, <1>7
<1>9. ASSUME NEW n \in Of(s, c), NEW m \in Of(s, c), at[n] = at[m]
      PROVE  n = m
  <2>1. CASE n \in Of(a, c) /\ m \in Of(a, c) /\ at[n] = i[n] /\ at[m] = i[m]
    BY <1>4, <1>9, <2>1 DEF Placed
  <2>2. CASE /\ n - l \in Of(b, c) /\ m - l \in Of(b, c) /\ at[n] = k + j[n - l] /\ at[m] = k + j[m - l]
             /\ j[n - l] \in 1..Len(y) /\ j[m - l] \in 1..Len(y)
    <3>1. j[n - l] = j[m - l]
      <4>1. \A p, q \in 1..Len(y) : k + p = k + q => p = q
        BY <1>1
      <4>2. QED
        BY <1>9, <2>2, <4>1
    <3>2. n - l = m - l
      BY <1>5, <2>2, <3>1 DEF Placed
    <3>3. QED
      BY <1>1, <1>2, <3>2 DEF Split
  <2>3. ASSUME NEW p \in 1..k, NEW q \in 1..Len(y)
        PROVE  p # k + q
    BY <1>1
  <2>4. QED
    BY <1>7, <1>9, <2>1, <2>2, <2>3
<1>10. Placed(s, c, z, at)
  BY <1>8, <1>9 DEF Placed
<1>11. QED
  BY <1>10 DEF Each, s, z

\* Lists of which each has one item of a category at most, of a scope of its own.
Singles(ss, l, c, scopes, S) ==
  /\ DOMAIN ss = 1..l /\ ss = [n \in 1..l |-> ss[n]] /\ DOMAIN scopes = 1..l
  /\ \A n \in 1..l : IsSequence(ss[n]) /\ Once(ss[n], c) /\ ScopesOf(ss[n], c) \subseteq {scopes[n]} \cap S

\* One list of their elements.
Joined(f, ss, l, c, scopes, S) ==
  /\ IsSequence(f) /\ Range(f) = UNION {Range(ss[n]) : n \in 1..l}
  /\ Each(f, c, scopes) /\ ScopesOf(f, c) \subseteq S

LEMMA EachFlat ==
  ASSUME NEW ss, NEW l \in Nat, NEW c, NEW scopes, NEW S, Singles(ss, l, c, scopes, S)
  PROVE  Joined(FlattenSeq(ss), ss, l, c, scopes, S)
<1> DEFINE f == FlattenSeq(ss)
<1>0. /\ DOMAIN ss = 1..l /\ ss = [n \in 1..l |-> ss[n]] /\ DOMAIN scopes = 1..l
      /\ \A n \in 1..l : /\ IsSequence(ss[n]) /\ Once(ss[n], c)
                          /\ ScopesOf(ss[n], c) \subseteq {scopes[n]} \cap S
  BY Zenon DEF Singles
<1>1. \A n \in 1..l : ss[n] \in Seq(Range(ss[n]))
  BY <1>0 DEF IsSequence
<1>2. IsSequence(f) /\ FlatUpTo(f, ss, l) /\ Range(f) = UNION {Range(ss[n]) : n \in 1..l}
  BY <1>0, <1>1, FlatList DEF IsSequence
<1> HIDE DEF f
<1>3. DOMAIN f = 1..Len(f)
  BY <1>2, ListElements
<1>4. PICK row, col : FlatBy(f, ss, l, row, col)
  BY <1>2, Zenon DEF FlatUpTo
<1>5. \A n \in 1..l : DOMAIN ss[n] = 1..Len(ss[n])
  BY <1>0, ListElements
<1>6. ASSUME NEW p \in Of(f, c)
      PROVE  /\ p \in 1..Len(f) /\ row[p] \in 1..l /\ col[p] \in Of(ss[row[p]], c)
             /\ f[p] = ss[row[p]][col[p]]
  <2>1. p \in 1..Len(f) /\ f[p].category = c /\ f[p].product = "codex"
    BY <1>3 DEF Of
  <2>2. row[p] \in 1..l /\ col[p] \in 1..Len(ss[row[p]]) /\ f[p] = ss[row[p]][col[p]]
    BY <1>4, <2>1 DEF FlatBy
  <2>3. QED
    BY <1>5, <2>1, <2>2 DEF Of
<1>7. ASSUME NEW p \in Of(f, c)
      PROVE  scopes[row[p]] = f[p].scope /\ f[p].scope \in S
  <2>1. f[p].scope \in ScopesOf(ss[row[p]], c)
    BY <1>6 DEF ScopesOf
  <2>2. QED
    BY <1>0, <1>6, <2>1
<1>8. ASSUME NEW p \in Of(f, c), NEW q \in Of(f, c), row[p] = row[q]
      PROVE  p = q
  <2>1. col[p] = col[q]
    <3> DEFINE t == ss[row[p]]
    <3>1. col[p] \in Of(t, c) /\ col[q] \in Of(t, c) /\ t[col[p]].scope = t[col[q]].scope
      BY <1>6, <1>7, <1>8
    <3>2. Once(t, c)
      BY <1>0, <1>6
    <3> HIDE DEF t
    <3>3. QED
      BY <3>1, <3>2 DEF Once
  <2>2. QED
    BY <1>4, <1>6, <1>8, <2>1 DEF FlatBy
<1>9. Placed(f, c, scopes, row)
  BY <1>0, <1>6, <1>7, <1>8 DEF Placed
<1>10. Each(f, c, scopes) /\ ScopesOf(f, c) \subseteq S
  BY <1>7, <1>9 DEF Each, ScopesOf
<1>11. QED
  BY <1>2, <1>10, Zenon DEF Joined, f

\* The items, by their category.
UserTotal(u) == [category |-> "token_usage_user", scope |-> u.id, value |-> SumFunction(u.usage)]

DayItem(product, scope, value) ==
  [category |-> "token_usage_product", product |-> product, scope |-> scope, value |-> value,
   start |-> today, end |-> today]

ProductQuota(q) ==
  [category |-> "product_quota", product |-> "deepseek", window |-> q.window, left |-> q.left]

\* A list with one element for each position of another.
LEMMA MappedList ==
  ASSUME NEW l \in Nat, NEW s, DOMAIN s = 1..l, s = [n \in 1..l |-> s[n]]
  PROVE  IsSequence(s) /\ Len(s) = l
<1>1. s \in [1..l -> Range(s)]
  <2>1. \A n \in 1..l : s[n] \in Range(s)
    BY DEF Range
  <2>2. QED
    BY <2>1
<1>2. s \in Seq(Range(s)) /\ Len(s) = l
  BY <1>1
<1>3. QED
  BY <1>2 DEF IsSequence

LEMMA OneElement ==
  ASSUME NEW x
  PROVE  IsSequence(<<x>>) /\ Len(<<x>>) = 1 /\ Range(<<x>>) = {x} /\ DOMAIN <<x>> = {1} /\ <<x>>[1] = x
<1>1. DOMAIN <<x>> = {1} /\ <<x>>[1] = x /\ <<x>> \in Seq({x}) /\ Len(<<x>>) = 1
  OBVIOUS
<1>2. Range(<<x>>) = {x}
  BY <1>1 DEF Range
<1>3. QED
  BY <1>1, <1>2 DEF IsSequence

\* The items of a user: its total, one for each product it used, one for each quota.
LEMMA UserItemsMade ==
  ASSUME NEW u, Full(u), IsSequence(UserQuota), NEW c \in {"token_usage_product", "token_usage_product_week"}
  PROVE  /\ IsSequence(UserItems(u))
         /\ Range(UserItems(u)) =
              {UserTotal(u)} \cup {DayItem(p, u.id, u.usage[p]) : p \in {q \in Products : u.usage[q] > 0}}
                \cup {ProductQuota(q) : q \in Range(UserQuota)}
         /\ Once(UserItems(u), c)
         /\ ScopesOf(UserItems(u), c) \subseteq {u.id}
<1> DEFINE all == <<"codex", "deepseek">>
           S == {n \in 1..2 : u.usage[all[n]] > 0}
           shown == Picked(all, S)
           b == [n \in DOMAIN shown |-> DayItem(shown[n], u.id, u.usage[shown[n]])]
           d == [n \in DOMAIN u.quota |-> ProductQuota(u.quota[n])]
           l == Cardinality(S)
           m == Len(UserQuota)
<1>1. UserItems(u) = <<UserTotal(u)>> \o b \o d
  BY DEF UserItems, UserTotal, DayItem, ProductQuota
<1>2. S \in SUBSET Nat /\ IsFiniteSet(S) /\ l \in Nat
  <2>1. S \in SUBSET (1..2) /\ 2 \in Nat
    OBVIOUS
  <2> HIDE DEF S
  <2>2. QED
    BY <2>1, Within
<1>3. /\ DOMAIN shown = 1..l /\ Range(shown) = {all[k] : k \in S}
      /\ \A n, k \in 1..l : shown[n] = shown[k] => n = k
  <2>1. \A k, i \in S : all[k] = all[i] => k = i
    OBVIOUS
  <2> HIDE DEF S, all
  <2>2. QED
    BY <1>2, <2>1, PickedRange, PickedDistinct
<1>4. {all[k] : k \in S} = {q \in Products : u.usage[q] > 0}
  <2>1. all[1] = "codex" /\ all[2] = "deepseek" /\ Products = {all[1], all[2]}
    BY DEF Products
  <2> HIDE DEF all
  <2>2. QED
    BY <2>1
<1> HIDE DEF shown, S, all
<1>5. /\ IsSequence(b) /\ DOMAIN b = 1..l /\ (\A n \in 1..l : b[n] = DayItem(shown[n], u.id, u.usage[shown[n]]))
      /\ Range(b) = {DayItem(p, u.id, u.usage[p]) : p \in {q \in Products : u.usage[q] > 0}}
  <2>1. DOMAIN b = 1..l /\ \A n \in 1..l : b[n] = DayItem(shown[n], u.id, u.usage[shown[n]])
    BY <1>3
  <2>2. Range(b) = {DayItem(p, u.id, u.usage[p]) : p \in Range(shown)}
    BY <1>3 DEF Range
  <2>3. b = [n \in 1..l |-> b[n]]
    BY <1>3
  <2> HIDE DEF b
  <2>4. IsSequence(b)
    BY <1>2, <2>1, <2>3, MappedList
  <2>5. QED
    BY <1>3, <1>4, <2>1, <2>2, <2>4
<1>6. IsSequence(d) /\ DOMAIN d = 1..m /\ (\A n \in 1..m : d[n] = ProductQuota(UserQuota[n]))
      /\ Range(d) = {ProductQuota(q) : q \in Range(UserQuota)}
  <2>1. m \in Nat /\ u.quota = UserQuota /\ DOMAIN UserQuota = 1..m
    BY ListElements DEF Full
  <2>2. DOMAIN d = 1..m /\ \A n \in 1..m : d[n] = ProductQuota(UserQuota[n])
    BY <2>1
  <2>3. Range(d) = {ProductQuota(q) : q \in Range(UserQuota)}
    BY <2>1 DEF Range
  <2>4. d = [n \in 1..m |-> d[n]]
    BY <2>1
  <2> HIDE DEF d, m
  <2>5. QED
    BY <2>1, <2>2, <2>3, <2>4, MappedList
<1> DEFINE a == <<UserTotal(u)>>
<1>7. IsSequence(a) /\ Range(a) = {UserTotal(u)} /\ DOMAIN a = {1} /\ a[1] = UserTotal(u)
  BY OneElement
<1>8. Of(a, c) = {} /\ Of(d, c) = {}
  <2>1. \A n \in DOMAIN a : a[n].category = "token_usage_user"
    <3> HIDE DEF a
    <3>1. QED
      BY <1>7 DEF UserTotal
  <2>2. \A n \in DOMAIN d : d[n].category = "product_quota"
    <3> HIDE DEF d, m
    <3>1. QED
      BY <1>6 DEF ProductQuota
  <2> HIDE DEF a, d
  <2>3. QED
    BY <2>1, <2>2 DEF Of
<1>9. Once(b, c) /\ ScopesOf(b, c) \subseteq {u.id}
  <2>1. ASSUME NEW n \in Of(b, c)
        PROVE  n \in 1..l /\ shown[n] = "codex" /\ b[n].scope = u.id
    <3> HIDE DEF b
    <3>1. n \in 1..l /\ b[n].product = "codex"
      BY <1>5 DEF Of
    <3>2. b[n].product = shown[n] /\ b[n].scope = u.id
      BY <1>5, <3>1 DEF DayItem
    <3>3. QED
      BY <3>1, <3>2
  <2> HIDE DEF b
  <2>2. QED
    BY <1>3, <2>1 DEF Once, ScopesOf
<1> HIDE DEF a, b, d, l, m
<1>10. Once(a, c) /\ Once(d, c) /\ ScopesOf(a, c) = {} /\ ScopesOf(d, c) = {}
  BY <1>8 DEF Once, ScopesOf
<1>11. IsSequence(a \o b) /\ Range(a \o b) = Range(a) \cup Range(b) /\ Once(a \o b, c)
       /\ ScopesOf(a \o b, c) = ScopesOf(b, c)
  <2>1. ScopesOf(a, c) \cap ScopesOf(b, c) = {}
    BY <1>10
  <2>2. IsSequence(a \o b) /\ Range(a \o b) = Range(a) \cup Range(b)
    BY <1>5, <1>7, ConcatList
  <2>3. Once(a \o b, c) /\ ScopesOf(a \o b, c) = ScopesOf(a, c) \cup ScopesOf(b, c)
    <3>1. IsSequence(a) /\ IsSequence(b) /\ Once(a, c) /\ Once(b, c)
      BY <1>5, <1>7, <1>9, <1>10
    <3>2. QED
      BY <2>1, <3>1, OnceConcat
  <2>4. QED
    BY <1>10, <2>2, <2>3
<1> DEFINE e == a \o b
<1> HIDE DEF e
<1>12. IsSequence(e \o d) /\ Range(e \o d) = Range(e) \cup Range(d) /\ Once(e \o d, c)
       /\ ScopesOf(e \o d, c) = ScopesOf(e, c)
  <2>1. IsSequence(e) /\ Once(e, c) /\ ScopesOf(e, c) \cap ScopesOf(d, c) = {}
    BY <1>10, <1>11 DEF e
  <2>2. IsSequence(e \o d) /\ Range(e \o d) = Range(e) \cup Range(d)
    BY <1>6, <2>1, ConcatList
  <2>3. Once(e \o d, c) /\ ScopesOf(e \o d, c) = ScopesOf(e, c) \cup ScopesOf(d, c)
    BY <1>6, <1>10, <2>1, OnceConcat
  <2>4. QED
    BY <1>10, <2>2, <2>3
<1>13. UserItems(u) = e \o d
  BY <1>1 DEF e, a
<1>14. QED
  BY <1>5, <1>6, <1>7, <1>9, <1>11, <1>12, <1>13 DEF e

\* The items of an account: its usage if that was asked for, and its two quotas.
LEMMA AccountItemsMade ==
  ASSUME NEW a, NEW c \in {"token_usage_product", "token_usage_product_week"}
  PROVE  /\ IsSequence(AccountItems(a))
         /\ Range(AccountItems(a)) =
              {DayItem("codex", s, stats[s]) : s \in {a.id} \cap DOMAIN stats}
                \cup {QuotaItem(a, "5H", a.five), QuotaItem(a, "Week", a.week)}
         /\ Once(AccountItems(a), c)
         /\ ScopesOf(AccountItems(a), c) \subseteq {a.id} \cap DOMAIN stats
<1> DEFINE d == DayItem("codex", a.id, stats[a.id])
           b == IF a.id \in DOMAIN stats THEN <<d>> ELSE <<>>
           q == QuotaItem(a, "5H", a.five)
           w == QuotaItem(a, "Week", a.week)
           e == <<q, w>>
<1>1. AccountItems(a) = b \o e
  BY DEF AccountItems, DayItem
<1>2. /\ IsSequence(b) /\ Range(b) = {DayItem("codex", s, stats[s]) : s \in {a.id} \cap DOMAIN stats}
      /\ \A n \in DOMAIN b : n = 1 /\ b[n].scope = a.id /\ a.id \in DOMAIN stats
  <2>1. CASE a.id \in DOMAIN stats
    <3>1. b = <<d>> /\ d.scope = a.id
      BY <2>1 DEF DayItem
    <3>2. {DayItem("codex", s, stats[s]) : s \in {a.id} \cap DOMAIN stats} = {d}
      BY <2>1
    <3> HIDE DEF d, b
    <3>3. QED
      BY <2>1, <3>1, <3>2, OneElement
  <2>2. CASE a.id \notin DOMAIN stats
    <3>1. b = <<>> /\ {DayItem("codex", s, stats[s]) : s \in {a.id} \cap DOMAIN stats} = {}
      BY <2>2
    <3>2. IsSequence(<<>>) /\ Range(<<>>) = {}
      BY DEF IsSequence, Range
    <3> HIDE DEF b
    <3>3. QED
      BY <3>1, <3>2
  <2>3. QED
    BY <2>1, <2>2
<1>3. q.category = "quota" /\ w.category = "quota"
  BY DEF QuotaItem
<1> HIDE DEF b, q, w, d
<1>4. DOMAIN e = 1..2 /\ e[1] = q /\ e[2] = w /\ e = [n \in 1..2 |-> e[n]] /\ Range(e) = {q, w}
  <2>1. DOMAIN e = 1..2 /\ e[1] = q /\ e[2] = w /\ e = [n \in 1..2 |-> e[n]]
    OBVIOUS
  <2> HIDE DEF e
  <2>2. QED
    BY <2>1 DEF Range
<1> HIDE DEF e
<1>5. IsSequence(e)
  BY <1>4, MappedList
<1>6. Once(e, c) /\ ScopesOf(e, c) = {}
  BY <1>3, <1>4 DEF Once, ScopesOf, Of
<1>7. Once(b, c) /\ ScopesOf(b, c) \subseteq {a.id} \cap DOMAIN stats
  BY <1>2 DEF Once, ScopesOf, Of
<1>8. IsSequence(b \o e) /\ Range(b \o e) = Range(b) \cup Range(e) /\ Once(b \o e, c)
      /\ ScopesOf(b \o e, c) = ScopesOf(b, c)
  <2>1. ScopesOf(b, c) \cap ScopesOf(e, c) = {}
    BY <1>6
  <2>2. IsSequence(b \o e) /\ Range(b \o e) = Range(b) \cup Range(e)
    BY <1>2, <1>5, ConcatList
  <2>3. Once(b \o e, c) /\ ScopesOf(b \o e, c) = ScopesOf(b, c) \cup ScopesOf(e, c)
    BY <1>2, <1>5, <1>6, <1>7, <2>1, OnceConcat
  <2>4. QED
    BY <1>6, <2>2, <2>3
<1>9. QED
  BY <1>1, <1>2, <1>4, <1>7, <1>8 DEF q, w

\* At the end of a collect: its users are known, its stats are those of the accounts
\* counted, and each week was asked for.
AtEnd == CollectInv /\ step = "week" /\ Len(items) = Len(WeekScopes)

TotalItem == [category |-> "token_usage", value |-> DailyTotal]

LEMMA AtEndFacts ==
  ASSUME AtEnd
  PROVE  /\ IsSequence(users) /\ Len(users) = Len(UserTargets) /\ DOMAIN users = 1..Len(users)
         /\ DOMAIN UserTargets = DOMAIN users /\ IsSequence(UserQuota)
         /\ \A n \in DOMAIN users : users[n].id \in NamedBy(setup.users, UserTargets[n]) /\ Full(users[n])
         /\ Apart => /\ \A n, m \in DOMAIN users : users[n].id = users[m].id => n = m
                     /\ \A n \in DOMAIN users, a \in Range(Chosen) : users[n].id # a.id
         /\ selected = Chosen /\ DOMAIN stats = {a.id : a \in Range(Counted)}
         /\ WeekScopes = IdsOf(users, Counted) /\ IsSequence(items)
<1>1. ConfigInv /\ Accounted /\ Resolved /\ AskedWeeks /\ step = "week"
  BY DEF AtEnd, CollectInv
<1>2. /\ IsSequence(users) /\ Len(users) = Len(UserTargets) /\ IsSequence(UserTargets)
      /\ \A n \in DOMAIN users : users[n].id \in NamedBy(setup.users, UserTargets[n]) /\ Full(users[n])
  BY <1>1, UserTargetList DEF Resolved
<1>3. DOMAIN users = 1..Len(users) /\ DOMAIN UserTargets = DOMAIN users
  BY <1>2, ListElements
<1>4. IsSequence(UserQuota)
  <2>1. IsSetup(setup)
    BY <1>1, ConfiguredTargets
  <2>2. IsSequence(setup.windows) /\ IsSequence(setup.balance)
    BY <2>1 DEF IsSetup
  <2>3. IsSequence(<<>>)
    BY DEF IsSequence, Range
  <2>4. UserQuota \in {setup.windows, setup.balance, <<>>}
    BY DEF UserQuota
  <2>5. QED
    BY <2>2, <2>3, <2>4
<1>5. selected = Chosen /\ DOMAIN stats = {a.id : a \in Range(Counted)} /\ IsSequence(items)
  BY <1>1 DEF Accounted, AskedWeeks
<1>6. WeekScopes = IdsOf(users, Counted)
  BY <1>5 DEF WeekScopes, IdsOf, Counted
<1>7. ASSUME Apart, NEW n \in DOMAIN users
      PROVE  /\ \A m \in DOMAIN users : users[n].id = users[m].id => n = m
             /\ \A a \in Range(Chosen) : users[n].id # a.id
  <2>1. n \in DOMAIN UserTargets /\ users[n].id \in NamedBy(setup.users, UserTargets[n])
    BY <1>2, <1>3
  <2>2. /\ \A m \in DOMAIN UserTargets : users[n].id \in NamedBy(setup.users, UserTargets[m]) => m = n
        /\ \A a \in Range(Chosen) : a.id # users[n].id
    BY <1>1, <1>7, <2>1, NamedApart
  <2>3. QED
    BY <1>2, <1>3, <2>2
<1>8. QED
  BY <1>2, <1>3, <1>4, <1>5, <1>6, <1>7

\* The daily items: the total, then those of each user, then those of each account.  Those
\* of codex usage are of a user or of an account counted, each of one of its own.
LEMMA DailyItemsMade ==
  ASSUME AtEnd
  PROVE  /\ IsSequence(DailyItems)
         /\ Range(DailyItems) = {TotalItem} \cup (UNION {Range(UserItems(users[n])) : n \in DOMAIN users})
                                  \cup (UNION {Range(AccountItems(a)) : a \in Range(Chosen)})
         /\ Each(DailyItems, "token_usage_product", WeekScopes)
<1> DEFINE c == "token_usage_product"
<1>0. /\ IsSequence(users) /\ IsSequence(UserQuota) /\ selected = Chosen
      /\ \A n \in DOMAIN users : Full(users[n])
      /\ DOMAIN stats = {a.id : a \in Range(Counted)} /\ WeekScopes = IdsOf(users, Counted)
  BY AtEndFacts
<1> DEFINE l == Len(users)
           m == Len(Chosen)
           us == [n \in DOMAIN users |-> UserItems(users[n])]
           acc == [n \in DOMAIN Chosen |-> AccountItems(Chosen[n])]
           a == <<TotalItem>>
           b == FlattenSeq(us)
           d == FlattenSeq(acc)
           x == [n \in DOMAIN users |-> users[n].id]
           y == [n \in DOMAIN Counted |-> Counted[n].id]
           z == [n \in DOMAIN Chosen |-> Chosen[n].id]
<1>1. l \in Nat /\ DOMAIN users = 1..l
  BY <1>0, ListElements
<1>2. /\ m \in Nat /\ DOMAIN Chosen = 1..m /\ \A n \in 1..m : Chosen[n] \in Range(Chosen)
      /\ \A n, k \in 1..m : Chosen[n].id = Chosen[k].id => n = k
      /\ \A e \in Range(Chosen) : \E n \in 1..m : e = Chosen[n]
      /\ IsSequence(Counted)
  <2>1. ConfigInv
    BY DEF AtEnd, CollectInv
  <2>2. QED
    BY <2>1, ChosenAccounts, CountedAccounts, ListElements
<1>3. IsSequence(a) /\ Range(a) = {TotalItem} /\ Of(a, c) = {}
  <2>1. IsSequence(a) /\ Range(a) = {TotalItem} /\ DOMAIN a = {1} /\ a[1] = TotalItem
    BY OneElement
  <2> HIDE DEF a
  <2>2. Of(a, c) = {}
    BY <2>1 DEF Of, TotalItem
  <2>3. QED
    BY <2>1, <2>2
<1>4. IsSequence(x) /\ IsSequence(y)
  <2>1. DOMAIN x = 1..l /\ x = [n \in 1..l |-> x[n]]
    BY <1>1
  <2>2. Len(Counted) \in Nat /\ DOMAIN y = 1..Len(Counted) /\ y = [n \in 1..Len(Counted) |-> y[n]]
    BY <1>2, ListElements
  <2> HIDE DEF x, y, l
  <2>3. IsSequence(x)
    BY <1>1, <2>1, MappedList
  <2>4. QED
    BY <2>2, <2>3, MappedList
<1>5. IsSequence(b) /\ Range(b) = UNION {Range(us[n]) : n \in 1..l} /\ Each(b, c, x)
  <2> DEFINE S == {u.id : u \in Range(users)}
  <2>1. DOMAIN us = 1..l /\ us = [n \in 1..l |-> us[n]] /\ DOMAIN x = 1..l
    BY <1>1
  <2>2. ASSUME NEW n \in 1..l
        PROVE  IsSequence(us[n]) /\ Once(us[n], c) /\ ScopesOf(us[n], c) \subseteq {x[n]} \cap S
    <3>1. us[n] = UserItems(users[n]) /\ x[n] = users[n].id /\ Full(users[n]) /\ users[n] \in Range(users)
      BY <1>0, <1>1, ListElements
    <3>2. IsSequence(us[n]) /\ Once(us[n], c) /\ ScopesOf(us[n], c) \subseteq {x[n]}
      BY <1>0, <3>1, UserItemsMade
    <3>3. x[n] \in S
      BY <3>1
    <3> HIDE DEF us, x, S
    <3>4. QED
      BY <3>2, <3>3
  <2> HIDE DEF us, l, x, S
  <2>3. Singles(us, l, c, x, S)
    BY <2>1, <2>2 DEF Singles
  <2>4. Joined(b, us, l, c, x, S)
    BY <1>1, <2>3, EachFlat
  <2> HIDE DEF b
  <2>5. QED
    BY <2>4, Zenon DEF Joined
<1>6. /\ IsSequence(d) /\ Range(d) = UNION {Range(acc[n]) : n \in 1..m}
      /\ Each(d, c, z) /\ ScopesOf(d, c) \subseteq DOMAIN stats
  <2>1. DOMAIN acc = 1..m /\ acc = [n \in 1..m |-> acc[n]] /\ DOMAIN z = 1..m
    BY <1>2
  <2>2. ASSUME NEW n \in 1..m
        PROVE  IsSequence(acc[n]) /\ Once(acc[n], c) /\ ScopesOf(acc[n], c) \subseteq {z[n]} \cap DOMAIN stats
    <3>1. acc[n] = AccountItems(Chosen[n]) /\ z[n] = Chosen[n].id
      BY <1>2
    <3>2. QED
      BY <3>1, AccountItemsMade
  <2> HIDE DEF acc, m, z
  <2>3. Singles(acc, m, c, z, DOMAIN stats) /\ m \in Nat
    BY <1>2, <2>1, <2>2 DEF Singles
  <2>4. Joined(d, acc, m, c, z, DOMAIN stats)
    BY <2>3, EachFlat
  <2> HIDE DEF d
  <2>5. QED
    BY <2>4, Zenon DEF Joined
<1>7. UNION {Range(us[n]) : n \in 1..l} = UNION {Range(UserItems(users[n])) : n \in DOMAIN users}
  BY <1>1
<1>8. UNION {Range(acc[n]) : n \in 1..m} = UNION {Range(AccountItems(e)) : e \in Range(Chosen)}
  <2>1. \A n \in 1..m : Range(acc[n]) = Range(AccountItems(Chosen[n]))
    BY <1>2
  <2> HIDE DEF acc, m
  <2>2. ASSUME NEW n \in 1..m
        PROVE  \E e \in Range(Chosen) : Range(acc[n]) = Range(AccountItems(e))
    BY <1>2, <2>1
  <2>3. ASSUME NEW e \in Range(Chosen)
        PROVE  \E n \in 1..m : Range(acc[n]) = Range(AccountItems(e))
    <3>1. PICK n \in 1..m : e = Chosen[n]
      BY <1>2
    <3>2. Range(acc[n]) = Range(AccountItems(Chosen[n]))
      BY <2>1
    <3>3. QED
      BY <3>1, <3>2, Zenon
  <2>4. QED
    BY <2>2, <2>3, Zenon
<1>9. Each(d, c, y)
  <2>1. PICK at : Placed(d, c, z, at)
    BY <1>6 DEF Each
  <2> DEFINE of(s) == CHOOSE k \in DOMAIN Counted : Counted[k].id = s
             to == [n \in Of(d, c) |-> of(d[n].scope)]
  <2>2. ASSUME NEW n \in Of(d, c)
        PROVE  /\ to[n] \in DOMAIN Counted /\ Counted[to[n]].id = d[n].scope
               /\ at[n] \in 1..m /\ Chosen[at[n]].id = d[n].scope
    <3> DEFINE s == d[n].scope
    <3>1. s \in DOMAIN stats
      BY <1>6 DEF ScopesOf
    <3>2. PICK e \in Range(Counted) : s = e.id
      BY <1>0, <3>1
    <3>3. \E k \in DOMAIN Counted : Counted[k].id = s
      <4>1. \E k \in DOMAIN Counted : e = Counted[k]
        BY <1>2, ListElements
      <4>2. QED
        BY <3>2, <4>1
    <3>4. to[n] \in DOMAIN Counted /\ Counted[to[n]].id = s
      <4>1. to[n] = of(s)
        OBVIOUS
      <4> HIDE DEF s, to
      <4>2. QED
        BY <3>3, <4>1
    <3>5. at[n] \in 1..m /\ Chosen[at[n]].id = s
      BY <1>2, <2>1 DEF Placed
    <3>6. QED
      BY <3>4, <3>5
  <2>3. \A n \in Of(d, c) : to[n] \in DOMAIN y /\ y[to[n]] = d[n].scope
    <3>1. \A k \in DOMAIN Counted : k \in DOMAIN y /\ y[k] = Counted[k].id
      OBVIOUS
    <3> HIDE DEF to, y, d, c
    <3>2. QED
      BY <2>2, <3>1
  <2> HIDE DEF to, of, y, d, c, m
  <2>4. ASSUME NEW n \in Of(d, c), NEW k \in Of(d, c), to[n] = to[k]
        PROVE  n = k
    <3>1. at[n] = at[k]
      BY <1>2, <2>2, <2>4
    <3>2. QED
      BY <2>1, <3>1 DEF Placed
  <2>5. Placed(d, c, y, to)
    BY <2>3, <2>4 DEF Placed
  <2>6. QED
    BY <2>5 DEF Each
<1>10. DailyItems = a \o b \o d /\ WeekScopes = x \o y
  BY <1>0 DEF DailyItems, TotalItem, IdsOf
<1> HIDE DEF a, b, d, us, acc, x, y, z, c
<1>11. IsSequence(a \o b) /\ Range(a \o b) = Range(a) \cup Range(b) /\ Each(a \o b, c, x)
  <2>1. IsSequence(<<>>) /\ <<>> \o x = x
    <3>1. x \in Seq(Range(x))
      BY <1>4 DEF IsSequence
    <3>2. QED
      BY <3>1 DEF IsSequence
  <2>2. Each(a, c, <<>>)
    BY <1>3 DEF Each, Placed
  <2>3. Each(a \o b, c, <<>> \o x)
    BY <1>3, <1>4, <1>5, <2>1, <2>2, EachConcat
  <2>4. QED
    BY <1>3, <1>5, <2>1, <2>3, ConcatList
<1> DEFINE e == a \o b
<1> HIDE DEF e
<1>12. IsSequence(e \o d) /\ Range(e \o d) = Range(e) \cup Range(d) /\ Each(e \o d, c, x \o y)
  <2>1. IsSequence(e) /\ IsSequence(d) /\ Each(e, c, x) /\ Each(d, c, y)
    BY <1>6, <1>9, <1>11 DEF e
  <2>2. QED
    BY <1>4, <2>1, ConcatList, EachConcat
<1>13. Range(e) = {TotalItem} \cup Range(b)
  BY <1>3, <1>11 DEF e
<1>14. DailyItems = e \o d /\ Each(DailyItems, "token_usage_product", WeekScopes)
  BY <1>10, <1>12 DEF e, c
<1>15. QED
  BY <1>5, <1>6, <1>7, <1>8, <1>12, <1>13, <1>14

\* What a collect returns.
Made == DailyItems \o items

MadeItem(x) ==
  \/ x = TotalItem
  \/ \E n \in DOMAIN users : x = UserTotal(users[n])
  \/ \E n \in DOMAIN users, p \in Products : x = DayItem(p, users[n].id, users[n].usage[p])
  \/ \E s \in DOMAIN stats : x = DayItem("codex", s, stats[s])
  \/ \E q \in Range(UserQuota) : x = ProductQuota(q)
  \/ \E a \in Range(Chosen) : x \in {QuotaItem(a, "5H", a.five), QuotaItem(a, "Week", a.week)}
  \/ \E n \in DOMAIN items : x = WeekItem(WeekScopes[n], items[n].value)

LEMMA MadeElements ==
  ASSUME AtEnd
  PROVE  /\ IsSequence(Made) /\ \A x \in Range(Made) : MadeItem(x)
         /\ TotalItem \in Range(Made)
         /\ \A n \in DOMAIN users : UserTotal(users[n]) \in Range(Made)
         /\ \A a \in Range(Chosen) : /\ QuotaItem(a, "5H", a.five) \in Range(Made)
                                      /\ QuotaItem(a, "Week", a.week) \in Range(Made)
         /\ Range(items) \subseteq Range(Made)
<1>0. /\ \A n \in DOMAIN users : Full(users[n])
      /\ IsSequence(UserQuota) /\ IsSequence(items)
  BY AtEndFacts
<1> DEFINE us == UNION {Range(UserItems(users[n])) : n \in DOMAIN users}
           acc == UNION {Range(AccountItems(a)) : a \in Range(Chosen)}
<1>1. IsSequence(DailyItems) /\ Range(DailyItems) = {TotalItem} \cup us \cup acc
  BY DailyItemsMade
<1>2. IsSequence(Made) /\ Range(Made) = Range(DailyItems) \cup Range(items)
  BY <1>0, <1>1, ConcatList DEF Made
<1>3. ASSUME NEW n \in DOMAIN users
      PROVE  /\ UserTotal(users[n]) \in us
             /\ \A x \in Range(UserItems(users[n])) : MadeItem(x)
  <2> DEFINE u == users[n]
             own == {DayItem(p, u.id, u.usage[p]) : p \in {q \in Products : u.usage[q] > 0}}
  <2>1. Range(UserItems(u)) = {UserTotal(u)} \cup own \cup {ProductQuota(q) : q \in Range(UserQuota)}
    BY <1>0, UserItemsMade
  <2>2. \A x \in own : \E p \in Products : x = DayItem(p, users[n].id, users[n].usage[p])
    OBVIOUS
  <2>3. UserTotal(u) \in us
    BY <2>1
  <2> HIDE DEF own
  <2>4. ASSUME NEW x \in Range(UserItems(u))
        PROVE  MadeItem(x)
    <3>1. CASE x = UserTotal(u)
      BY <3>1 DEF MadeItem
    <3>2. CASE x \in own
      BY <2>2, <3>2, Zenon DEF MadeItem
    <3>3. CASE x \in {ProductQuota(q) : q \in Range(UserQuota)}
      <4>1. \E q \in Range(UserQuota) : x = ProductQuota(q)
        BY <3>3
      <4>2. QED
        BY <4>1, Zenon DEF MadeItem
    <3>4. QED
      BY <2>1, <3>1, <3>2, <3>3
  <2>5. QED
    BY <2>3, <2>4
<1>4. ASSUME NEW a \in Range(Chosen)
      PROVE  /\ QuotaItem(a, "5H", a.five) \in acc /\ QuotaItem(a, "Week", a.week) \in acc
             /\ \A x \in Range(AccountItems(a)) : MadeItem(x)
  <2> DEFINE own == {DayItem("codex", s, stats[s]) : s \in {a.id} \cap DOMAIN stats}
             quotas == {QuotaItem(a, "5H", a.five), QuotaItem(a, "Week", a.week)}
  <2>1. Range(AccountItems(a)) = own \cup quotas
    BY AccountItemsMade
  <2>2. \A x \in own : \E s \in DOMAIN stats : x = DayItem("codex", s, stats[s])
    OBVIOUS
  <2>3. QuotaItem(a, "5H", a.five) \in acc /\ QuotaItem(a, "Week", a.week) \in acc
    BY <2>1
  <2> HIDE DEF own
  <2>4. ASSUME NEW x \in Range(AccountItems(a))
        PROVE  MadeItem(x)
    <3>1. CASE x \in own
      BY <2>2, <3>1, Zenon DEF MadeItem
    <3>2. CASE x \in quotas
      BY <3>2, Zenon DEF MadeItem
    <3>3. QED
      BY <2>1, <3>1, <3>2
  <2>5. QED
    BY <2>3, <2>4
<1>5. ASSUME NEW x \in Range(items)
      PROVE  MadeItem(x)
  <2>1. PICK n \in DOMAIN items : x = items[n]
    BY <1>0, ListElements
  <2>2. x = WeekItem(WeekScopes[n], items[n].value)
    BY <2>1 DEF AtEnd, CollectInv, AskedWeeks
  <2>3. QED
    BY <2>2, Zenon DEF MadeItem
<1>6. MadeItem(TotalItem)
  BY DEF MadeItem
<1> HIDE DEF us, acc
<1>7. \A x \in us : MadeItem(x)
  BY <1>3 DEF us
<1>8. \A x \in acc : MadeItem(x)
  BY <1>4 DEF acc
<1>9. QED
  BY <1>1, <1>2, <1>3, <1>4, <1>5, <1>6, <1>7, <1>8

\* An item that is served is the one made and when it was fetched.
Alike(y, x) ==
  /\ y.category = x.category
  /\ x.category \in {"token_usage_user", "token_usage_product", "token_usage_product_week"} =>
       y.scope = x.scope /\ y.value = x.value
  /\ x.category \in {"token_usage_product", "token_usage_product_week"} =>
       y.product = x.product /\ y.start = x.start /\ y.end = x.end
  /\ x.category = "product_quota" => y.product = x.product /\ y.window = x.window
  /\ x.category = "quota" => /\ y.key = x.key /\ y.name = x.name /\ y.email = x.email
                             /\ y.window = x.window /\ y.left = x.left

LEMMA ServedAsMade ==
  ASSUME NEW x, MadeItem(x), NEW time
  PROVE  FetchedAt(x, time).fetched = time /\ Alike(FetchedAt(x, time), x)
<1> DEFINE y == FetchedAt(x, time)
<1>1. CASE x = TotalItem
  BY <1>1 DEF FetchedAt, TotalItem, Alike
<1>2. ASSUME NEW u, x = UserTotal(u)
      PROVE  y.fetched = time /\ Alike(y, x)
  BY <1>2 DEF FetchedAt, UserTotal, Alike
<1>3. ASSUME NEW p, NEW s, NEW v, x = DayItem(p, s, v)
      PROVE  y.fetched = time /\ Alike(y, x)
  BY <1>3 DEF FetchedAt, DayItem, Alike
<1>4. ASSUME NEW q, x = ProductQuota(q)
      PROVE  y.fetched = time /\ Alike(y, x)
  BY <1>4 DEF FetchedAt, ProductQuota, Alike
<1>5. ASSUME NEW a, NEW w, NEW v, x = QuotaItem(a, w, v)
      PROVE  y.fetched = time /\ Alike(y, x)
  BY <1>5 DEF FetchedAt, QuotaItem, Alike
<1>6. ASSUME NEW s, NEW v, x = WeekItem(s, v)
      PROVE  y.fetched = time /\ Alike(y, x)
  BY <1>6 DEF FetchedAt, WeekItem, Alike
<1> HIDE DEF y
<1>7. QED
  BY <1>1, <1>2, <1>3, <1>4, <1>5, <1>6 DEF MadeItem, y

---------------------------------------------------------------------------
(* The items served.                                                       *)

\* The quota of an account in a window.
QuotaOf(i, a, window, left) ==
  /\ i.category = "quota" /\ i.key = a.id /\ i.name = a.name /\ i.window = window /\ i.left = left
  /\ i.email = IF a.email = {} THEN Missing ELSE a.email

\* What an item may be when the collect started on day t and usage was asked for some scopes.
IsAnswer(i, t, scopes) ==
  \/ i.category = "token_usage"
  \/ /\ i.category = "token_usage_user"
     /\ \E n \in DOMAIN UserTargets : i.scope \in NamedBy(setup.users, UserTargets[n])
  \/ /\ i.category = "token_usage_product" /\ i.start = t /\ i.end = t
     /\ i.scope \in scopes /\ i.value \in Nat
  \/ /\ i.category = "token_usage_product_week" /\ i.product = "codex"
     /\ i.start = WeekStart(t) /\ i.end = t
     /\ i.scope \in scopes /\ i.value \in Nat \cup {Missing}
  \/ i.category = "product_quota" /\ \E q \in Range(UserQuota) : i.window = q.window
  \/ /\ i.category = "quota"
     /\ \E a \in Range(Chosen) : QuotaOf(i, a, "5H", a.five) \/ QuotaOf(i, a, "Week", a.week)

WantedOf(list) ==
  {i.scope : i \in {j \in Range(list) : j.category = "token_usage_user"}} \cup {a.id : a \in Range(Counted)}

\* Every item of a day stands beside an item of the week of its own, of the same scope.
PairedBy(list, beside) ==
  /\ \A n \in Of(list, "token_usage_product") :
       /\ beside[n] \in Of(list, "token_usage_product_week")
       /\ list[beside[n]].scope = list[n].scope
  /\ \A n, m \in Of(list, "token_usage_product") : beside[n] = beside[m] => n = m

Paired(list) == \E beside : PairedBy(list, beside)

\* The items of a collect that started on day t: every user and account the targets select
\* has its own, and when the targets are apart none has two of a kind.
ServedBy(list, t) ==
  /\ IsSequence(list) /\ list # <<>>
  /\ \A i \in Range(list) : IsAnswer(i, t, WantedOf(list))
  /\ \A n \in DOMAIN UserTargets : \E i \in Range(list) :
       i.category = "token_usage_user" /\ i.scope \in NamedBy(setup.users, UserTargets[n])
  /\ \A a \in Range(Chosen) : /\ \E i \in Range(list) : QuotaOf(i, a, "5H", a.five)
                              /\ \E i \in Range(list) : QuotaOf(i, a, "Week", a.week)
  /\ Paired(list) /\ (Apart => Once(list, "token_usage_product_week"))
  /\ ScopesOf(list, "token_usage_product_week") = WantedOf(list)

\* The week is asked of every scope, and of none twice when the targets are apart.
LEMMA WeeksApart ==
  ASSUME AtEnd
  PROVE  /\ Len(WeekScopes) \in Nat /\ DOMAIN items = 1..Len(WeekScopes) /\ DOMAIN WeekScopes = DOMAIN items
         /\ Apart => \A n, m \in DOMAIN items : WeekScopes[n] = WeekScopes[m] => n = m
         /\ {WeekScopes[n] : n \in DOMAIN items} =
              {users[n].id : n \in DOMAIN users} \cup {a.id : a \in Range(Counted)}
<1> DEFINE l == Len(users)
           m == Len(Counted)
<1>1. /\ IsSequence(users) /\ WeekScopes = IdsOf(users, Counted) /\ IsSequence(items)
      /\ Apart => /\ \A n, k \in DOMAIN users : users[n].id = users[k].id => n = k
                  /\ \A n \in DOMAIN users, a \in Range(Chosen) : users[n].id # a.id
  BY AtEndFacts
<1>2. /\ IsSequence(Counted) /\ Range(Counted) \subseteq Range(Chosen)
      /\ \A p, q \in DOMAIN Counted : Counted[p].id = Counted[q].id => p = q
  <2>1. ConfigInv
    BY DEF AtEnd, CollectInv
  <2>2. QED
    BY <2>1, CountedAccounts
<1>3. /\ l \in Nat /\ DOMAIN users = 1..l
      /\ m \in Nat /\ DOMAIN Counted = 1..m /\ \A n \in 1..m : Counted[n] \in Range(Counted)
      /\ \A a \in Range(Counted) : \E n \in 1..m : a = Counted[n]
  BY <1>1, <1>2, ListElements
<1> DEFINE w == WeekScopes
<1>4. /\ IsSequence(w) /\ Len(w) = l + m /\ (\A n \in 1..l : w[n] = users[n].id)
      /\ \A n \in 1..m : w[l + n] = Counted[n].id
  <2> DEFINE v == IdsOf(users, Counted)
  <2>1. /\ IsSequence(v) /\ Len(v) = l + m /\ (\A n \in 1..l : v[n] = users[n].id)
        /\ \A n \in 1..m : v[l + n] = Counted[n].id
    <3>1. IsSequence(users) /\ IsSequence(Counted)
      BY <1>1, <1>2
    <3>2. QED
      BY <3>1, IdsInOrder
  <2> HIDE DEF v, l, m
  <2>2. w = v
    BY <1>1 DEF v
  <2> HIDE DEF w
  <2>3. QED
    BY <2>1, <2>2
<1>5. DOMAIN items = 1..(l + m)
  <2>1. Len(items) = Len(w)
    BY DEF AtEnd
  <2> HIDE DEF w
  <2>2. QED
    BY <1>1, <1>4, <2>1, ListElements
<1> HIDE DEF w, l, m
<1>6. ASSUME NEW n \in 1..(l + m)
      PROVE  \/ n \in 1..l /\ w[n] = users[n].id
             \/ n - l \in 1..m /\ w[n] = Counted[n - l].id
  <2>1. CASE n <= l
    BY <1>3, <1>4, <2>1
  <2>2. CASE ~(n <= l)
    <3>1. n - l \in 1..m /\ l + (n - l) = n
      BY <1>3, <2>2
    <3>2. QED
      BY <1>4, <3>1
  <2>3. QED
    BY <2>1, <2>2
<1>7. ASSUME Apart, NEW n \in 1..(l + m), NEW k \in 1..(l + m), w[n] = w[k]
      PROVE  n = k
  <2>1. CASE n \in 1..l /\ w[n] = users[n].id /\ k \in 1..l /\ w[k] = users[k].id
    BY <1>1, <1>3, <1>7, <2>1
  <2>2. CASE n - l \in 1..m /\ w[n] = Counted[n - l].id /\ k - l \in 1..m /\ w[k] = Counted[k - l].id
    <3>1. n - l = k - l
      BY <1>2, <1>3, <1>7, <2>2
    <3>2. QED
      BY <1>3, <3>1
  <2>3. \A i \in 1..l, j \in 1..m : users[i].id # Counted[j].id
    BY <1>1, <1>2, <1>3, <1>7
  <2>4. QED
    BY <1>6, <1>7, <2>1, <2>2, <2>3
<1>8. {w[n] : n \in 1..(l + m)} \subseteq
        {users[n].id : n \in 1..l} \cup {a.id : a \in Range(Counted)}
  BY <1>3, <1>6
<1>9. {users[n].id : n \in 1..l} \subseteq {w[n] : n \in 1..(l + m)}
  <2>1. \A n \in 1..l : n \in 1..(l + m)
    BY <1>3
  <2>2. QED
    BY <1>4, <2>1
<1>10. {a.id : a \in Range(Counted)} \subseteq {w[n] : n \in 1..(l + m)}
  <2>1. \A n \in 1..m : l + n \in 1..(l + m)
    BY <1>3
  <2>2. QED
    BY <1>3, <1>4, <2>1
<1>11. {w[n] : n \in 1..(l + m)} = {users[n].id : n \in 1..l} \cup {a.id : a \in Range(Counted)}
  BY <1>8, <1>9, <1>10
<1>12. /\ Len(w) \in Nat /\ DOMAIN items = 1..Len(w) /\ DOMAIN w = DOMAIN items
       /\ Apart => \A n, k \in DOMAIN items : w[n] = w[k] => n = k
       /\ {w[n] : n \in DOMAIN items} = {users[n].id : n \in DOMAIN users} \cup {a.id : a \in Range(Counted)}
  <2>1. Len(w) \in Nat /\ DOMAIN items = 1..Len(w) /\ DOMAIN w = DOMAIN items
    BY <1>3, <1>4, <1>5, ListElements
  <2>2. Apart => \A n, k \in DOMAIN items : w[n] = w[k] => n = k
    BY <1>5, <1>7
  <2>3. QED
    BY <1>3, <1>5, <1>11, <2>1, <2>2
<1>13. QED
  BY <1>12, Zenon DEF w

\* The daily items are none of a week.
LEMMA NoDailyWeeks ==
  ASSUME AtEnd
  PROVE  Of(DailyItems, "token_usage_product_week") = {}
<1> DEFINE w == "token_usage_product_week"
<1>1. ASSUME NEW x \in Range(DailyItems)
      PROVE  x.category # w
  <2>1. Range(DailyItems) = {TotalItem} \cup (UNION {Range(UserItems(users[n])) : n \in DOMAIN users})
                              \cup (UNION {Range(AccountItems(a)) : a \in Range(Chosen)})
    BY DailyItemsMade
  <2>2. CASE x = TotalItem
    BY <2>2 DEF TotalItem
  <2>3. ASSUME NEW n \in DOMAIN users, x \in Range(UserItems(users[n]))
        PROVE  x.category # w
    <3> DEFINE u == users[n]
               own == {DayItem(p, u.id, u.usage[p]) : p \in {q \in Products : u.usage[q] > 0}}
               quotas == {ProductQuota(q) : q \in Range(UserQuota)}
    <3>1. Full(u) /\ IsSequence(UserQuota)
      BY AtEndFacts
    <3> HIDE DEF u
    <3>2. Range(UserItems(u)) = {UserTotal(u)} \cup own \cup quotas
      BY <3>1, UserItemsMade
    <3>3. (\A y \in own : y.category # w) /\ \A y \in quotas : y.category # w
      BY DEF DayItem, ProductQuota
    <3>4. UserTotal(u).category # w
      BY DEF UserTotal
    <3> HIDE DEF own, quotas
    <3>5. QED
      BY <2>3, <3>2, <3>3, <3>4 DEF u
  <2>4. ASSUME NEW a \in Range(Chosen), x \in Range(AccountItems(a))
        PROVE  x.category # w
    <3> DEFINE own == {DayItem("codex", s, stats[s]) : s \in {a.id} \cap DOMAIN stats}
               quotas == {QuotaItem(a, "5H", a.five), QuotaItem(a, "Week", a.week)}
    <3>1. Range(AccountItems(a)) = own \cup quotas
      BY AccountItemsMade
    <3>2. (\A y \in own : y.category # w) /\ \A y \in quotas : y.category # w
      BY DEF DayItem, QuotaItem
    <3> HIDE DEF own, quotas
    <3>3. QED
      BY <2>4, <3>1, <3>2
  <2>5. QED
    BY <2>1, <2>2, <2>3, <2>4
<1>2. \A n \in DOMAIN DailyItems : DailyItems[n] \in Range(DailyItems)
  BY DailyItemsMade, ListElements
<1>3. QED
  BY <1>1, <1>2 DEF Of

\* What is made of a collect: by week every scope asked of, and by day those of them that
\* the answers told of.
LEMMA MadePaired ==
  ASSUME AtEnd
  PROVE  /\ Paired(Made)
         /\ Apart => Once(Made, "token_usage_product_week")
         /\ ScopesOf(Made, "token_usage_product_week") = {WeekScopes[n] : n \in DOMAIN items}
<1> DEFINE d == "token_usage_product"
           w == "token_usage_product_week"
           l == Len(DailyItems)
<1>1. /\ IsSequence(DailyItems) /\ IsSequence(items) /\ l \in Nat
      /\ Of(DailyItems, w) = {} /\ Each(DailyItems, d, WeekScopes)
  BY AtEndFacts, DailyItemsMade, NoDailyWeeks, ListElements
<1>2. /\ DOMAIN WeekScopes = DOMAIN items /\ \A n \in DOMAIN items : n \in Int
      /\ Apart => \A n, m \in DOMAIN items : WeekScopes[n] = WeekScopes[m] => n = m
  BY WeeksApart
<1>3. \A n \in DOMAIN items : /\ items[n].category = w /\ items[n].product = "codex"
                              /\ items[n].scope = WeekScopes[n]
  <2> TAKE n \in DOMAIN items
  <2>1. items[n] = WeekItem(WeekScopes[n], items[n].value)
    BY DEF AtEnd, CollectInv, AskedWeeks
  <2> DEFINE i == items[n]
             v == i.value
  <2> HIDE DEF v
  <2>2. i = WeekItem(WeekScopes[n], v)
    BY <2>1 DEF v
  <2> HIDE DEF i
  <2>3. i.category = w /\ i.product = "codex" /\ i.scope = WeekScopes[n]
    BY <2>2 DEF WeekItem
  <2>4. QED
    BY <2>3 DEF i
<1>4. Of(items, d) = {} /\ Of(items, w) = DOMAIN items
  BY <1>3 DEF Of
<1>5. \A c : Split(Made, DailyItems, items, l, c)
  BY <1>1, OfConcat DEF Made
<1> HIDE DEF d, w, l
<1>6. PICK at : Placed(DailyItems, d, WeekScopes, at)
  BY <1>1 DEF Each
<1> DEFINE beside == [n \in Of(Made, d) |-> l + at[n]]
<1>7. \A n \in Of(Made, d) : /\ n \in Of(DailyItems, d) /\ Made[n] = DailyItems[n]
                              /\ beside[n] = l + at[n] /\ at[n] \in DOMAIN items
                              /\ WeekScopes[at[n]] = DailyItems[n].scope
  BY <1>2, <1>4, <1>5, <1>6 DEF Placed, Split
<1> HIDE DEF beside
<1>8. Paired(Made)
  <2>1. ASSUME NEW n \in Of(Made, d)
        PROVE  beside[n] \in Of(Made, w) /\ Made[beside[n]].scope = Made[n].scope
    <3>1. l + at[n] \in Of(Made, w) /\ Made[l + at[n]] = items[at[n]] /\ items[at[n]].scope = WeekScopes[at[n]]
      BY <1>3, <1>4, <1>5, <1>7 DEF Split
    <3>2. QED
      BY <1>7, <3>1
  <2>2. ASSUME NEW n \in Of(Made, d), NEW m \in Of(Made, d), beside[n] = beside[m]
        PROVE  n = m
    <3>1. at[n] = at[m]
      <4>1. l + at[n] = l + at[m]
        BY <1>7, <2>2
      <4>2. at[n] \in Int /\ at[m] \in Int
        BY <1>2, <1>7
      <4>3. l \in Int
        BY <1>1
      <4>4. QED
        BY <4>1, <4>2, <4>3
    <3>2. QED
      BY <1>6, <1>7, <3>1 DEF Placed
  <2>3. PairedBy(Made, beside)
    BY <2>1, <2>2 DEF PairedBy, d, w
  <2>4. QED
    BY <2>3 DEF Paired
<1>9. \A n \in Of(Made, w) : n \in Int /\ n - l \in DOMAIN items /\ Made[n].scope = WeekScopes[n - l]
  BY <1>1, <1>3, <1>4, <1>5 DEF Split
<1>10. Apart => Once(Made, w)
  <2> SUFFICES ASSUME Apart, NEW n \in Of(Made, w), NEW m \in Of(Made, w), Made[n].scope = Made[m].scope
               PROVE  n = m
    BY DEF Once
  <2>1. n - l = m - l
    BY <1>2, <1>9
  <2>2. QED
    BY <1>1, <1>9, <2>1
<1>11. ScopesOf(Made, w) = {WeekScopes[n] : n \in DOMAIN items}
  <2>1. \A n \in DOMAIN items : l + n \in Of(Made, w) /\ Made[l + n].scope = WeekScopes[n]
    BY <1>3, <1>4, <1>5 DEF Split
  <2>2. QED
    BY <1>9, <2>1 DEF ScopesOf
<1>12. QED
  BY <1>8, <1>10, <1>11 DEF w

\* Finish: the items served answer for the targets.
LEMMA FinishServes ==
  ASSUME AtEnd
  PROVE  ServedBy(Fetched(Made), today) /\ \A i \in Range(Fetched(Made)) : i.fetched = day
<1> DEFINE list == Fetched(Made)
           l == Len(Made)
           W == {WeekScopes[n] : n \in DOMAIN items}
<1>1. /\ IsSequence(Made) /\ l \in Nat /\ DOMAIN Made = 1..l /\ l # 0
      /\ \A n \in 1..l : Made[n] \in Range(Made) /\ MadeItem(Made[n])
      /\ \A x \in Range(Made) : \E n \in 1..l : x = Made[n]
  BY MadeElements, ListElements
<1>2. /\ IsSequence(list) /\ DOMAIN list = 1..l /\ list # <<>>
      /\ \A n \in 1..l : list[n] \in Range(list) /\ Alike(list[n], Made[n]) /\ list[n].fetched = day
      /\ \A i \in Range(list) : \E n \in 1..l : i = list[n]
  <2>1. DOMAIN list = 1..l /\ \A n \in 1..l : list[n] = FetchedAt(Made[n], day)
    BY <1>1 DEF Fetched
  <2>2. list = [n \in 1..l |-> list[n]]
    BY <1>1 DEF Fetched
  <2> HIDE DEF list, l
  <2>3. IsSequence(list) /\ Len(list) = l
    BY <1>1, <2>1, <2>2, MappedList
  <2>4. QED
    BY <1>1, <2>1, <2>3, ServedAsMade, ListElements
<1> HIDE DEF list, l
<1>3. \A i \in Range(list) : i.fetched = day /\ \E x \in Range(Made) : MadeItem(x) /\ Alike(i, x)
  <2> TAKE i \in Range(list)
  <2>1. PICK n \in 1..l : i = list[n]
    BY <1>2
  <2>2. i.fetched = day /\ Alike(i, Made[n])
    BY <1>2, <2>1
  <2>3. Made[n] \in Range(Made) /\ MadeItem(Made[n])
    BY <1>1
  <2>4. QED
    BY <2>2, <2>3, Zenon
<1>4. \A x \in Range(Made) : \E i \in Range(list) : Alike(i, x)
  BY <1>1, <1>2
<1>5. /\ IsSequence(users) /\ DOMAIN UserTargets = DOMAIN users
      /\ \A n \in DOMAIN users : users[n].id \in NamedBy(setup.users, UserTargets[n]) /\ Full(users[n])
      /\ DOMAIN stats = {a.id : a \in Range(Counted)}
  BY AtEndFacts
<1>6. \A n \in DOMAIN users : \E i \in Range(list) :
        i.category = "token_usage_user" /\ i.scope = users[n].id
  <2> TAKE n \in DOMAIN users
  <2>1. PICK i \in Range(list) : Alike(i, UserTotal(users[n]))
    BY <1>4, MadeElements
  <2>2. QED
    BY <2>1 DEF Alike, UserTotal
<1>7. ASSUME NEW i \in Range(list), i.category = "token_usage_user"
      PROVE  \E n \in DOMAIN users : i.scope = users[n].id
  <2>1. PICK x \in Range(Made) : MadeItem(x) /\ Alike(i, x)
    BY <1>3
  <2>2. x.category = "token_usage_user" /\ i.scope = x.scope
    BY <1>7, <2>1 DEF Alike
  <2>3. PICK n \in DOMAIN users : x = UserTotal(users[n])
    BY <2>1, <2>2 DEF MadeItem, TotalItem, DayItem, ProductQuota, QuotaItem, WeekItem
  <2>4. QED
    BY <2>2, <2>3 DEF UserTotal
<1>8. WantedOf(list) = {users[n].id : n \in DOMAIN users} \cup {a.id : a \in Range(Counted)}
  <2>1. {i.scope : i \in {j \in Range(list) : j.category = "token_usage_user"}} = {users[n].id : n \in DOMAIN users}
    BY <1>6, <1>7
  <2>2. QED
    BY <2>1 DEF WantedOf
<1>9. WantedOf(list) = W
  BY <1>8, WeeksApart
<1>10. ASSUME NEW i \in Range(list)
       PROVE  IsAnswer(i, today, WantedOf(list))
  <2>1. PICK x \in Range(Made) : MadeItem(x) /\ Alike(i, x)
    BY <1>3
  <2>2. CASE x = TotalItem
    BY <2>1, <2>2 DEF Alike, TotalItem, IsAnswer
  <2>3. ASSUME NEW n \in DOMAIN users, x = UserTotal(users[n])
        PROVE  IsAnswer(i, today, WantedOf(list))
    <3>1. i.category = "token_usage_user" /\ i.scope = users[n].id
      BY <2>1, <2>3 DEF Alike, UserTotal
    <3>2. QED
      BY <1>5, <3>1 DEF IsAnswer
  <2>4. ASSUME NEW p, NEW s \in WantedOf(list), NEW v \in 0..MaxUse, x = DayItem(p, s, v)
        PROVE  IsAnswer(i, today, WantedOf(list))
    <3>1. i.category = "token_usage_product" /\ i.start = today /\ i.end = today
          /\ i.scope = s /\ i.value = v
      BY <2>1, <2>4 DEF Alike, DayItem
    <3>2. v \in Nat
      BY BoundAssumption
    <3>3. QED
      BY <3>1, <3>2 DEF IsAnswer
  <2>5. ASSUME NEW q \in Range(UserQuota), x = ProductQuota(q)
        PROVE  IsAnswer(i, today, WantedOf(list))
    <3>1. i.category = "product_quota" /\ i.window = q.window
      BY <2>1, <2>5 DEF Alike, ProductQuota
    <3>2. QED
      BY <3>1 DEF IsAnswer
  <2>6. ASSUME NEW a \in Range(Chosen), x \in {QuotaItem(a, "5H", a.five), QuotaItem(a, "Week", a.week)}
        PROVE  IsAnswer(i, today, WantedOf(list))
    <3>1. QuotaOf(i, a, "5H", a.five) \/ QuotaOf(i, a, "Week", a.week)
      BY <2>1, <2>6 DEF Alike, QuotaItem, QuotaOf
    <3>2. i.category = "quota"
      BY <3>1 DEF QuotaOf
    <3>3. QED
      BY <3>1, <3>2 DEF IsAnswer
  <2>7. ASSUME NEW n \in DOMAIN items, x = WeekItem(WeekScopes[n], items[n].value)
        PROVE  IsAnswer(i, today, WantedOf(list))
    <3> DEFINE s == WeekScopes[n]
               v == items[n].value
    <3>1. s \in WantedOf(list)
      BY <1>9
    <3>2. v \in Nat \cup {Missing}
      <4>1. v \in 0..MaxUse \cup {Missing}
        BY DEF AtEnd, CollectInv, AskedWeeks
      <4>2. QED
        BY <4>1, BoundAssumption
    <3> HIDE DEF s, v
    <3>3. x = WeekItem(s, v)
      BY <2>7 DEF s, v
    <3>4. i.category = "token_usage_product_week" /\ i.product = "codex" /\ i.start = WeekStart(today)
          /\ i.end = today /\ i.scope = s /\ i.value = v
      BY <2>1, <3>3 DEF Alike, WeekItem
    <3>5. QED
      BY <3>1, <3>2, <3>4 DEF IsAnswer
  <2>8. \A n \in DOMAIN users, p \in Products : users[n].id \in WantedOf(list) /\ users[n].usage[p] \in 0..MaxUse
    BY <1>5, <1>8 DEF Full
  <2>9. \A s \in DOMAIN stats : s \in WantedOf(list) /\ stats[s] \in 0..MaxUse
    <3>1. \A s \in DOMAIN stats : stats[s] \in 0..MaxUse
      BY DEF AtEnd, CollectInv, Accounted
    <3>2. QED
      BY <1>5, <1>8, <3>1
  <2>10. QED
    BY <2>1, <2>2, <2>3, <2>4, <2>5, <2>6, <2>7, <2>8, <2>9 DEF MadeItem
<1>11. \A n \in DOMAIN UserTargets : \E i \in Range(list) :
         i.category = "token_usage_user" /\ i.scope \in NamedBy(setup.users, UserTargets[n])
  BY <1>5, <1>6
<1>12. ASSUME NEW a \in Range(Chosen)
       PROVE  /\ \E i \in Range(list) : QuotaOf(i, a, "5H", a.five)
              /\ \E i \in Range(list) : QuotaOf(i, a, "Week", a.week)
  <2>1. PICK i \in Range(list) : Alike(i, QuotaItem(a, "5H", a.five))
    BY <1>4, MadeElements
  <2>2. PICK j \in Range(list) : Alike(j, QuotaItem(a, "Week", a.week))
    BY <1>4, MadeElements
  <2>3. QuotaOf(i, a, "5H", a.five) /\ QuotaOf(j, a, "Week", a.week)
    BY <2>1, <2>2 DEF Alike, QuotaItem, QuotaOf
  <2>4. QED
    BY <2>3
<1>13. ASSUME NEW c \in {"token_usage_product", "token_usage_product_week"}
       PROVE  Of(list, c) = Of(Made, c) /\ (\A n \in Of(Made, c) : list[n].scope = Made[n].scope)
  <2>1. ASSUME NEW n \in 1..l
        PROVE  /\ list[n].category = Made[n].category
               /\ Made[n].category = c => list[n].product = Made[n].product /\ list[n].scope = Made[n].scope
    <3> DEFINE y == list[n]
               x == Made[n]
    <3>1. Alike(y, x)
      BY <1>2
    <3> HIDE DEF y, x
    <3>2. y.category = x.category /\ (x.category = c => y.product = x.product /\ y.scope = x.scope)
      BY <3>1 DEF Alike
    <3>3. QED
      BY <3>2 DEF y, x
  <2>2. DOMAIN list = 1..l /\ DOMAIN Made = 1..l
    BY <1>1, <1>2
  <2>3. QED
    BY <2>1, <2>2 DEF Of
<1>14. Paired(list)
  <2>1. PICK beside : PairedBy(Made, beside)
    BY MadePaired DEF Paired
  <2>2. PairedBy(list, beside)
    BY <1>13, <2>1 DEF PairedBy
  <2>3. QED
    BY <2>2 DEF Paired
<1>15. /\ Apart => Once(list, "token_usage_product_week")
       /\ ScopesOf(list, "token_usage_product_week") = W
  <2>1. Apart => Once(list, "token_usage_product_week")
    BY <1>13, MadePaired DEF Once
  <2>2. ScopesOf(list, "token_usage_product_week") = ScopesOf(Made, "token_usage_product_week")
    BY <1>13 DEF ScopesOf
  <2>3. QED
    BY <2>1, <2>2, MadePaired
<1>16. ServedBy(list, today)
  BY <1>2, <1>9, <1>10, <1>11, <1>12, <1>14, <1>15 DEF ServedBy
<1>17. QED
  BY <1>3, <1>16 DEF list

---------------------------------------------------------------------------
(* The snapshot.                                                           *)

\* What is served is of a collect that ended, whatever failed since.
Serving ==
  /\ snapshot = [status |-> snapshot.status, fetched |-> snapshot.fetched, items |-> snapshot.items,
                 began |-> snapshot.began, today |-> snapshot.today, round |-> snapshot.round]
  /\ snapshot.status \in {"none", "ok", "error"}
  /\ snapshot.today \in FirstDay..day
  /\ snapshot.items # <<>> => ServedBy(snapshot.items, snapshot.today)
  /\ \A i \in Range(snapshot.items) : i.fetched \in Days

LEMMA ServedByKept ==
  ASSUME [Next]_vars
  PROVE  \A list, t : ServedBy(list, t)' <=> ServedBy(list, t)
BY ConfigStep DEF ServedBy, WantedOf, IsAnswer, Apart

LEMMA DayAdvances ==
  ASSUME Counting, [Next]_vars
  PROVE  day \in Days /\ day' \in Days /\ FirstDay..day \subseteq FirstDay..day'
<1>1. day' = day \/ day' = day + 1
  BY DEF Next, Use, Midnight, Begin, Collect, FetchAccounts, FetchTodayStats, ResolveUser, FetchUsage,
         FetchQuota, FetchWeek, WeekFails, Finish, Fails, Failed, Returned, vars
<1>2. day \in Days /\ day' \in Days
  BY CountingKept DEF Counting, Days
<1>3. QED
  BY <1>1, <1>2, BoundAssumption DEF Days

\* A collect that fails leaves the items and where they are from.
LEMMA FailedSnapshot ==
  ASSUME Serving, Failed
  PROVE  /\ snapshot' = [status |-> snapshot'.status, fetched |-> snapshot'.fetched, items |-> snapshot'.items,
                         began |-> snapshot'.began, today |-> snapshot'.today, round |-> snapshot'.round]
         /\ snapshot'.status = "error" /\ snapshot'.today = snapshot.today /\ snapshot'.items = snapshot.items
         /\ snapshot'.began = snapshot.began
<1> DEFINE s == snapshot
           r == [s EXCEPT !.status = "error", !.fetched = day]
<1>1. s = [status |-> s.status, fetched |-> s.fetched, items |-> s.items,
           began |-> s.began, today |-> s.today, round |-> s.round]
  BY DEF Serving
<1> HIDE DEF s
<1>2. /\ r = [status |-> r.status, fetched |-> r.fetched, items |-> r.items,
              began |-> r.began, today |-> r.today, round |-> r.round]
      /\ r.status = "error" /\ r.today = s.today /\ r.items = s.items /\ r.began = s.began
  <2> DEFINE q == [status |-> "error", fetched |-> day, items |-> s.items,
                   began |-> s.began, today |-> s.today, round |-> s.round]
  <2>1. r = q
    <3>1. PICK a, b, c, d, e, f : s = [status |-> a, fetched |-> b, items |-> c,
                                       began |-> d, today |-> e, round |-> f]
      BY <1>1, Zenon
    <3>2. s.items = c /\ s.began = d /\ s.today = e /\ s.round = f
      BY <3>1
    <3>3. r = [status |-> "error", fetched |-> day, items |-> c, began |-> d, today |-> e, round |-> f]
      <4> DEFINE o == [s EXCEPT !.status = "error"]
      <4>1. o = [status |-> "error", fetched |-> b, items |-> c, began |-> d, today |-> e, round |-> f]
        BY <3>1
      <4>2. r = [o EXCEPT !.fetched = day]
        OBVIOUS
      <4> HIDE DEF o, r
      <4>3. [o EXCEPT !.fetched = day] =
              [status |-> "error", fetched |-> day, items |-> c, began |-> d, today |-> e, round |-> f]
        BY <4>1
      <4>4. QED
        BY <4>2, <4>3
    <3>4. QED
      BY <3>2, <3>3
  <2>2. /\ q = [status |-> q.status, fetched |-> q.fetched, items |-> q.items,
                began |-> q.began, today |-> q.today, round |-> q.round]
        /\ q.status = "error" /\ q.today = s.today /\ q.items = s.items /\ q.began = s.began
    OBVIOUS
  <2> HIDE DEF r, q
  <2>3. QED
    BY <2>1, <2>2
<1>3. snapshot' = r
  BY DEF Failed, s
<1> HIDE DEF r
<1>4. QED
  BY <1>2, <1>3 DEF s

LEMMA ServingKept == CollectInv /\ Serving /\ [Next]_vars => Serving'
<1> SUFFICES ASSUME CollectInv, Serving, [Next]_vars
             PROVE  Serving'
  OBVIOUS
<1>1. /\ day \in Days /\ day' \in Days /\ FirstDay..day \subseteq FirstDay..day' /\ Days' = Days
      /\ \A list, t : ServedBy(list, t)' <=> ServedBy(list, t)
  BY DayAdvances, ServedByKept DEF CollectInv, Days
<1>2. ASSUME UNCHANGED snapshot
      PROVE  Serving'
  BY <1>1, <1>2 DEF Serving
<1>3. ASSUME Failed
      PROVE  Serving'
  BY <1>1, <1>3, FailedSnapshot DEF Serving
<1>4. CASE Finish
  <2> DEFINE r == [status |-> "ok", fetched |-> day, items |-> Fetched(Made),
                   began |-> began, today |-> today, round |-> round]
             list == Fetched(Made)
  <2>1. snapshot' = r
    BY <1>4 DEF Finish, Made
  <2>2. AtEnd
    BY <1>4 DEF AtEnd, Finish
  <2>3. ServedBy(list, today) /\ \A i \in Range(list) : i.fetched = day
    BY <2>2, FinishServes
  <2>4. r = [status |-> r.status, fetched |-> r.fetched, items |-> r.items,
             began |-> r.began, today |-> r.today, round |-> r.round]
        /\ r.status = "ok" /\ r.today = today /\ r.items = list
    OBVIOUS
  <2>5. today \in FirstDay..day
    BY DEF CollectInv, Counting
  <2> HIDE DEF r, list
  <2>6. QED
    BY <1>1, <2>1, <2>3, <2>4, <2>5 DEF Serving
<1>5. QED
  BY <1>2, <1>3, <1>4 DEF Next, Use, Midnight, Begin, Collect, FetchAccounts, FetchTodayStats, ResolveUser,
     FetchUsage, FetchQuota, FetchWeek, WeekFails, Fails, vars

LEMMA ServingInit == Init => Serving
<1> SUFFICES ASSUME Init
             PROVE  Serving
  OBVIOUS
<1>1. Range(<<>>) = {}
  BY DEF Range
<1>2. QED
  BY <1>1, BoundAssumption DEF Init, Serving

ServedInv == CollectInv /\ Serving

LEMMA AlwaysServed == Spec => []ServedInv
<1>1. Init => ServedInv
  BY CollectInit, ServingInit DEF ServedInv
<1>2. ServedInv /\ [Next]_vars => ServedInv'
  BY CollectKept, ServingKept DEF ServedInv
<1>3. QED
  BY <1>1, <1>2, PTL DEF Spec

\* The state is typed: figures are only of scopes the upstream was asked for, also while
\* some of a collect is missing (Collect, and resolveUser, whose users' ids come from the
\* targets or from the search).
THEOREM TypesHold == Spec => []TypeOK
<1>1. ASSUME ServedInv
      PROVE  TypeOK
  <2>0. ConfigInv /\ Counting /\ Accounted /\ Resolved /\ AskedWeeks /\ Serving
    BY <1>1 DEF ServedInv, CollectInv
  <2>1. setup \in Setups /\ Len(targets) = Len(setup.targets)
    BY <2>0, ConfiguredTargets DEF ConfigInv
  <2>2. {day, today} \subseteq Days /\ used \subseteq Unit
    BY <2>0, BoundAssumption DEF Counting, Days
  <2>3. step \in Steps /\ round \in 0..MaxRounds
    BY <2>0 DEF Accounted
  <2>4. DOMAIN stats \subseteq Scopes /\ Range(stats) \subseteq 0..MaxUse
    <3>1. CASE step \in {"idle", "accounts", "stats"}
      BY <2>0, <3>1 DEF Accounted, Range
    <3>2. CASE step \notin {"idle", "accounts", "stats"}
      <4>1. DOMAIN stats = {a.id : a \in Range(Counted)} /\ \A s \in DOMAIN stats : stats[s] \in 0..MaxUse
        BY <2>0, <3>2 DEF Accounted
      <4>2. \A a \in Range(Counted) : a.id \in Scopes
        BY <2>0, CountedAccounts, ListElements
      <4>3. QED
        BY <4>1, <4>2 DEF Range
    <3>3. QED
      BY <3>1, <3>2
  <2>5. \A n \in DOMAIN users : users[n].id \in Asked
    <3>1. \A n \in DOMAIN users : n \in DOMAIN UserTargets
      <4>1. IsSequence(users) /\ IsSequence(UserTargets) /\ Len(users) <= Len(UserTargets)
        BY <2>0, UserTargetList DEF Resolved
      <4>2. Len(users) \in Nat /\ DOMAIN users = 1..Len(users) /\ Len(UserTargets) \in Nat
            /\ DOMAIN UserTargets = 1..Len(UserTargets)
        BY <4>1, ListElements
      <4>3. QED
        BY <4>1, <4>2
    <3>2. \A n \in DOMAIN users : users[n].id \in NamedBy(setup.users, UserTargets[n])
      BY <2>0 DEF Resolved
    <3>3. \A n \in DOMAIN UserTargets : UserTargets[n] \in Range(UserTargets)
      BY DEF Range
    <3>4. QED
      BY <2>0, <3>1, <3>2, <3>3, NamedIsAsked
  <2>6. \A n \in DOMAIN items : items[n].scope \in Asked /\ items[n].value \in 0..MaxUse \cup {Missing}
    <3> SUFFICES ASSUME NEW n \in DOMAIN items
                 PROVE  items[n].scope \in Asked /\ items[n].value \in 0..MaxUse \cup {Missing}
      OBVIOUS
    <3>1. step = "week" /\ IsSequence(items) /\ Len(items) <= Len(WeekScopes)
      BY <2>0 DEF AskedWeeks
    <3>2. /\ items[n] = WeekItem(WeekScopes[n], items[n].value)
          /\ items[n].value \in 0..MaxUse \cup {Missing}
      BY <2>0 DEF AskedWeeks
    <3>3. items[n].scope = WeekScopes[n]
      <4> DEFINE i == items[n]
                 v == i.value
                 c == WeekScopes[n]
      <4>1. i = WeekItem(c, v)
        BY <3>2
      <4> HIDE DEF v, c
      <4> HIDE DEF i
      <4>2. i.scope = c
        BY <4>1 DEF WeekItem
      <4>3. QED
        BY <4>2 DEF i, c
    <3>4. selected = Chosen /\ IsSequence(users)
      BY <2>0, <3>1 DEF Accounted, Resolved
    <3>5. IsSequence(Counted) /\ \A p \in DOMAIN Counted : Counted[p].id \in Scopes
      BY <2>0, CountedAccounts
    <3> DEFINE l == Len(users)
               m == Len(Counted)
               w == IdsOf(users, Counted)
    <3>6. l \in Nat /\ DOMAIN users = 1..l /\ m \in Nat /\ DOMAIN Counted = 1..m
      BY <3>4, <3>5, ListElements
    <3>7. /\ Len(w) = l + m /\ (\A k \in 1..l : w[k] = users[k].id)
          /\ \A k \in 1..m : w[l + k] = Counted[k].id
      BY <3>4, <3>5, IdsInOrder
    <3>8. WeekScopes = w
      BY <3>4 DEF WeekScopes, IdsOf, Counted
    <3> HIDE DEF w, l, m
    <3>9. n \in 1..(l + m)
      <4>1. n \in 1..Len(items) /\ Len(items) \in Nat /\ Len(items) <= l + m
        BY <3>1, <3>7, <3>8, ListElements
      <4>2. QED
        BY <3>6, <4>1
    <3>10. w[n] \in Asked
      <4>1. CASE n <= l
        BY <2>5, <3>6, <3>7, <3>9, <4>1
      <4>2. CASE ~(n <= l)
        <5>1. n - l \in 1..m /\ l + (n - l) = n
          BY <3>6, <3>9, <4>2
        <5>2. QED
          BY <3>5, <3>6, <3>7, <5>1 DEF Asked
      <4>3. QED
        BY <4>1, <4>2
    <3>11. QED
      BY <3>2, <3>3, <3>8, <3>10
  <2>7. snapshot.status \in {"none", "ok", "error"} /\ \A n \in DOMAIN snapshot.items : snapshot.items[n].fetched \in Days
    BY <2>0 DEF Serving, Range
  <2>8. QED
    BY <2>1, <2>2, <2>3, <2>4, <2>5, <2>6, <2>7 DEF TypeOK
<1>2. QED
  BY <1>1, AlwaysServed, PTL

\* What is served of users, and what is shown of their quota.
LEMMA UsersServed == ServedInv => UserFigures
<1> SUFFICES ASSUME ServedInv
             PROVE  UserFigures
  OBVIOUS
<1> DEFINE list == snapshot.items
           shown == DeepSeekQuota(list)
<1>1. ConfigInv /\ Serving /\ IsSetup(setup)
  BY ConfiguredTargets DEF ServedInv, CollectInv
<1>2. IsSequence(UserTargets) /\ \A n \in DOMAIN UserTargets : UserTargets[n] \in Range(UserTargets)
  BY <1>1, UserTargetList DEF Range
<1>3. \A c : Served(c) = {i \in Range(list) : i.category = c}
  BY DEF Served, Range
<1>4. \A i \in Range(list) : IsAnswer(i, snapshot.today, WantedOf(list))
  <2>1. CASE list = <<>>
    BY <2>1 DEF Range
  <2>2. CASE list # <<>>
    BY <1>1, <2>2 DEF Serving, ServedBy
  <2>3. QED
    BY <2>1, <2>2
<1>5. IsSequence(list)
  <2>1. IsSequence(<<>>)
    BY DEF IsSequence
  <2>2. QED
    BY <1>1, <2>1 DEF Serving, ServedBy
<1>6. \A i \in Served("token_usage_user") : \E t \in Range(UserTargets) : i.scope \in NamedBy(setup.users, t)
  <2> TAKE i \in Served("token_usage_user")
  <2>1. i \in Range(list) /\ i.category = "token_usage_user"
    BY <1>3
  <2>2. IsAnswer(i, snapshot.today, WantedOf(list))
    BY <1>4, <2>1
  <2>3. PICK n \in DOMAIN UserTargets : i.scope \in NamedBy(setup.users, UserTargets[n])
    BY <2>1, <2>2 DEF IsAnswer
  <2>4. QED
    BY <1>2, <2>3
<1>7. ASSUME list # <<>>, NEW t \in Range(UserTargets)
      PROVE  \E i \in Served("token_usage_user") : i.scope \in NamedBy(setup.users, t)
  <2>1. PICK n \in DOMAIN UserTargets : t = UserTargets[n]
    BY DEF Range
  <2>2. PICK i \in Range(list) : i.category = "token_usage_user" /\ i.scope \in NamedBy(setup.users, t)
    BY <1>1, <1>7, <2>1 DEF Serving, ServedBy
  <2>3. QED
    BY <1>3, <2>2
<1>8. ASSUME shown # Missing, shown.window = "balance"
      PROVE  AsksQuota => setup.windows = <<>>
  <2>1. \A i \in Range(list) : i.category = "product_quota" => \E q \in Range(UserQuota) : i.window = q.window
    <3> TAKE i \in Range(list)
    <3>1. IsAnswer(i, snapshot.today, WantedOf(list))
      BY <1>4
    <3>2. QED
      BY <3>1 DEF IsAnswer
  <2>2. \A q \in Range(UserQuota) : q.window \in {"daily", "weekly", "monthly", "balance"}
    <3>1. /\ \A q \in Range(setup.windows) : q.window \in {"daily", "weekly", "monthly"}
          /\ \A q \in Range(setup.balance) : q.window = "balance"
      BY <1>1, Zenon DEF IsSetup
    <3>2. Range(<<>>) = {}
      BY DEF Range
    <3>3. UserQuota \in {setup.windows, setup.balance, <<>>}
      BY DEF UserQuota
    <3>4. QED
      BY <3>1, <3>2, <3>3
  <2>3. \A i \in Range(list) :
          i.category = "product_quota" => i.window \in {"daily", "weekly", "monthly", "balance"}
    BY <2>1, <2>2
  <2>4. list \in Seq(Range(list))
    BY <1>5 DEF IsSequence
  <2> HIDE DEF list
  <2>5. PICK i \in Range(list) : i.category = "product_quota" /\ shown = i
    BY <1>8, <2>3, <2>4, FirstWindowShown
  <2>6. PICK q \in Range(UserQuota) : q.window = "balance"
    BY <1>8, <2>1, <2>5
  <2>7. QED
    BY <1>1, <2>6 DEF IsSetup, UserQuota
<1>9. QED
  <2> HIDE DEF shown
  <2>1. shown # Missing /\ shown.window = "balance" /\ AsksQuota => setup.windows = <<>>
    BY <1>8
  <2>2. DeepSeekQuota(snapshot.items) = shown
    BY DEF shown
  <2>3. QED
    BY <1>6, <1>7, <2>1, <2>2 DEF UserFigures

\* A user target is answered for by the user it names, whoever else the search finds, and
\* where the quota in dollars is asked for a balance is shown only of a user without one
\* (resolveUser, fetchUserTodayStats, buildDeepSeekQuota).
THEOREM FiguresOfTheUser == Spec => []UserFigures
BY AlwaysServed, UsersServed, PTL

\* A collect that fails leaves the items, so it does not make the figures look newer, and a
\* panel with rows says that they are stale (SaveFailure, snapshotDataUpdatedAt,
\* codexDashboardStatus).
THEOREM FailureShowsAge == Spec => FailureKeepsAge
<1>1. ASSUME ServedInv, [Next]_vars
      PROVE  [snapshot.items # <<>> /\ snapshot'.status = "error"
               => /\ UpdatedAt(snapshot') = UpdatedAt(snapshot)
                  /\ Rows # <<>> => PanelStatus(snapshot', Rows) = "stale"]_snapshot
  <2>1. ASSUME Failed, snapshot.items # <<>>
        PROVE  /\ UpdatedAt(snapshot') = UpdatedAt(snapshot)
               /\ Rows # <<>> => PanelStatus(snapshot', Rows) = "stale"
    <3>1. snapshot'.status = "error" /\ snapshot'.items = snapshot.items
      BY <1>1, <2>1, FailedSnapshot DEF ServedInv
    <3>2. UpdatedAt(snapshot') = UpdatedAt(snapshot)
      BY <2>1, <3>1 DEF UpdatedAt
    <3>3. QED
      BY <3>1, <3>2 DEF PanelStatus
  <2>2. Finish => snapshot'.status = "ok"
    BY DEF Finish
  <2>3. QED
    BY <1>1, <2>1, <2>2 DEF Next, Use, Midnight, Begin, Collect, FetchAccounts, FetchTodayStats, ResolveUser,
       FetchUsage, FetchQuota, FetchWeek, WeekFails, Fails, vars
<1>2. QED
  BY <1>1, AlwaysServed, PTL DEF Spec, FailureKeepsAge

---------------------------------------------------------------------------
(* The rows of the panel.                                                  *)

\* The row of an account: its name and email, and its quota.
AccountRow(a) == Row(a.name, IF a.email = {} THEN Missing ELSE a.email, a.five, a.week)

LEMMA AccountFacts ==
  ASSUME ConfigInv, NEW a \in Range(Chosen)
  PROVE  /\ a.five \in 0..100 /\ a.week \in 0..100 /\ Missing \notin Texts(a)
         /\ Percents(AccountRow(a))
         /\ \E b \in Range(setup.accounts) : SameAccount(a, b)
         /\ \A b \in Range(Chosen) : a.id = b.id => a = b
<1>1. IsSetup(setup)
  BY ConfiguredTargets
<1>2. PICK b \in Range(setup.accounts) : SameAccount(a, b)
  BY ChosenAccounts
<1>3. {b.five, b.week} \subseteq 0..100 /\ Missing \notin Texts(b)
  BY <1>1, Zenon DEF IsSetup
<1>4. a.five \in 0..100 /\ a.week \in 0..100 /\ Missing \notin Texts(a)
  BY <1>2, <1>3, SameFields DEF Texts
<1>5. Percents(AccountRow(a))
  BY <1>4 DEF Percents, AccountRow, Row
<1>6. \A b2 \in Range(Chosen) : a.id = b2.id => a = b2
  <2>1. \A p, q \in DOMAIN Chosen : Chosen[p].id = Chosen[q].id => p = q
    BY ChosenAccounts
  <2>2. QED
    BY <2>1 DEF Range
<1>7. QED
  BY <1>2, <1>4, <1>5, <1>6

\* What the items of a quota say of an account.
LEMMA QuotaServed ==
  ASSUME ConfigInv, NEW list, NEW t, ServedBy(list, t), NEW i \in Stated(list)
  PROVE  \E a \in Range(Chosen) :
           /\ AccountKey(i) = a.id /\ i.key = a.id /\ i.name = a.name
           /\ i.email = IF a.email = {} THEN Missing ELSE a.email
           /\ i.window = "5H" => i.left = a.five
           /\ i.window = "Week" => i.left = a.week
<1>1. i \in Range(list) /\ i.category = "quota"
  BY StatedElements DEF IsQuota
<1>2. IsAnswer(i, t, WantedOf(list))
  BY <1>1 DEF ServedBy
<1>3. PICK a \in Range(Chosen) : QuotaOf(i, a, "5H", a.five) \/ QuotaOf(i, a, "Week", a.week)
  BY <1>1, <1>2 DEF IsAnswer
<1>4. a.id # Missing
  BY AccountFacts DEF Texts
<1>5. QED
  BY <1>3, <1>4 DEF QuotaOf, AccountKey

\* The cells of an account show its quota.
LEMMA CellsServed ==
  ASSUME ConfigInv, NEW list, NEW t, ServedBy(list, t), NEW a \in Range(Chosen)
  PROVE  Cell(list, a.id, "5H") = a.five /\ Cell(list, a.id, "Week") = a.week
<1>1. list \in Seq(Range(list))
  BY DEF ServedBy, IsSequence
<1>2. ASSUME NEW w \in {"5H", "Week"}, NEW left, \E i \in Range(list) : QuotaOf(i, a, w, left)
      PROVE  \E j \in Stated(list) : AccountKey(j) = a.id /\ j.window = w /\ Cell(list, a.id, w) = j.left
  <2>1. PICK i \in Range(list) : QuotaOf(i, a, w, left)
    BY <1>2
  <2>2. a.id # Missing
    BY AccountFacts DEF Texts
  <2>3. i \in Stated(list) /\ AccountKey(i) = a.id /\ i.window = w
    BY <2>1, <2>2, StatedElements DEF QuotaOf, IsQuota, AccountKey
  <2>4. QED
    BY <1>1, <2>3, CellStated
<1>3. ASSUME NEW j \in Stated(list), AccountKey(j) = a.id
      PROVE  (j.window = "5H" => j.left = a.five) /\ (j.window = "Week" => j.left = a.week)
  <2>1. PICK b \in Range(Chosen) : /\ AccountKey(j) = b.id
                                   /\ j.window = "5H" => j.left = b.five
                                   /\ j.window = "Week" => j.left = b.week
    BY QuotaServed
  <2>2. a = b
    BY <1>3, <2>1, AccountFacts
  <2>3. QED
    BY <2>1, <2>2
<1>4. (\E i \in Range(list) : QuotaOf(i, a, "5H", a.five)) /\ (\E i \in Range(list) : QuotaOf(i, a, "Week", a.week))
  BY DEF ServedBy
<1>5. PICK j \in Stated(list) : AccountKey(j) = a.id /\ j.window = "5H" /\ Cell(list, a.id, "5H") = j.left
  BY <1>2, <1>4
<1>6. PICK k \in Stated(list) : AccountKey(k) = a.id /\ k.window = "Week" /\ Cell(list, a.id, "Week") = k.left
  BY <1>2, <1>4
<1>7. QED
  BY <1>3, <1>5, <1>6

\* The rows are those of the accounts selected, one way and the other.
LEMMA RowsServed ==
  ASSUME ConfigInv, Serving
  PROVE  /\ \E l \in Nat : DOMAIN Rows = 1..l
         /\ \A row \in Range(Rows) : \E a \in Range(Chosen) : row = AccountRow(a)
         /\ snapshot.items # <<>> => \A a \in Range(Chosen) : AccountRow(a) \in Range(Rows)
         /\ \A i \in Served("quota") : \E a \in Range(Chosen) : i.key = a.id
<1> DEFINE list == snapshot.items
           t == snapshot.today
<1>1. CASE list = <<>>
  <2>1. Range(list) = {} /\ list \in Seq({})
    BY <1>1 DEF Range
  <2>2. Stated(list) = {}
    BY <2>1, StatedElements
  <2>3. Rows = <<>>
    BY <2>1, <2>2, SomeRows DEF Rows
  <2>4. DOMAIN Rows = 1..0 /\ Range(Rows) = {}
    BY <2>3 DEF Range
  <2>5. Served("quota") = {}
    BY <1>1 DEF Served
  <2>6. QED
    BY <1>1, <2>4, <2>5
<1>2. CASE list # <<>>
  <2>1. ServedBy(list, t)
    BY <1>2 DEF Serving
  <2> HIDE DEF t
  <2>2. list \in Seq(Range(list)) /\ Rows = QuotaRows(list)
    BY <2>1 DEF ServedBy, IsSequence, Rows
  <2> HIDE DEF list
  <2>3. /\ \E l \in Nat : DOMAIN Rows = 1..l
        /\ \A row \in Range(Rows) : \E i \in Stated(list) : row = RowOf(list, i)
        /\ \A i \in Stated(list) : \E j \in Stated(list) :
             AccountKey(j) = AccountKey(i) /\ RowOf(list, j) \in Range(Rows)
    BY <2>2, RowsShown
  <2>4. ASSUME NEW i \in Stated(list)
        PROVE  \E a \in Range(Chosen) : AccountKey(i) = a.id /\ RowOf(list, i) = AccountRow(a)
    <3>1. PICK a \in Range(Chosen) : /\ AccountKey(i) = a.id /\ i.name = a.name
                                     /\ i.email = IF a.email = {} THEN Missing ELSE a.email
      BY <2>1, QuotaServed
    <3>2. Cell(list, a.id, "5H") = a.five /\ Cell(list, a.id, "Week") = a.week
      BY <2>1, CellsServed
    <3>3. QED
      BY <3>1, <3>2 DEF RowOf, AccountRow
  <2>5. \A row \in Range(Rows) : \E a \in Range(Chosen) : row = AccountRow(a)
    BY <2>3, <2>4
  <2>6. ASSUME NEW a \in Range(Chosen)
        PROVE  AccountRow(a) \in Range(Rows)
    <3>1. PICK i \in Range(list) : QuotaOf(i, a, "5H", a.five)
      BY <2>1 DEF ServedBy
    <3>2. a.id # Missing
      BY AccountFacts DEF Texts
    <3>3. i \in Stated(list) /\ AccountKey(i) = a.id
      BY <3>1, <3>2, StatedElements DEF QuotaOf, IsQuota, AccountKey
    <3>4. PICK j \in Stated(list) : AccountKey(j) = a.id /\ RowOf(list, j) \in Range(Rows)
      BY <2>3, <3>3
    <3>5. PICK b \in Range(Chosen) : AccountKey(j) = b.id /\ RowOf(list, j) = AccountRow(b)
      BY <2>4
    <3>6. a = b
      BY <3>4, <3>5, AccountFacts
    <3>7. QED
      BY <3>4, <3>5, <3>6
  <2>7. ASSUME NEW i \in Served("quota")
        PROVE  \E a \in Range(Chosen) : i.key = a.id
    <3>1. i \in Range(list) /\ i.category = "quota"
      BY DEF Served, Range, list
    <3>2. IsAnswer(i, t, WantedOf(list))
      BY <2>1, <3>1 DEF ServedBy
    <3>3. PICK a \in Range(Chosen) : QuotaOf(i, a, "5H", a.five) \/ QuotaOf(i, a, "Week", a.week)
      BY <3>1, <3>2 DEF IsAnswer
    <3>4. QED
      BY <3>3 DEF QuotaOf
  <2>8. QED
    BY <2>3, <2>5, <2>6, <2>7
<1>3. QED
  BY <1>1, <1>2

LEMMA RowsAndAlerts == ServedInv => WorstFirst
<1> SUFFICES ASSUME ServedInv
             PROVE  WorstFirst
  OBVIOUS
<1> DEFINE focus == FocusRow(Rows)
           alerts == Alerts(Rows)
<1>1. ConfigInv /\ Serving
  BY DEF ServedInv, CollectInv
<1>2. PICK l \in Nat : DOMAIN Rows = 1..l
  BY <1>1, RowsServed
<1>3. \A n \in 1..l : Rows[n] \in Range(Rows)
  BY <1>2 DEF Range
<1>4. \A row \in Range(Rows) : \E a \in Range(Chosen) : row = AccountRow(a)
  BY <1>1, RowsServed
<1>5. \A row \in Range(Rows) : /\ row.five \in 0..100 /\ row.week \in 0..100
                               /\ row.status = QuotaStatus(row.five, row.week) /\ Percents(row)
  <2> TAKE row \in Range(Rows)
  <2>1. PICK a \in Range(Chosen) : row = AccountRow(a)
    BY <1>4
  <2>2. a.five \in 0..100 /\ a.week \in 0..100 /\ Percents(row)
    BY <1>1, <2>1, AccountFacts
  <2>3. row.five = a.five /\ row.week = a.week /\ row.status = QuotaStatus(a.five, a.week)
    BY <2>1 DEF AccountRow, Row
  <2>4. QED
    BY <2>2, <2>3
<1>6. ASSUME NEW row \in Range(Rows)
      PROVE  /\ row.status = "exhausted" => focus.status = "exhausted"
             /\ focus.status \in {"best", "ample", "normal"} => AlertsOf(row) = <<>>
  <2>1. PICK m \in 1..l : row = Rows[m]
    BY <1>2 DEF Range
  <2>2. l # 0
    BY <2>1
  <2>3. PICK n \in 1..l : focus = Rows[n] /\ \A k \in 1..l : ~Worse(Rows[k], Rows[n])
    BY <1>2, <1>3, <1>5, <2>2, FocusIsWorst
  <2> HIDE DEF focus
  <2>4. focus \in Range(Rows) /\ ~Worse(row, focus)
    BY <1>3, <2>1, <2>3
  <2>5. Severity(focus) \in 1..5 /\ Severity(row) \in 1..5
    BY <1>5, <2>4, RowBounds
  <2>6. Severity(row) <= Severity(focus)
    BY <2>4, <2>5 DEF Worse
  <2>7. /\ row.five \in 0..100 /\ row.week \in 0..100 /\ row.status = QuotaStatus(row.five, row.week)
        /\ focus.five \in 0..100 /\ focus.week \in 0..100 /\ focus.status = QuotaStatus(focus.five, focus.week)
        /\ ~Unknown(row) /\ ~Unknown(focus)
    BY <1>5, <2>4, CellConstants DEF Unknown
  <2>8. ASSUME row.status = "exhausted"
        PROVE  focus.status = "exhausted"
    <3>1. row.week = 0
      BY <2>7, <2>8 DEF QuotaStatus
    <3>2. Severity(row) = 5
      BY <2>7, <3>1 DEF Severity
    <3>3. Severity(focus) = 5
      BY <2>5, <2>6, <3>2
    <3>4. focus.week = 0
      BY <2>7, <3>3 DEF Severity
    <3>5. QED
      BY <2>7, <3>4 DEF QuotaStatus, Unknown
  <2>9. ASSUME focus.status \in {"best", "ample", "normal"}
        PROVE  AlertsOf(row) = <<>>
    <3>1. focus.five >= 60 /\ focus.week >= 60
      BY <2>7, <2>9 DEF QuotaStatus
    <3>2. Severity(focus) = 1
      <4>1. focus.status # "watch"
        BY <2>9
      <4>2. QED
        BY <2>7, <3>1, <4>1 DEF Severity
    <3>3. Severity(row) = 1
      BY <2>5, <2>6, <3>2
    <3>4. row.week > 50 /\ row.five > 50 /\ row.status # "watch"
      BY <2>7, <3>3 DEF Severity
    <3>5. row.five >= 60
      BY <2>7, <3>4 DEF QuotaStatus, Unknown
    <3>6. QED
      BY <2>7, <3>4, <3>5 DEF AlertsOf
  <2>10. QED
    BY <2>8, <2>9
<1>7. \A n \in DOMAIN alerts : alerts[1].percent <= alerts[n].percent
  BY <1>2, <1>3, <1>5, LeastAlertFirst
<1> HIDE DEF focus, alerts
<1>8. QED
  BY <1>6, <1>7 DEF WorstFirst, focus, alerts

\* The row in focus is the worst, an account with nothing left this week before one that is
\* only low, and the first alert is about the least quota (pickFocusQuotaRow,
\* mergeDashboardAlerts).
THEOREM WorstShownFirst == Spec => []WorstFirst
BY AlwaysServed, RowsAndAlerts, PTL

IsRow(r) == \E a, e, f, w, s : r = [account |-> a, email |-> e, five |-> f, week |-> w, status |-> s]

LEMMA AccountRowIsRow == \A a : IsRow(AccountRow(a))
BY Zenon DEF IsRow, AccountRow, Row

\* A row under another name.
Named(r, email) == [r EXCEPT !.account = email, !.email = email]

FocusOf(rows, email) == FocusRow(Picked(rows, {m \in DOMAIN rows : IsAccountOf(rows[m], email)}))

LEMMA NamedRow ==
  ASSUME NEW r, IsRow(r), NEW email
  PROVE  Named(r, email).email = email /\ Named(r, email).five = r.five /\ Named(r, email).week = r.week
<1>1. PICK a, e, f, w, s : r = [account |-> a, email |-> e, five |-> f, week |-> w, status |-> s]
  BY Zenon DEF IsRow
<1> DEFINE q == [r EXCEPT !.account = email]
           row == Named(r, email)
<1>2. q = [account |-> email, email |-> e, five |-> f, week |-> w, status |-> s]
  BY <1>1
<1>3. row = [q EXCEPT !.email = email]
  BY DEF Named
<1> HIDE DEF q, row
<1>4. row = [account |-> email, email |-> email, five |-> f, week |-> w, status |-> s]
  BY <1>2, <1>3
<1>5. row.email = email /\ row.five = f /\ row.week = w /\ r.five = f /\ r.week = w
  BY <1>1, <1>4
<1>6. QED
  BY <1>5 DEF row

\* The row of an email shows a row of the panel that answers to it, or nothing.
LEMMA RowOfEmail ==
  ASSUME NEW rows, NEW l \in Nat, DOMAIN rows = 1..l, \A n \in 1..l : Percents(rows[n]),
         \A n \in 1..l : IsRow(rows[n]),
         NEW emails, IsSequence(emails), NEW row \in Range(AccountRows(rows, emails))
  PROVE  \E email \in Range(emails) :
           /\ row.email = email
           /\ \/ row.five = Missing /\ \A m \in 1..l : ~IsAccountOf(rows[m], email)
              \/ \E m \in 1..l : IsAccountOf(rows[m], email) /\ row.five = rows[m].five /\ row.week = rows[m].week
<1> DEFINE S == {n \in DOMAIN emails : \A m \in 1..(n - 1) : emails[m] # emails[n]}
           distinct == Picked(emails, S)
<1>1. Range(distinct) \subseteq Range(emails)
  <2>1. S \in SUBSET DOMAIN emails
    OBVIOUS
  <2> HIDE DEF S
  <2>2. QED
    BY <2>1, PickedOfList
<1>2. AccountRows(rows, emails) = [n \in DOMAIN distinct |-> Named(FocusOf(rows, distinct[n]), distinct[n])]
  BY Zenon DEF AccountRows, Named, FocusOf
<1> HIDE DEF distinct
<1>3. PICK email \in Range(emails) : row = Named(FocusOf(rows, email), email)
  <2>1. PICK n \in DOMAIN distinct : row = Named(FocusOf(rows, distinct[n]), distinct[n])
    BY <1>2 DEF Range
  <2>2. QED
    BY <1>1, <2>1 DEF Range
<1> DEFINE T == {m \in DOMAIN rows : IsAccountOf(rows[m], email)}
           shown == FocusRow(Picked(rows, T))
<1>4. row = Named(shown, email)
  BY <1>3, Zenon DEF FocusOf
<1>5. T \in SUBSET Nat /\ IsFiniteSet(T) /\ T \subseteq 1..l
  <2>1. T \in SUBSET (1..l)
    OBVIOUS
  <2> HIDE DEF T
  <2>2. QED
    BY <2>1, Within
<1>6. \A m \in 1..l : m \in T <=> IsAccountOf(rows[m], email)
  OBVIOUS
<1> HIDE DEF T
<1>7. CASE T = {}
  <2>1. shown = EmptyRow(Missing)
    BY <1>7, PickedNone DEF FocusRow
  <2> HIDE DEF shown
  <2>2. row.email = email /\ row.five = shown.five
    <3>1. IsRow(shown)
      BY <2>1, Zenon DEF EmptyRow, IsRow
    <3>2. QED
      BY <1>4, <3>1, NamedRow
  <2>3. shown.five = Missing
    BY <2>1 DEF EmptyRow
  <2>4. QED
    BY <1>3, <1>6, <1>7, <2>2, <2>3
<1>8. CASE T # {}
  <2> DEFINE p == Picked(rows, T)
             c == Cardinality(T)
  <2>1. /\ c \in Nat /\ DOMAIN p = 1..c
        /\ \A k \in 1..c : \E m \in T : p[k] = rows[m]
    <3>1. /\ c \in Nat /\ DOMAIN p = 1..c
          /\ \A k \in 1..c : \E m \in T : Cardinality({j \in T : j <= m}) = k /\ p[k] = rows[m]
      BY <1>5, PickedElements, Zenon
    <3> HIDE DEF p, c
    <3>2. QED
      BY <3>1
  <2>2. c # 0
    BY <1>5, <1>8, FS_EmptySet
  <2>3. shown = FocusRow(p)
    OBVIOUS
  <2> HIDE DEF p, c, shown
  <2>4. \A k \in 1..c : Percents(p[k])
    BY <1>5, <2>1
  <2>5. PICK k \in 1..c : shown = p[k]
    BY <2>1, <2>2, <2>3, <2>4, FocusIsWorst
  <2>6. PICK m \in T : shown = rows[m]
    BY <2>1, <2>5
  <2>7. m \in 1..l
    BY <1>5
  <2>8. row.email = email /\ row.five = rows[m].five /\ row.week = rows[m].week
    <3>1. IsRow(rows[m])
      BY <2>7
    <3>2. QED
      BY <1>4, <2>6, <3>1, NamedRow
  <2>9. QED
    BY <1>3, <1>6, <2>7, <2>8
<1>9. QED
  BY <1>7, <1>8

LEMMA EmailsServed == ServedInv => EmailsShowOwnQuota
<1> SUFFICES ASSUME ServedInv, NEW row \in Range(AccountRows(Rows, setup.emails))
             PROVE  LET own == {a \in Range(setup.accounts) :
                                  /\ \E i \in Served("quota") : i.key = a.id
                                  /\ row.email = IF a.email = {} THEN a.name ELSE a.email}
                    IN  IF own = {} THEN Unknown(row)
                        ELSE \E a \in own : row.five = a.five /\ row.week = a.week
  BY DEF EmailsShowOwnQuota
<1> DEFINE own == {a \in Range(setup.accounts) :
                     /\ \E i \in Served("quota") : i.key = a.id
                     /\ row.email = IF a.email = {} THEN a.name ELSE a.email}
<1>1. ConfigInv /\ Serving /\ IsSetup(setup)
  BY ConfiguredTargets DEF ServedInv, CollectInv
<1>2. PICK l \in Nat : DOMAIN Rows = 1..l
  BY <1>1, RowsServed
<1>3. \A n \in 1..l : Rows[n] \in Range(Rows)
  BY <1>2 DEF Range
<1>4. \A n \in 1..l : \E a \in Range(Chosen) : Rows[n] = AccountRow(a)
  BY <1>1, <1>3, RowsServed
<1>5. \A n \in 1..l : Percents(Rows[n])
  BY <1>1, <1>4, AccountFacts
<1>6. \A n \in 1..l : IsRow(Rows[n])
  BY <1>4, AccountRowIsRow
<1>7. IsSequence(setup.emails) /\ Missing \notin Range(setup.emails)
  BY <1>1, Zenon DEF IsSetup
<1>8. PICK email \in Range(setup.emails) :
        /\ row.email = email
        /\ \/ row.five = Missing /\ \A m \in 1..l : ~IsAccountOf(Rows[m], email)
           \/ \E m \in 1..l : IsAccountOf(Rows[m], email) /\ row.five = Rows[m].five /\ row.week = Rows[m].week
  BY <1>2, <1>5, <1>6, <1>7, RowOfEmail
<1>9. email # Missing
  BY <1>7
<1>10. ASSUME NEW a \in own
       PROVE  \E m \in 1..l : IsAccountOf(Rows[m], email)
  <2>1. PICK i \in Served("quota") : i.key = a.id
    OBVIOUS
  <2>2. PICK b \in Range(Chosen) : b.id = a.id
    BY <1>1, <2>1, RowsServed
  <2>3. PICK c \in Range(setup.accounts) : SameAccount(b, c)
    BY <1>1, AccountFacts
  <2>4. c = a
    <3>1. c.id = a.id
      BY <2>2, <2>3, SameFields
    <3>2. \A n, m \in DOMAIN setup.accounts : setup.accounts[n].id = setup.accounts[m].id => n = m
      BY <1>1, Zenon DEF IsSetup
    <3>3. QED
      BY <3>1, <3>2 DEF Range
  <2>5. email = IF b.email = {} THEN b.name ELSE b.email
    BY <1>8, <2>3, <2>4, SameFields
  <2>6. AccountRow(b) \in Range(Rows)
    <3>1. snapshot.items # <<>>
      BY <2>1 DEF Served
    <3>2. QED
      BY <1>1, <3>1, RowsServed
  <2>7. PICK m \in 1..l : Rows[m] = AccountRow(b)
    BY <1>2, <2>6 DEF Range
  <2>8. IsAccountOf(AccountRow(b), email)
    BY <2>5 DEF IsAccountOf, AccountRow, Row
  <2>9. QED
    BY <2>7, <2>8
<1>11. ASSUME NEW m \in 1..l, IsAccountOf(Rows[m], email)
       PROVE  \E a \in own : Rows[m].five = a.five /\ Rows[m].week = a.week
  <2>1. PICK b \in Range(Chosen) : Rows[m] = AccountRow(b)
    BY <1>4
  <2>2. PICK c \in Range(setup.accounts) : SameAccount(b, c)
    BY <1>1, AccountFacts
  <2>3. b.email # Missing /\ b.name # Missing
    BY <1>1, AccountFacts DEF Texts
  <2>4. email = IF b.email = {} THEN b.name ELSE b.email
    <3>1. \/ Rows[m].email = email
          \/ Rows[m].email = Missing /\ Rows[m].account = email
      BY <1>11 DEF IsAccountOf
    <3>2. Rows[m].email = (IF b.email = {} THEN Missing ELSE b.email) /\ Rows[m].account = b.name
      BY <2>1 DEF AccountRow, Row
    <3>3. QED
      BY <1>9, <2>3, <3>1, <3>2
  <2>5. \E i \in Served("quota") : i.key = b.id
    <3>1. snapshot.items # <<>>
      <4>1. CASE snapshot.items = <<>>
        <5>1. Range(snapshot.items) = {} /\ snapshot.items \in Seq({})
          BY <4>1 DEF Range
        <5>2. Rows = <<>>
          BY <5>1, StatedElements, SomeRows DEF Rows
        <5>3. QED
          BY <1>2, <5>2
      <4>2. QED
        BY <4>1
    <3>2. PICK i \in Range(snapshot.items) : QuotaOf(i, b, "5H", b.five)
      BY <1>1, <3>1 DEF Serving, ServedBy
    <3>3. i \in Served("quota") /\ i.key = b.id
      BY <3>2 DEF QuotaOf, Served, Range
    <3>4. QED
      BY <3>3
  <2>6. c.id = b.id /\ c.email = b.email /\ c.name = b.name /\ c.five = b.five /\ c.week = b.week
    BY <2>2, SameFields
  <2>7. c \in own
    BY <1>8, <2>4, <2>5, <2>6
  <2>8. Rows[m].five = c.five /\ Rows[m].week = c.week
    BY <2>1, <2>6 DEF AccountRow, Row
  <2>9. QED
    BY <2>7, <2>8
<1> HIDE DEF own
<1>12. CASE \A m \in 1..l : ~IsAccountOf(Rows[m], email)
  <2>1. own = {}
    BY <1>10, <1>12
  <2>2. Unknown(row)
    BY <1>8, <1>12 DEF Unknown
  <2>3. QED
    BY <2>1, <2>2 DEF own
<1>13. CASE \E m \in 1..l : IsAccountOf(Rows[m], email)
  <2>1. \E a \in own : row.five = a.five /\ row.week = a.week
    BY <1>8, <1>11, <1>13
  <2>2. own # {}
    BY <2>1
  <2>3. QED
    BY <2>1, <2>2 DEF own
<1>14. QED
  BY <1>12, <1>13

\* An email of the panel shows the quota of an account that has it, and "--" only when none
\* of the accounts selected has it (filterCodexAccounts over buildQuotaAccounts).
THEOREM EmailsShowTheirs == Spec => []EmailsShowOwnQuota
BY AlwaysServed, EmailsServed, PTL

---------------------------------------------------------------------------
(* Amounts.                                                                *)

\* The codex usage of a scope among the first units counted.
UsedBy(units, s, from, to) ==
  Cardinality({u \in used : u.n <= units /\ u.scope = s /\ u.product = "codex" /\ u.day \in from..to})

\* The calendar week of a day: its Monday, and no other since.
LEMMA MondayOfWeek ==
  ASSUME NEW t \in Int
  PROVE  /\ WeekStart(t) \in Int /\ WeekStart(t) <= t /\ Weekday(WeekStart(t)) = 1
         /\ \A d \in (WeekStart(t) + 1)..t : Weekday(d) # 1
<1> DEFINE w == (t + 6) % 7
           k == (w + 6) % 7
<1>1. w \in 0..6 /\ k \in 0..6 /\ WeekStart(t) = t - k
  BY DEF WeekStart, Weekday
<1>2. k = IF w = 0 THEN 6 ELSE w - 1
  <2>1. w \in 0..6
    BY <1>1
  <2> HIDE DEF w
  <2>2. QED
    BY <2>1
<1> HIDE DEF k
<1>3. Weekday(t - k) = 1
  BY <1>1, <1>2 DEF Weekday
<1>4. ASSUME NEW j \in 0..5, j < k
      PROVE  Weekday(t - j) # 1
  BY <1>1, <1>2, <1>4 DEF Weekday
<1>5. \A d \in (t - k + 1)..t : t - d \in 0..5 /\ t - d < k /\ d = t - (t - d)
  BY <1>1
<1>6. QED
  BY <1>1, <1>3, <1>4, <1>5

LEMMA DaysOfWeek ==
  ASSUME NEW t \in Int
  PROVE  {d \in Days : d <= t /\ \A monday \in (d + 1)..t : Weekday(monday) # 1} = Days \cap (WeekStart(t)..t)
<1>1. /\ WeekStart(t) \in Int /\ WeekStart(t) <= t /\ Weekday(WeekStart(t)) = 1
      /\ \A d \in (WeekStart(t) + 1)..t : Weekday(d) # 1
  BY MondayOfWeek
<1>2. Days \subseteq Int
  BY BoundAssumption DEF Days
<1>3. ASSUME NEW d \in Int, d <= t
      PROVE  (\A monday \in (d + 1)..t : Weekday(monday) # 1) <=> WeekStart(t) <= d
  <2>1. CASE WeekStart(t) <= d
    <3>1. \A m \in (d + 1)..t : m \in (WeekStart(t) + 1)..t
      BY <1>1, <2>1
    <3>2. QED
      BY <1>1, <2>1, <3>1
  <2>2. CASE ~(WeekStart(t) <= d)
    <3>1. WeekStart(t) \in (d + 1)..t
      BY <1>1, <2>2
    <3>2. QED
      BY <1>1, <2>2, <3>1
  <2>3. QED
    BY <2>1, <2>2
<1> DEFINE F(d) == \A monday \in (d + 1)..t : Weekday(monday) # 1
           w == WeekStart(t)
<1>4. w \in Int /\ \A d \in Days : d <= t => (F(d) <=> w <= d)
  BY <1>1, <1>2, <1>3
<1> HIDE DEF F, w
<1>5. {d \in Days : d <= t /\ F(d)} = Days \cap (w..t)
  <2>1. ASSUME NEW d \in Days
        PROVE  d <= t /\ F(d) <=> d \in w..t
    <3>1. d \in Int /\ (d <= t => (F(d) <=> w <= d))
      BY <1>2, <1>4
    <3>2. d \in w..t <=> w <= d /\ d <= t
      BY <1>4, <3>1
    <3>3. QED
      BY <3>1, <3>2, Zenon
  <2>2. QED
    BY <2>1, Zenon
<1>6. QED
  BY <1>5 DEF F, w

\* What is counted of a scope: all of it includes what was counted first, and the week the day.
LEMMA UseIncludes ==
  ASSUME Counting, NEW s, NEW units, NEW t \in Int
  PROVE  /\ UsedBy(units, s, WeekStart(t), t) \in Nat /\ UsedIn(s, "codex", WeekStart(t), t) \in Nat
         /\ UsedIn(s, "codex", t, t) \in Nat
         /\ UsedBy(units, s, WeekStart(t), t) <= UsedIn(s, "codex", WeekStart(t), t)
         /\ UsedIn(s, "codex", t, t) <= UsedIn(s, "codex", WeekStart(t), t)
<1> DEFINE A == {u \in used : u.n <= units /\ u.scope = s /\ u.product = "codex" /\ u.day \in WeekStart(t)..t}
           B == {u \in used : u.scope = s /\ u.product = "codex" /\ u.day \in WeekStart(t)..t}
           C == {u \in used : u.scope = s /\ u.product = "codex" /\ u.day \in t..t}
<1>1. IsFiniteSet(used)
  BY DEF Counting
<1>2. t..t \subseteq WeekStart(t)..t
  BY MondayOfWeek
<1>3. A \in SUBSET B /\ C \in SUBSET B /\ B \in SUBSET used
  BY <1>2
<1>4. UsedBy(units, s, WeekStart(t), t) = Cardinality(A) /\ UsedIn(s, "codex", WeekStart(t), t) = Cardinality(B)
      /\ UsedIn(s, "codex", t, t) = Cardinality(C)
  BY DEF UsedBy, UsedIn
<1> HIDE DEF A, B, C
<1>5. IsFiniteSet(B) /\ IsFiniteSet(A) /\ IsFiniteSet(C) /\ Cardinality(A) <= Cardinality(B)
      /\ Cardinality(C) <= Cardinality(B)
  BY <1>1, <1>3, FS_Subset
<1>6. QED
  BY <1>4, <1>5, FS_CardinalityType

\* Usage is only added, after what was counted.
LEMMA UseGrows ==
  ASSUME Counting, [Next]_vars
  PROVE  /\ Cardinality(used) \in Nat /\ Cardinality(used') \in Nat /\ Cardinality(used) <= Cardinality(used')
         /\ \A s, p, from, to : /\ UsedIn(s, p, from, to) \in Nat /\ UsedIn(s, p, from, to)' \in Nat
                                /\ UsedIn(s, p, from, to) <= UsedIn(s, p, from, to)'
         /\ \A s, from, to : \A units \in 0..Cardinality(used) :
              UsedBy(units, s, from, to)' = UsedBy(units, s, from, to)
<1>1. Counting'
  BY CountingKept
<1>2. IsFiniteSet(used) /\ IsFiniteSet(used')
  BY <1>1 DEF Counting
<1>3. Cardinality(used) \in Nat /\ Cardinality(used') \in Nat
  BY <1>2, FS_CardinalityType
<1>4. used \in SUBSET used' /\ \A u \in used' : u \in used \/ u.n = Cardinality(used) + 1
  <2>1. ASSUME NEW s \in Scopes, NEW p \in Products, Use(s, p)
        PROVE  used \in SUBSET used' /\ \A u \in used' : u \in used \/ u.n = Cardinality(used) + 1
    BY <2>1 DEF Use
  <2>2. used' = used \/ \E s \in Scopes, p \in Products : Use(s, p)
    BY DEF Next, Midnight, Begin, Collect, FetchAccounts, FetchTodayStats, ResolveUser, FetchUsage,
       FetchQuota, FetchWeek, WeekFails, Finish, Fails, Failed, Returned, vars
  <2>3. QED
    BY <2>1, <2>2
<1>5. Cardinality(used) <= Cardinality(used')
  BY <1>2, <1>4, FS_Subset
<1>6. ASSUME NEW s, NEW p, NEW from, NEW to
      PROVE  /\ UsedIn(s, p, from, to) \in Nat /\ UsedIn(s, p, from, to)' \in Nat
             /\ UsedIn(s, p, from, to) <= UsedIn(s, p, from, to)'
  <2> DEFINE A == {u \in used : u.scope = s /\ u.product = p /\ u.day \in from..to}
             B == {u \in used' : u.scope = s /\ u.product = p /\ u.day \in from..to}
  <2>1. A \in SUBSET B /\ B \in SUBSET used'
    BY <1>4
  <2>2. UsedIn(s, p, from, to) = Cardinality(A) /\ UsedIn(s, p, from, to)' = Cardinality(B)
    BY DEF UsedIn
  <2> HIDE DEF A, B
  <2>3. IsFiniteSet(B) /\ IsFiniteSet(A) /\ Cardinality(A) <= Cardinality(B)
    BY <1>2, <2>1, FS_Subset
  <2>4. QED
    BY <2>2, <2>3, FS_CardinalityType
<1>7. ASSUME NEW s, NEW from, NEW to, NEW units \in 0..Cardinality(used)
      PROVE  UsedBy(units, s, from, to)' = UsedBy(units, s, from, to)
  <2>1. \A u \in used' : u.n <= units => u \in used
    BY <1>3, <1>4
  <2>2. {u \in used' : u.n <= units /\ u.scope = s /\ u.product = "codex" /\ u.day \in from..to}
          = {u \in used : u.n <= units /\ u.scope = s /\ u.product = "codex" /\ u.day \in from..to}
    BY <1>4, <2>1
  <2>3. QED
    BY <2>2 DEF UsedBy
<1>8. QED
  BY <1>3, <1>5, <1>6, <1>7

\* A day's figure of a scope, and a week's.
AtMost(s, v, t) == v <= UsedIn(s, "codex", t, t)

Between(s, v, units, t) ==
  UsedBy(units, s, WeekStart(t), t) <= v /\ v <= UsedIn(s, "codex", WeekStart(t), t)

LEMMA AmountsStay ==
  ASSUME Counting, [Next]_vars
  PROVE  /\ \A s, t : \A v \in Nat : AtMost(s, v, t) => AtMost(s, v, t)'
         /\ \A s, t : \A v \in Nat, units \in 0..Cardinality(used) :
              Between(s, v, units, t) => Between(s, v, units, t)'
<1>1. ASSUME NEW s, NEW t, NEW v \in Nat, AtMost(s, v, t)
      PROVE  AtMost(s, v, t)'
  <2>1. v <= UsedIn(s, "codex", t, t)'
    BY <1>1, UseGrows DEF AtMost
  <2>2. QED
    BY <2>1 DEF AtMost
<1>2. ASSUME NEW s, NEW t, NEW v \in Nat, NEW units \in 0..Cardinality(used), Between(s, v, units, t)
      PROVE  Between(s, v, units, t)'
  <2>1. v <= UsedIn(s, "codex", WeekStart(t), t)'
    BY <1>2, UseGrows DEF Between
  <2>2. UsedBy(units, s, WeekStart(t), t)' = UsedBy(units, s, WeekStart(t), t)
    BY UseGrows
  <2>3. QED
    BY <1>2, <2>1, <2>2 DEF Between
<1>3. QED
  BY <1>1, <1>2

\* The codex usage fetched of a user.
Codex(u) == u.usage["codex"]

Known(n) == n < Len(users) \/ step \in {"quota", "resolve", "week"}

\* A week's figure is no less than the day's of the same scope.
Covers(s, v) ==
  /\ \A n \in DOMAIN users : users[n].id = s => Codex(users[n]) <= v
  /\ s \in DOMAIN stats /\ began.read = today => stats[s] <= v

\* What was fetched is what the upstream had at some moment of the collect.
Amounted ==
  /\ \A s \in DOMAIN stats : began.read = today => AtMost(s, stats[s], today)
  /\ \A n \in DOMAIN users : Known(n) => AtMost(users[n].id, Codex(users[n]), today)
  /\ \A n \in DOMAIN items : items[n].value # Missing =>
       /\ Between(items[n].scope, items[n].value, began.units, today)
       /\ Covers(items[n].scope, items[n].value)

LEMMA FiguresAreNumbers ==
  ASSUME Counting, Accounted, Resolved, AskedWeeks
  PROVE  /\ \A s \in DOMAIN stats : stats[s] \in Nat
         /\ \A n \in DOMAIN users : Known(n) => Codex(users[n]) \in Nat
         /\ \A n \in DOMAIN items : items[n].value # Missing => items[n].value \in Nat
<1>1. \A v \in 0..MaxUse : v \in Nat
  BY BoundAssumption
<1>2. \A s \in DOMAIN stats : stats[s] \in Nat
  BY <1>1 DEF Accounted
<1>3. ASSUME NEW n \in DOMAIN users, Known(n)
      PROVE  Codex(users[n]) \in Nat
  <2>1. IsSequence(users) /\ Len(users) \in Nat /\ DOMAIN users = 1..Len(users)
    BY ListElements DEF Resolved
  <2>2. users[n].usage \in [Products -> 0..MaxUse]
    <3>1. CASE n < Len(users) \/ step \in {"resolve", "week"}
      BY <3>1 DEF Resolved, Full
    <3>2. CASE ~(n < Len(users)) /\ step = "quota"
      <4>1. n = Len(users)
        BY <2>1, <3>2
      <4>2. QED
        BY <3>2, <4>1 DEF Resolved
    <3>3. QED
      BY <1>3, <3>1, <3>2 DEF Known
  <2>3. QED
    BY <1>1, <2>2 DEF Codex, Products
<1>4. \A n \in DOMAIN items : items[n].value # Missing => items[n].value \in Nat
  BY <1>1 DEF AskedWeeks
<1>5. QED
  BY <1>2, <1>3, <1>4

LEMMA AmountedKept ==
  Counting /\ Accounted /\ Resolved /\ AskedWeeks /\ Amounted /\ [Next]_vars => Amounted'
<1> SUFFICES ASSUME Counting, Accounted, Resolved, AskedWeeks, Amounted, [Next]_vars
             PROVE  Amounted'
  OBVIOUS
<1>1. /\ \A s \in DOMAIN stats : stats[s] \in Nat
      /\ \A n \in DOMAIN users : Known(n) => Codex(users[n]) \in Nat
      /\ \A n \in DOMAIN items : items[n].value # Missing => items[n].value \in Nat
  BY FiguresAreNumbers
<1>2. /\ \A s, t : \A v \in Nat : AtMost(s, v, t) => AtMost(s, v, t)'
      /\ \A s, t : \A v \in Nat, units \in 0..Cardinality(used) :
           Between(s, v, units, t) => Between(s, v, units, t)'
      /\ began.units \in 0..Cardinality(used)
  BY AmountsStay DEF Counting
<1>3. IsSequence(users) /\ Len(users) \in Nat /\ DOMAIN users = 1..Len(users)
  BY ListElements DEF Resolved
<1>4. CASE UNCHANGED collectVars
  BY <1>1, <1>2, <1>4 DEF Amounted, Known, Covers, Codex, collectVars
<1>5. ASSUME stats' = <<>>, users' = <<>>, items' = <<>>
      PROVE  Amounted'
  BY <1>5 DEF Amounted
<1>6. CASE Begin \/ FetchAccounts
  <2>1. stats' = <<>> /\ users' = <<>> /\ items' = <<>>
    BY <1>6 DEF Begin, FetchAccounts, Accounted, Resolved, AskedWeeks
  <2>2. QED
    BY <1>5, <2>1
<1>7. CASE Fails \/ Finish
  <2>1. stats' = <<>> /\ users' = <<>> /\ items' = <<>>
    BY <1>7 DEF Fails, Failed, Finish, Returned
  <2>2. QED
    BY <1>5, <2>1
<1>8. CASE FetchTodayStats
  <2>1. users' = <<>> /\ items' = <<>>
    BY <1>8 DEF FetchTodayStats, Resolved, AskedWeeks
  <2>2. ASSUME NEW s \in DOMAIN stats', began'.read = today'
        PROVE  AtMost(s, stats[s], today)'
    <3>1. stats'[s] = UsedIn(s, "codex", day, day) /\ used' = used
      BY <1>8 DEF FetchTodayStats
    <3>2. began'.read = day
      <4>1. began = [units |-> began.units, read |-> began.read] /\ began' = [began EXCEPT !.read = day]
        BY <1>8 DEF FetchTodayStats, Counting
      <4> DEFINE b == began
      <4> HIDE DEF b
      <4>2. PICK x, y : b = [units |-> x, read |-> y]
        BY <4>1, Zenon DEF b
      <4>3. [b EXCEPT !.read = day].read = day
        BY <4>2
      <4>4. QED
        BY <4>1, <4>3 DEF b
    <3>3. today' = day
      BY <2>2, <3>2
    <3>5. UsedIn(s, "codex", today, today)' = UsedIn(s, "codex", day, day)
      BY <3>1, <3>3 DEF UsedIn
    <3>6. UsedIn(s, "codex", day, day) \in Nat
      BY UseGrows
    <3>7. stats'[s] <= UsedIn(s, "codex", today, today)'
      BY <3>1, <3>5, <3>6
    <3>8. QED
      BY <3>7 DEF AtMost
  <2>3. QED
    BY <2>1, <2>2 DEF Amounted
<1>9. ASSUME items = <<>>, items' = <<>>, stats' = stats, began' = began, today' = today,
             \A n \in DOMAIN users' : Known(n)' => AtMost(users[n].id, Codex(users[n]), today)'
      PROVE  Amounted'
  BY <1>1, <1>2, <1>9 DEF Amounted
<1>10. CASE ResolveUser
  <2> DEFINE l == Len(users)
  <2>1. items = <<>> /\ items' = <<>> /\ stats' = stats /\ began' = began /\ today' = today
        /\ step = "resolve" /\ step' = "usage"
    BY <1>10 DEF ResolveUser, AskedWeeks
  <2>2. \E x : users' = Append(users, x)
    BY <1>10 DEF ResolveUser
  <2>3. /\ Len(users') = l + 1 /\ DOMAIN users' = 1..(l + 1)
        /\ \A n \in 1..l : users'[n] = users[n]
    BY <1>3, <2>2, AppendToList
  <2>4. ASSUME NEW n \in DOMAIN users', Known(n)'
        PROVE  AtMost(users[n].id, Codex(users[n]), today)'
    <3>1. n < l + 1
      BY <2>1, <2>3, <2>4 DEF Known
    <3>2. n \in 1..l /\ Known(n)
      BY <1>3, <2>1, <2>3, <3>1 DEF Known
    <3>3. AtMost(users[n].id, Codex(users[n]), today) /\ Codex(users[n]) \in Nat
      BY <1>1, <1>3, <3>2 DEF Amounted
    <3>4. users'[n] = users[n]
      BY <2>3, <3>2
    <3>5. QED
      BY <1>2, <2>1, <3>3, <3>4 DEF Codex
  <2>5. QED
    BY <1>9, <2>1, <2>4
<1>11. ASSUME users # <<>>, NEW x, users' = [users EXCEPT ![Len(users)] = x], step \in {"usage", "quota"},
              x.id = users[Len(users)].id, AtMost(x.id, Codex(x), today)', UNCHANGED <<stats, began, today, items>>
       PROVE  Amounted'
  <2> DEFINE l == Len(users)
  <2>1. items = <<>> /\ items' = <<>> /\ stats' = stats /\ began' = began /\ today' = today
    BY <1>11 DEF AskedWeeks
  <2>2. /\ DOMAIN users' = DOMAIN users /\ users'[l] = x
        /\ \A n \in DOMAIN users : n # l => users'[n] = users[n]
    BY <1>3, <1>11, LastReplaced
  <2>3. ASSUME NEW n \in DOMAIN users', Known(n)'
        PROVE  AtMost(users[n].id, Codex(users[n]), today)'
    <3>1. CASE n = l
      BY <1>11, <2>2, <3>1
    <3>2. CASE n # l
      <4>1. n \in DOMAIN users /\ Known(n) /\ users'[n] = users[n]
        BY <1>3, <2>2, <3>2 DEF Known
      <4>2. AtMost(users[n].id, Codex(users[n]), today) /\ Codex(users[n]) \in Nat
        BY <1>1, <4>1 DEF Amounted
      <4>3. QED
        BY <1>2, <2>1, <4>1, <4>2 DEF Codex
    <3>3. QED
      BY <3>1, <3>2
  <2>4. QED
    BY <1>9, <2>1, <2>3
<1>12. CASE FetchUsage
  <2> DEFINE l == Len(users)
             id == users[l].id
  <2>0. PICK x : x = [id |-> id, usage |-> [p \in Products |-> UserUsage(id, p)]]
    OBVIOUS
  <2>1. users # <<>> /\ step = "usage" /\ users' = [users EXCEPT ![l] = x]
        /\ UNCHANGED <<used, stats, began, today, items>>
    BY <1>12, <2>0 DEF FetchUsage, Resolved
  <2>2. x.id = id /\ Codex(x) = UsedIn(id, "codex", today, today)
    BY <2>0 DEF Codex, Products, UserUsage
  <2>3. AtMost(x.id, Codex(x), today)'
    <3>1. UsedIn(id, "codex", today, today) \in Nat
      BY UseGrows
    <3>2. AtMost(x.id, Codex(x), today) /\ Codex(x) \in Nat
      BY <2>2, <3>1 DEF AtMost
    <3>3. QED
      BY <1>2, <2>1, <3>2 DEF Codex
  <2>4. QED
    BY <1>11, <2>1, <2>2, <2>3
<1>13. CASE FetchQuota
  <2> DEFINE l == Len(users)
             u == users[l]
  <2>0. PICK x : x = [id |-> u.id, usage |-> u.usage, quota |-> UserQuota]
    OBVIOUS
  <2>1. users # <<>> /\ step = "quota" /\ users' = [users EXCEPT ![l] = x]
        /\ UNCHANGED <<used, stats, began, today, items>>
    BY <1>13, <2>0 DEF FetchQuota, Resolved
  <2>2. x.id = u.id /\ Codex(x) = Codex(u)
    BY <2>0 DEF Codex
  <2>3. l \in DOMAIN users /\ Known(l)
    BY <1>3, <2>1 DEF Known
  <2>4. AtMost(u.id, Codex(u), today) /\ Codex(u) \in Nat
    BY <1>1, <2>3 DEF Amounted
  <2>5. AtMost(x.id, Codex(x), today)'
    BY <1>2, <2>1, <2>2, <2>4 DEF Codex
  <2>6. QED
    BY <1>11, <2>1, <2>2, <2>5
<1>14. ASSUME step = "week", NEW v \in Nat \cup {Missing}, items' = Append(items, WeekItem(NextWeek, v)),
              v # Missing => Between(NextWeek, v, began.units, today) /\ Covers(NextWeek, v),
              UNCHANGED <<used, step, stats, users, began, today>>
       PROVE  Amounted'
  <2> DEFINE l == Len(items)
             i == WeekItem(NextWeek, v)
  <2>1. IsSequence(items) /\ l \in Nat /\ DOMAIN items = 1..l
    BY ListElements DEF AskedWeeks
  <2>2. i.scope = NextWeek /\ i.value = v
    BY DEF WeekItem
  <2>3. /\ DOMAIN items' = 1..(l + 1)
        /\ (\A n \in 1..l : items'[n] = items[n]) /\ items'[l + 1] = i
    BY <1>14, <2>1, AppendToList
  <2> HIDE DEF i
  <2>4. \A s, w : Covers(s, w)' <=> Covers(s, w)
    BY <1>14 DEF Covers
  <2>5. ASSUME NEW n \in DOMAIN items', items'[n].value # Missing
        PROVE  Between(items[n].scope, items[n].value, began.units, today)' /\ Covers(items[n].scope, items[n].value)'
    <3>1. CASE n = l + 1
      <4>1. items'[n].scope = NextWeek /\ items'[n].value = v /\ v # Missing /\ v \in Nat
        BY <2>2, <2>3, <2>5, <3>1
      <4>2. Between(NextWeek, v, began.units, today) /\ Covers(NextWeek, v)
        BY <1>14, <4>1
      <4> DEFINE s == NextWeek
      <4>3. s = NextWeek
        OBVIOUS
      <4> HIDE DEF s
      <4>4. Between(s, v, began.units, today) /\ Covers(s, v) /\ items'[n].scope = s
        BY <4>1, <4>2, <4>3
      <4>5. QED
        BY <1>2, <1>14, <2>4, <4>1, <4>4
    <3>2. CASE n # l + 1
      <4>1. n \in 1..l /\ items'[n] = items[n] /\ items[n].value # Missing
        BY <2>1, <2>3, <2>5, <3>2
      <4>2. Between(items[n].scope, items[n].value, began.units, today) /\ Covers(items[n].scope, items[n].value)
            /\ items[n].value \in Nat
        BY <1>1, <2>1, <4>1 DEF Amounted
      <4>3. QED
        BY <1>2, <1>14, <2>4, <4>1, <4>2
    <3>3. QED
      BY <3>1, <3>2
  <2>6. \A s \in DOMAIN stats' : began'.read = today' => AtMost(s, stats[s], today)'
    BY <1>1, <1>2, <1>14 DEF Amounted
  <2>7. \A n \in DOMAIN users' : Known(n)' => AtMost(users[n].id, Codex(users[n]), today)'
    BY <1>1, <1>2, <1>14 DEF Amounted, Known, Codex
  <2>8. QED
    BY <2>5, <2>6, <2>7 DEF Amounted
<1>15. CASE WeekFails
  BY <1>14, <1>15 DEF WeekFails
<1>16. CASE FetchWeek
  <2> DEFINE s == NextWeek
             v == UsedIn(s, "codex", WeekStart(today), today)
  <2>1. step = "week" /\ items' = Append(items, WeekItem(s, v)) /\ UNCHANGED <<used, step, stats, users, began, today>>
    BY <1>16 DEF FetchWeek
  <2>2. today \in Int
    BY BoundAssumption DEF Counting
  <2> DEFINE t == today
             units == began.units
  <2>3. t \in Int
    BY <2>2
  <2> HIDE DEF s, t, units
  <2>4. /\ UsedBy(units, s, WeekStart(t), t) \in Nat /\ UsedIn(s, "codex", WeekStart(t), t) \in Nat
        /\ UsedIn(s, "codex", t, t) \in Nat
        /\ UsedBy(units, s, WeekStart(t), t) <= UsedIn(s, "codex", WeekStart(t), t)
        /\ UsedIn(s, "codex", t, t) <= UsedIn(s, "codex", WeekStart(t), t)
    BY <2>3, UseIncludes
  <2>5. v = UsedIn(s, "codex", WeekStart(t), t)
    BY DEF t
  <2> HIDE DEF v
  <2>6. Between(s, v, units, t) /\ v \in Nat
    BY <2>4, <2>5 DEF Between
  <2>7. ASSUME NEW w \in Nat, AtMost(s, w, t)
        PROVE  w <= v
    <3>1. w <= UsedIn(s, "codex", t, t)
      BY <2>7 DEF AtMost
    <3>2. QED
      BY <2>4, <2>5, <3>1
  <2>8. ASSUME NEW n \in DOMAIN users, users[n].id = s
        PROVE  Codex(users[n]) <= v
    <3>1. Known(n)
      BY <2>1 DEF Known
    <3>2. Codex(users[n]) \in Nat /\ AtMost(s, Codex(users[n]), t)
      BY <1>1, <2>8, <3>1 DEF Amounted, t
    <3>3. QED
      BY <2>7, <3>2
  <2>9. ASSUME s \in DOMAIN stats, began.read = today
        PROVE  stats[s] <= v
    <3>1. stats[s] \in Nat /\ AtMost(s, stats[s], t)
      BY <1>1, <2>9 DEF Amounted, t
    <3>2. QED
      BY <2>7, <3>1
  <2>10. Covers(s, v)
    BY <2>8, <2>9 DEF Covers
  <2>11. QED
    BY <1>14, <2>1, <2>6, <2>10 DEF s, t, units
<1>17. QED
  BY <1>4, <1>6, <1>7, <1>8, <1>10, <1>12, <1>13, <1>15, <1>16
     DEF Next, Use, Midnight, Collect, collectVars, vars

\* The items of codex usage, by day or by week.
CodexOf(list, category) == {i \in Range(list) : i.category = category /\ i.product = "codex"}

\* What is served of a collect that started on day t with some units counted and read the
\* accounts' usage on day read.
Amounts(list, units, read, t) ==
  /\ \A i \in CodexOf(list, "token_usage_product") : read = t => AtMost(i.scope, i.value, t)
  /\ \A j \in CodexOf(list, "token_usage_product_week") : j.value # Missing =>
       /\ Between(j.scope, j.value, units, t)
       /\ \A i \in CodexOf(list, "token_usage_product") : read = t /\ i.scope = j.scope => i.value <= j.value

LEMMA FinishAmounts ==
  ASSUME AtEnd, Amounted
  PROVE  Amounts(Fetched(Made), began.units, began.read, today)
<1> DEFINE list == Fetched(Made)
<1>1. \A i \in Range(list) : \E x : MadeItem(x) /\ Alike(i, x)
  <2> TAKE i \in Range(list)
  <2>1. PICK n \in DOMAIN Made : i = FetchedAt(Made[n], day)
    BY DEF Fetched, Range
  <2>2. MadeItem(Made[n])
    BY MadeElements DEF Range
  <2>3. QED
    BY <2>1, <2>2, ServedAsMade
<1>2. step = "week" /\ AskedWeeks
  BY DEF AtEnd, CollectInv
<1> HIDE DEF list
<1>3. ASSUME NEW i \in CodexOf(list, "token_usage_product")
      PROVE  \/ \E n \in DOMAIN users : i.scope = users[n].id /\ i.value = Codex(users[n])
             \/ \E s \in DOMAIN stats : i.scope = s /\ i.value = stats[s]
  <2>1. PICK x : MadeItem(x) /\ Alike(i, x)
    BY <1>1 DEF CodexOf
  <2>2. x.category = "token_usage_product" /\ x.product = "codex" /\ i.scope = x.scope /\ i.value = x.value
    BY <2>1 DEF Alike, CodexOf
  <2>3. \/ \E n \in DOMAIN users, p \in Products : x = DayItem(p, users[n].id, users[n].usage[p])
        \/ \E s \in DOMAIN stats : x = DayItem("codex", s, stats[s])
    BY <2>1, <2>2 DEF MadeItem, TotalItem, UserTotal, ProductQuota, QuotaItem, WeekItem
  <2>4. ASSUME NEW n \in DOMAIN users, NEW p \in Products, x = DayItem(p, users[n].id, users[n].usage[p])
        PROVE  i.scope = users[n].id /\ i.value = Codex(users[n])
    BY <2>2, <2>4 DEF DayItem, Codex
  <2>5. ASSUME NEW s \in DOMAIN stats, x = DayItem("codex", s, stats[s])
        PROVE  i.scope = s /\ i.value = stats[s]
    BY <2>2, <2>5 DEF DayItem
  <2>6. QED
    BY <2>3, <2>4, <2>5
<1>4. ASSUME NEW j \in CodexOf(list, "token_usage_product_week")
      PROVE  \E n \in DOMAIN items : j.scope = items[n].scope /\ j.value = items[n].value
  <2>1. PICK x : MadeItem(x) /\ Alike(j, x)
    BY <1>1 DEF CodexOf
  <2>2. x.category = "token_usage_product_week" /\ j.scope = x.scope /\ j.value = x.value
    BY <2>1 DEF Alike, CodexOf
  <2>3. PICK n \in DOMAIN items : x = WeekItem(WeekScopes[n], items[n].value)
    BY <2>1, <2>2 DEF MadeItem, TotalItem, UserTotal, ProductQuota, QuotaItem, DayItem
  <2>4. x = items[n]
    BY <1>2, <2>3 DEF AskedWeeks
  <2>5. QED
    BY <2>2, <2>4
<1>5. ASSUME NEW i \in CodexOf(list, "token_usage_product"), began.read = today
      PROVE  /\ AtMost(i.scope, i.value, today)
             /\ \A v : Covers(i.scope, v) => i.value <= v
  <2>1. ASSUME NEW n \in DOMAIN users, i.scope = users[n].id, i.value = Codex(users[n])
        PROVE  AtMost(i.scope, i.value, today) /\ \A v : Covers(i.scope, v) => i.value <= v
    BY <1>2, <2>1 DEF Amounted, Known, Covers
  <2>2. ASSUME NEW s \in DOMAIN stats, i.scope = s, i.value = stats[s]
        PROVE  AtMost(i.scope, i.value, today) /\ \A v : Covers(i.scope, v) => i.value <= v
    BY <1>5, <2>2 DEF Amounted, Covers
  <2>3. QED
    BY <1>3, <2>1, <2>2
<1>6. ASSUME NEW j \in CodexOf(list, "token_usage_product_week"), j.value # Missing
      PROVE  Between(j.scope, j.value, began.units, today) /\ Covers(j.scope, j.value)
  <2>1. PICK n \in DOMAIN items : j.scope = items[n].scope /\ j.value = items[n].value
    BY <1>4
  <2>2. QED
    BY <1>6, <2>1 DEF Amounted
<1>7. QED
  BY <1>5, <1>6 DEF Amounts, list

\* The figures served stay true while usage is added.
LEMMA AmountsKept ==
  ASSUME Counting, [Next]_vars, NEW list, NEW t, ServedBy(list, t),
         NEW units \in 0..Cardinality(used), NEW read, Amounts(list, units, read, t)
  PROVE  Amounts(list, units, read, t)'
<1>1. \A i \in Range(list) : IsAnswer(i, t, WantedOf(list))
  BY DEF ServedBy
<1>2. ASSUME NEW i \in CodexOf(list, "token_usage_product")
      PROVE  i.value \in Nat
  <2>1. i.category = "token_usage_product" /\ IsAnswer(i, t, WantedOf(list))
    BY <1>1 DEF CodexOf
  <2>2. QED
    BY <2>1 DEF IsAnswer
<1>3. ASSUME NEW i \in CodexOf(list, "token_usage_product_week"), i.value # Missing
      PROVE  i.value \in Nat
  <2>1. i.category = "token_usage_product_week" /\ IsAnswer(i, t, WantedOf(list))
    BY <1>1 DEF CodexOf
  <2>2. QED
    BY <1>3, <2>1 DEF IsAnswer
<1>4. QED
  BY <1>2, <1>3, AmountsStay DEF Amounts, CodexOf

AmountsServed ==
  /\ snapshot.began.units \in 0..Cardinality(used)
  /\ snapshot.items # <<>> =>
       Amounts(snapshot.items, snapshot.began.units, snapshot.began.read, snapshot.today)

LEMMA AmountsServedKept ==
  CollectInv /\ Amounted /\ Serving /\ AmountsServed /\ [Next]_vars => AmountsServed'
<1> SUFFICES ASSUME CollectInv, Amounted, Serving, AmountsServed, [Next]_vars
             PROVE  AmountsServed'
  OBVIOUS
<1>1. Counting
  BY DEF CollectInv
<1>2. Cardinality(used) \in Nat /\ Cardinality(used') \in Nat /\ Cardinality(used) <= Cardinality(used')
  BY <1>1, UseGrows
<1>3. ASSUME NEW list, NEW units \in 0..Cardinality(used), NEW read, NEW t,
             list # <<>> => ServedBy(list, t) /\ Amounts(list, units, read, t),
             snapshot'.items = list, snapshot'.began.units = units, snapshot'.began.read = read, snapshot'.today = t
      PROVE  AmountsServed'
  <2>1. list # <<>> => Amounts(list, units, read, t)'
    BY <1>1, <1>3, AmountsKept
  <2>2. units \in 0..Cardinality(used')
    BY <1>2
  <2>3. QED
    BY <1>3, <2>1, <2>2 DEF AmountsServed
<1>4. ASSUME snapshot'.items = snapshot.items, snapshot'.began = snapshot.began, snapshot'.today = snapshot.today
      PROVE  AmountsServed'
  <2>1. PICK list, units, read, t : /\ list = snapshot.items /\ units = snapshot.began.units
                                    /\ read = snapshot.began.read /\ t = snapshot.today
    OBVIOUS
  <2>2. units \in 0..Cardinality(used) /\ (list # <<>> => ServedBy(list, t) /\ Amounts(list, units, read, t))
    BY <2>1 DEF AmountsServed, Serving
  <2>3. QED
    BY <1>3, <1>4, <2>1, <2>2
<1>5. CASE UNCHANGED snapshot
  BY <1>4, <1>5
<1>6. CASE Failed
  BY <1>4, <1>6, FailedSnapshot
<1>7. CASE Finish
  <2>1. AtEnd
    BY <1>7 DEF AtEnd, Finish
  <2>2. PICK list, units, read, t : /\ list = Fetched(Made) /\ units = began.units
                                    /\ read = began.read /\ t = today
    OBVIOUS
  <2>3. ServedBy(list, t) /\ Amounts(list, units, read, t)
    BY <2>1, <2>2, FinishServes, FinishAmounts
  <2>4. units \in 0..Cardinality(used)
    BY <1>1, <2>2 DEF Counting
  <2>5. snapshot'.items = list /\ snapshot'.began = began /\ snapshot'.today = t
    <3> DEFINE r == [status |-> "ok", fetched |-> day, items |-> Fetched(Made),
                     began |-> began, today |-> today, round |-> round]
    <3>1. snapshot' = r
      BY <1>7 DEF Finish, Made
    <3>2. r.items = Fetched(Made) /\ r.began = began /\ r.today = today
      OBVIOUS
    <3> HIDE DEF r
    <3>3. QED
      BY <2>2, <3>1, <3>2
  <2>6. QED
    BY <1>3, <2>2, <2>3, <2>4, <2>5
<1>8. QED
  BY <1>5, <1>6, <1>7 DEF Next, Use, Midnight, Begin, Collect, FetchAccounts, FetchTodayStats, ResolveUser,
     FetchUsage, FetchQuota, FetchWeek, WeekFails, Fails, vars

\* The inductive invariant of the figures.
FiguresInv == ServedInv /\ Amounted /\ AmountsServed

LEMMA AlwaysCounted == Spec => []FiguresInv
<1>1. Init => FiguresInv
  <2> SUFFICES ASSUME Init
               PROVE  FiguresInv
    OBVIOUS
  <2>1. ServedInv
    BY CollectInit, ServingInit DEF ServedInv
  <2>2. Amounted
    BY DEF Init, Amounted
  <2>3. AmountsServed
    <3>1. Cardinality(used) = 0
      BY FS_EmptySet DEF Init
    <3>2. snapshot.began.units = 0 /\ snapshot.items = <<>>
      BY DEF Init, NotBegun
    <3>3. QED
      BY <3>1, <3>2 DEF AmountsServed
  <2>4. QED
    BY <2>1, <2>2, <2>3 DEF FiguresInv
<1>2. FiguresInv /\ [Next]_vars => FiguresInv'
  <2> SUFFICES ASSUME FiguresInv, [Next]_vars
               PROVE  FiguresInv'
    OBVIOUS
  <2>1. CollectInv /\ Serving /\ Amounted /\ AmountsServed
    BY DEF FiguresInv, ServedInv
  <2>2. ServedInv'
    BY <2>1, CollectKept, ServingKept DEF ServedInv
  <2>3. Amounted'
    BY <2>1, AmountedKept DEF CollectInv
  <2>4. AmountsServed'
    BY <2>1, AmountsServedKept
  <2>5. QED
    BY <2>2, <2>3, <2>4 DEF FiguresInv
<1>3. QED
  BY <1>1, <1>2, PTL DEF Spec

---------------------------------------------------------------------------
(* Usage figures.                                                          *)

\* The codex usage of some scopes among the first units counted.
CodexBy(units, scopes, days) ==
  {u \in used : u.n <= units /\ u.scope \in scopes /\ u.product = "codex" /\ u.day \in days}

\* Every unit is counted: without a bound it is what the upstream answers with.
LEMMA AllUnits ==
  ASSUME Counting, NEW s, NEW from, NEW to
  PROVE  UsedIn(s, "codex", from, to) = UsedBy(MaxUse, s, from, to)
<1>1. \A u \in used : u.n <= MaxUse
  BY BoundAssumption DEF Counting, Unit
<1>2. {u \in used : u.scope = s /\ u.product = "codex" /\ u.day \in from..to} =
        {u \in used : u.n <= MaxUse /\ u.scope = s /\ u.product = "codex" /\ u.day \in from..to}
  BY <1>1
<1>3. QED
  BY <1>2 DEF UsedIn, UsedBy

\* Items of different scopes count different units: what their scopes used adds up.
LEMMA UseOfScopes ==
  ASSUME Counting, NEW list, NEW T, IsFiniteSet(T), \A n, m \in T : list[n].scope = list[m].scope => n = m,
         NEW units, NEW from, NEW to, NEW w, \A n \in T : w[n] = UsedBy(units, list[n].scope, from, to)
  PROVE  SumFunctionOnSet(w, T) = Cardinality(CodexBy(units, {list[n].scope : n \in T}, from..to))
<1> DEFINE part(n) == {u \in used : /\ u.n <= units /\ u.scope = list[n].scope
                                    /\ u.product = "codex" /\ u.day \in from..to}
           p == [n \in T |-> part(n)]
           days == from..to
<1>1. IsFiniteSet(used)
  BY DEF Counting
<1>2. /\ \A n \in T : p[n] \in SUBSET used
      /\ \A n \in T : w[n] = Cardinality(p[n])
      /\ \A n, m \in T : n # m => p[n] \cap p[m] = {}
  BY DEF UsedBy
<1>3. UNION {p[n] : n \in T} = CodexBy(units, {list[n].scope : n \in T}, days)
  <2> HIDE DEF days
  <2>1. QED
    BY DEF CodexBy, days
<1> HIDE DEF p
<1>4. SumFunctionOnSet(w, T) = Cardinality(UNION {p[n] : n \in T})
  BY <1>1, <1>2, PartsCounted
<1>5. QED
  BY <1>3, <1>4

\* Of the items of a scope one will do.
LEMMA OnePerScope ==
  ASSUME NEW list, NEW T
  PROVE  \E S \in SUBSET T : /\ \A n, m \in S : list[n].scope = list[m].scope => n = m
                             /\ {list[n].scope : n \in S} = {list[n].scope : n \in T}
<1> DEFINE one(s) == CHOOSE m \in T : list[m].scope = s
           S == {one(s) : s \in {list[n].scope : n \in T}}
<1>1. \A s \in {list[n].scope : n \in T} : one(s) \in T /\ list[one(s)].scope = s
  OBVIOUS
<1> HIDE DEF one
<1>2. S \in SUBSET T
  BY <1>1
<1>3. \A n, m \in S : list[n].scope = list[m].scope => n = m
  BY <1>1
<1>4. {list[n].scope : n \in S} = {list[n].scope : n \in T}
  BY <1>1
<1>5. QED
  BY <1>2, <1>3, <1>4

\* The scopes the properties speak of are those of the items served.
LEMMA WantedServed == Wanted = WantedOf(snapshot.items)
<1>1. {i.scope : i \in Served("token_usage_user")}
        = {i.scope : i \in {j \in Range(snapshot.items) : j.category = "token_usage_user"}}
  BY DEF Served, Range
<1>2. QED
  BY <1>1 DEF Wanted, WantedOf, Counted, Chosen

LEMMA CodexUsedBy ==
  ASSUME NEW units, NEW days
  PROVE  CodexUsed(units, days) = Cardinality(CodexBy(units, WantedOf(snapshot.items), days))
<1>1. {u \in used : /\ u.n <= units /\ u.day \in days /\ u.scope \in Wanted /\ u.product = "codex"}
        = CodexBy(units, WantedOf(snapshot.items), days)
  BY WantedServed DEF CodexBy
<1>2. QED
  BY <1>1 DEF CodexUsed

\* What is served of codex usage: by day what is dated t, by week what is dated its week.
DayItems(list)  == Of(list, "token_usage_product")
WeekItems(list) == Of(list, "token_usage_product_week")

LEMMA CodexServed ==
  ASSUME NEW list, NEW t, ServedBy(list, t)
  PROVE  /\ list \in Seq(Range(list))
         /\ OfItems(list, "token_usage_product", "codex") = DayItems(list)
         /\ OfItems(list, "token_usage_product_week", "codex") = WeekItems(list)
         /\ IsFiniteSet(DayItems(list)) /\ IsFiniteSet(WeekItems(list))
         /\ \A n \in DayItems(list) :
              /\ list[n] \in CodexOf(list, "token_usage_product") /\ list[n].start = t
              /\ list[n].value \in Nat /\ list[n].scope \in WantedOf(list)
         /\ \A n \in WeekItems(list) :
              /\ list[n] \in CodexOf(list, "token_usage_product_week")
              /\ list[n].start = WeekStart(t) /\ list[n].end = t
              /\ list[n].value \in Nat \cup {Missing}
         /\ WantedOf(list) = ScopesOf(list, "token_usage_product_week")
<1>1. /\ IsSequence(list) /\ \A i \in Range(list) : IsAnswer(i, t, WantedOf(list))
      /\ WantedOf(list) = ScopesOf(list, "token_usage_product_week")
  BY DEF ServedBy
<1>2. list \in Seq(Range(list)) /\ \A n \in DOMAIN list : list[n] \in Range(list)
  BY <1>1, ListElements DEF IsSequence
<1>3. ASSUME NEW c
      PROVE  OfItems(list, c, "codex") = Of(list, c) /\ IsFiniteSet(Of(list, c))
  <2>1. OfItems(list, c, "codex") = Of(list, c)
    BY DEF OfItems, Of
  <2>2. IsFiniteSet(OfItems(list, c, "codex"))
    BY <1>2, ItemsOfProduct
  <2>3. QED
    BY <2>1, <2>2
<1>4. ASSUME NEW c, NEW n \in Of(list, c)
      PROVE  list[n] \in CodexOf(list, c) /\ list[n].category = c /\ IsAnswer(list[n], t, WantedOf(list))
  BY <1>1, <1>2 DEF Of, CodexOf
<1>5. ASSUME NEW n \in DayItems(list)
      PROVE  /\ list[n] \in CodexOf(list, "token_usage_product") /\ list[n].start = t
             /\ list[n].value \in Nat /\ list[n].scope \in WantedOf(list)
  <2>1. list[n] \in CodexOf(list, "token_usage_product") /\ list[n].category = "token_usage_product"
        /\ IsAnswer(list[n], t, WantedOf(list))
    BY <1>4 DEF DayItems
  <2>2. QED
    BY <2>1 DEF IsAnswer
<1>6. ASSUME NEW n \in WeekItems(list)
      PROVE  /\ list[n] \in CodexOf(list, "token_usage_product_week")
             /\ list[n].start = WeekStart(t) /\ list[n].end = t
             /\ list[n].value \in Nat \cup {Missing}
  <2>1. list[n] \in CodexOf(list, "token_usage_product_week") /\ list[n].category = "token_usage_product_week"
        /\ IsAnswer(list[n], t, WantedOf(list))
    BY <1>4 DEF WeekItems
  <2>2. QED
    BY <2>1 DEF IsAnswer
<1>7. QED
  BY <1>1, <1>2, <1>3, <1>5, <1>6 DEF DayItems, WeekItems

\* The last item of a product says the day its figure starts on.
LEMMA RangeOfItems ==
  ASSUME NEW S, NEW list \in Seq(S), NEW category, NEW from, NEW default,
         OfItems(list, category, "codex") # {},
         \A n \in OfItems(list, category, "codex") : list[n].start = from
  PROVE  RangeStart(list, category, default) = from
<1> DEFINE T == OfItems(list, category, "codex")
           q == OfProduct(list, category, "codex")
<1>1. q \in Seq(Range(q)) /\ (q = <<>> <=> T = {}) /\ Range(q) = {list[n] : n \in T}
  BY ItemsOfProduct
<1>2. T # {} /\ \A n \in T : list[n].start = from
  OBVIOUS
<1>3. RangeStart(list, category, default) = IF q = <<>> THEN default ELSE q[Len(q)].start
  BY DEF RangeStart
<1> HIDE DEF T, q
<1>4. q # <<>> /\ \A i \in Range(q) : i.start = from
  BY <1>1, <1>2
<1>5. q[Len(q)] \in Range(q)
  BY <1>1, <1>4
<1>6. QED
  BY <1>3, <1>4, <1>5

\* Without items neither figure is known.
LEMMA NothingShown ==
  ASSUME snapshot.items = <<>>
  PROVE  Today = Missing /\ Week = Missing
<1> DEFINE list == snapshot.items
<1>1. list \in Seq({}) /\ DOMAIN list = {}
  OBVIOUS
<1>2. \A c : OfItems(list, c, "codex") = {}
  BY <1>1 DEF OfItems
<1> HIDE DEF list
<1>3. Parsed(OfProduct(list, "token_usage_product", "codex")) = <<>>
  <2>1. OfItems(list, "token_usage_product", "codex") = {}
    BY <1>2
  <2>2. QED
    BY <1>1, <2>1, FigureIsSum
<1>4. OfProduct(list, "token_usage_product_week", "codex") = <<>>
  BY <1>1, <1>2, ItemsOfProduct
<1>5. Today = ProductToday(list, "codex") /\ Week = ProductWeek(list, "codex")
  BY DEF Today, Week, list
<1>6. QED
  BY <1>3, <1>4, <1>5 DEF ProductToday, ProductWeek

\* Today's figure is the sum of the day's items.
LEMMA TodayIsSum ==
  ASSUME NEW t, ServedBy(snapshot.items, t)
  PROVE  LET list == snapshot.items
             T    == DayItems(list)
         IN  Today # Missing =>
               T # {} /\ Today = SumFunctionOnSet([n \in T |-> list[n].value], T)
<1> DEFINE list == snapshot.items
           T == OfItems(list, "token_usage_product", "codex")
           q == OfProduct(list, "token_usage_product", "codex")
<1>1. list \in Seq(Range(list)) /\ T = DayItems(list) /\ \A n \in DayItems(list) : list[n].value \in Nat
  BY CodexServed
<1>2. Today = IF Parsed(q) = <<>> THEN Missing ELSE Total(Parsed(q))
  BY DEF Today, ProductToday
<1>3. /\ (Parsed(q) = <<>> <=> T = {}) /\ Total(Parsed(q)) = Total(q)
      /\ Total(q) = SumFunctionOnSet([n \in T |-> list[n].value], T)
  <2>1. \A n \in T : list[n].value \in Nat
    BY <1>1
  <2>2. QED
    BY <1>1, <2>1, FigureIsSum
<1> HIDE DEF list, q, T
<1>4. QED
  BY <1>1, <1>2, <1>3 DEF list

\* The week's figure, when it is known, is the sum of the week's items, all of them known.
LEMMA WeekIsSum ==
  ASSUME NEW t, ServedBy(snapshot.items, t), Week # Missing
  PROVE  LET list == snapshot.items
             T    == WeekItems(list)
         IN  /\ T # {} /\ Week = SumFunctionOnSet([n \in T |-> list[n].value], T)
             /\ \A n \in T : list[n].value # Missing /\ list[n].value \in Nat
<1> DEFINE list == snapshot.items
           T == OfItems(list, "token_usage_product_week", "codex")
           q == OfProduct(list, "token_usage_product_week", "codex")
<1>1. list \in Seq(Range(list)) /\ T = WeekItems(list)
      /\ \A n \in WeekItems(list) : list[n].value \in Nat \cup {Missing}
  BY CodexServed
<1>2. q # <<>> /\ (\A n \in DOMAIN q : q[n].value # Missing) /\ Week = Total(q)
  BY Zenon DEF Week, ProductWeek
<1>3. (q = <<>> <=> T = {}) /\ Range(q) = {list[n] : n \in T}
  BY <1>1, ItemsOfProduct
<1> HIDE DEF q, T, list
<1>4. \A i \in Range(q) : i.value # Missing
  BY <1>2 DEF Range
<1>5. T # {} /\ \A n \in T : list[n].value # Missing /\ list[n].value \in Nat
  BY <1>1, <1>2, <1>3, <1>4
<1>6. Total(q) = SumFunctionOnSet([n \in T |-> list[n].value], T)
  BY <1>1, <1>5, FigureIsSum DEF T, q
<1>7. QED
  BY <1>1, <1>2, <1>5, <1>6 DEF list

LEMMA WeekServed == FiguresInv => WeekIsTruth
<1> SUFFICES ASSUME FiguresInv, Week # Missing
             PROVE  /\ Week >= CodexUsed(snapshot.began.units, CalendarWeek)
                    /\ Apart => Week <= CodexUsed(MaxUse, CalendarWeek)
                    /\ CalendarWeek = Days \cap (WeeklyRange(snapshot.items, UpdatedAt(snapshot))..snapshot.today)
  BY DEF WeekIsTruth
<1> DEFINE list == snapshot.items
           T == WeekItems(list)
           t == snapshot.today
           units == snapshot.began.units
           days == WeekStart(t)..t
           v == [n \in T |-> list[n].value]
           lo == [n \in T |-> UsedBy(units, list[n].scope, WeekStart(t), t)]
           hi == [n \in T |-> UsedBy(MaxUse, list[n].scope, WeekStart(t), t)]
<1>1. Counting /\ Serving /\ AmountsServed
  BY DEF FiguresInv, ServedInv, CollectInv
<1>2. list # <<>>
  BY NothingShown
<1>3. ServedBy(list, t) /\ Amounts(list, units, snapshot.began.read, t)
  BY <1>1, <1>2 DEF Serving, AmountsServed
<1>4. t \in Int
  BY <1>1, <1>2, BoundAssumption DEF Serving, Days
<1>5. /\ T # {} /\ Week = SumFunctionOnSet(v, T) /\ \A n \in T : list[n].value # Missing /\ list[n].value \in Nat
  BY <1>3, WeekIsSum
<1>6. /\ list \in Seq(Range(list)) /\ OfItems(list, "token_usage_product_week", "codex") = T /\ IsFiniteSet(T)
      /\ \A n \in T : list[n] \in CodexOf(list, "token_usage_product_week") /\ list[n].start = WeekStart(t)
      /\ WantedOf(list) = {list[n].scope : n \in T}
  BY <1>3, CodexServed DEF WeekItems, ScopesOf
<1>7. Apart => \A n, m \in T : list[n].scope = list[m].scope => n = m
  BY <1>3 DEF ServedBy, Once, WeekItems
<1>8. WeeklyRange(list, UpdatedAt(snapshot)) = WeekStart(t)
  <2> DEFINE weeks == OfItems(list, "token_usage_product_week", "codex")
             monday == WeekStart(t)
  <2>1. weeks # {} /\ \A n \in weeks : list[n].start = monday
    BY <1>5, <1>6
  <2>2. list \in Seq(Range(list))
    BY <1>6
  <2> HIDE DEF list, monday
  <2>3. \A default : RangeStart(list, "token_usage_product_week", default) = monday
    BY <2>1, <2>2, RangeOfItems
  <2>4. QED
    BY <2>3 DEF WeeklyRange, monday
<1>9. CalendarWeek = Days \cap days
  BY <1>4, DaysOfWeek DEF CalendarWeek
<1>10. \A n \in T : /\ lo[n] \in Nat /\ hi[n] \in Nat /\ v[n] \in Nat
                     /\ lo[n] <= v[n] /\ v[n] <= hi[n]
  <2> TAKE n \in T
  <2>1. Between(list[n].scope, list[n].value, units, t)
    BY <1>3, <1>5, <1>6 DEF Amounts
  <2>2. /\ UsedBy(units, list[n].scope, WeekStart(t), t) \in Nat
        /\ UsedIn(list[n].scope, "codex", WeekStart(t), t) \in Nat
    BY <1>1, <1>4, UseIncludes
  <2>3. UsedIn(list[n].scope, "codex", WeekStart(t), t) = UsedBy(MaxUse, list[n].scope, WeekStart(t), t)
    BY <1>1, AllUnits
  <2>4. QED
    BY <1>5, <2>1, <2>2, <2>3 DEF Between
<1>11. /\ \A n \in T : lo[n] = UsedBy(units, list[n].scope, WeekStart(t), t)
       /\ \A n \in T : hi[n] = UsedBy(MaxUse, list[n].scope, WeekStart(t), t)
  OBVIOUS
<1>12. \A some : CodexUsed(some, CalendarWeek) = Cardinality(CodexBy(some, WantedOf(list), days))
  <2> TAKE some
  <2>1. \A u \in used : u.day \in Days
    BY <1>1 DEF Counting, Unit
  <2>2. CodexBy(some, WantedOf(list), CalendarWeek) = CodexBy(some, WantedOf(list), days)
    <3> HIDE DEF days, list
    <3>1. QED
      BY <1>9, <2>1 DEF CodexBy
  <2>3. QED
    BY <2>2, CodexUsedBy
<1> HIDE DEF v, lo, hi, T, list
<1>13. SumFunctionOnSet(v, T) \in Nat
  BY <1>6, <1>10, SumIsNat
<1>14. Week >= CodexUsed(units, CalendarWeek)
  <2>1. PICK S \in SUBSET T : /\ \A n, m \in S : list[n].scope = list[m].scope => n = m
                              /\ {list[n].scope : n \in S} = {list[n].scope : n \in T}
    BY OnePerScope
  <2>2. IsFiniteSet(S)
    BY <1>6, FS_Subset
  <2>3. SumFunctionOnSet(lo, S) = Cardinality(CodexBy(units, WantedOf(list), days))
    <3>1. \A n \in S : lo[n] = UsedBy(units, list[n].scope, WeekStart(t), t)
      BY <1>11
    <3>2. SumFunctionOnSet(lo, S) = Cardinality(CodexBy(units, {list[n].scope : n \in S}, days))
      BY <1>1, <2>1, <2>2, <3>1, UseOfScopes
    <3>3. QED
      BY <1>6, <2>1, <3>2
  <2>4. SumFunctionOnSet(lo, S) <= SumFunctionOnSet(v, T) /\ SumFunctionOnSet(lo, S) \in Nat
    <3> DEFINE h == [n \in S |-> n]
    <3>1. \A n \in S : h[n] = n /\ n \in T
      OBVIOUS
    <3> HIDE DEF h
    <3>2. (\A n \in S : lo[n] \in Int) /\ \A n \in S : h[n] \in T /\ lo[n] <= v[h[n]]
      BY <1>10, <3>1
    <3>3. (\A n \in T : v[n] \in Nat) /\ \A n, m \in S : h[n] = h[m] => n = m
      BY <1>10, <3>1
    <3>4. SumFunctionOnSet(lo, S) <= SumFunctionOnSet(v, T)
      BY <1>6, <2>2, <3>2, <3>3, SumWithin
    <3>5. \A n \in S : lo[n] \in Nat
      BY <1>10
    <3>6. QED
      BY <2>2, <3>4, <3>5, SumIsNat
  <2>5. QED
    BY <1>5, <1>12, <1>13, <2>3, <2>4
<1>15. ASSUME Apart
       PROVE  Week <= CodexUsed(MaxUse, CalendarWeek)
  <2>1. SumFunctionOnSet(hi, T) = Cardinality(CodexBy(MaxUse, WantedOf(list), days))
    <3>1. \A n, m \in T : list[n].scope = list[m].scope => n = m
      BY <1>7, <1>15
    <3>2. SumFunctionOnSet(hi, T) = Cardinality(CodexBy(MaxUse, {list[n].scope : n \in T}, days))
      BY <1>1, <1>6, <1>11, <3>1, UseOfScopes
    <3>3. QED
      BY <1>6, <3>2
  <2>2. SumFunctionOnSet(v, T) <= SumFunctionOnSet(hi, T) /\ SumFunctionOnSet(hi, T) \in Nat
    <3> DEFINE h == [n \in T |-> n]
    <3>1. \A n \in T : h[n] = n
      OBVIOUS
    <3> HIDE DEF h
    <3>2. (\A n \in T : v[n] \in Int) /\ \A n \in T : h[n] \in T /\ v[n] <= hi[h[n]]
      BY <1>10, <3>1
    <3>3. (\A n \in T : hi[n] \in Nat) /\ \A n, m \in T : h[n] = h[m] => n = m
      BY <1>10, <3>1
    <3>4. QED
      BY <1>6, <1>10, <3>2, <3>3, SumWithin, SumIsNat
  <2>3. QED
    BY <1>5, <1>12, <1>13, <2>1, <2>2
<1>16. QED
  BY <1>8, <1>9, <1>14, <1>15 DEF days, list

\* The week the panel shows is what the users and accounts the targets select used since
\* Monday, each counted once (WeekIsTruth: buildProductWeek over fetchCodexWeekUsage).
THEOREM WeekIsTrue == Spec => []WeekIsTruth
BY AlwaysCounted, WeekServed, PTL

LEMMA TodayServed == FiguresInv => TodayIsTruth
<1> SUFFICES ASSUME FiguresInv, Today # Missing
             PROVE  /\ DailyRange(snapshot.items, UpdatedAt(snapshot)) = snapshot.today
                    /\ Apart /\ snapshot.began.read = snapshot.today =>
                         Today <= CodexUsed(MaxUse, {snapshot.today})
  BY DEF TodayIsTruth
<1> DEFINE list == snapshot.items
           T == DayItems(list)
           t == snapshot.today
           v == [n \in T |-> list[n].value]
           hi == [n \in T |-> UsedBy(MaxUse, list[n].scope, t, t)]
<1>1. Counting /\ Serving /\ AmountsServed
  BY DEF FiguresInv, ServedInv, CollectInv
<1>2. list # <<>>
  BY NothingShown
<1>3. ServedBy(list, t) /\ Amounts(list, snapshot.began.units, snapshot.began.read, t)
  BY <1>1, <1>2 DEF Serving, AmountsServed
<1>4. t \in Int
  BY <1>1, <1>2, BoundAssumption DEF Serving, Days
<1>5. T # {} /\ Today = SumFunctionOnSet(v, T)
  BY <1>3, TodayIsSum
<1>6. /\ list \in Seq(Range(list)) /\ OfItems(list, "token_usage_product", "codex") = T /\ IsFiniteSet(T)
      /\ \A n \in T : /\ list[n] \in CodexOf(list, "token_usage_product") /\ list[n].start = t
                       /\ list[n].value \in Nat /\ list[n].scope \in WantedOf(list)
  BY <1>3, CodexServed DEF DayItems
<1>7. Apart => \A n, m \in T : list[n].scope = list[m].scope => n = m
  <2> SUFFICES ASSUME Apart, NEW n \in T, NEW m \in T, list[n].scope = list[m].scope
               PROVE  n = m
    OBVIOUS
  <2>1. Once(list, "token_usage_product_week")
    BY <1>3 DEF ServedBy
  <2>2. PICK beside : PairedBy(list, beside)
    BY <1>3 DEF ServedBy, Paired
  <2>3. beside[n] = beside[m]
    BY <2>1, <2>2 DEF PairedBy, Once, DayItems
  <2>4. QED
    BY <2>2, <2>3 DEF PairedBy, DayItems
<1>8. DailyRange(list, UpdatedAt(snapshot)) = t
  <2> DEFINE dated == OfItems(list, "token_usage_product", "codex")
  <2>1. dated # {} /\ \A n \in dated : list[n].start = t
    BY <1>5, <1>6
  <2>2. list \in Seq(Range(list))
    BY <1>6
  <2> HIDE DEF list, t
  <2>3. \A default : RangeStart(list, "token_usage_product", default) = t
    BY <2>1, <2>2, RangeOfItems
  <2>4. QED
    BY <2>3 DEF DailyRange
<1> DEFINE scopes == {list[n].scope : n \in T}
<1>9. ASSUME Apart, snapshot.began.read = t
      PROVE  Today <= CodexUsed(MaxUse, {t})
  <2>1. \A n \in T : hi[n] \in Nat /\ v[n] \in Nat /\ v[n] <= hi[n]
    <3> TAKE n \in T
    <3>1. AtMost(list[n].scope, list[n].value, t)
      BY <1>3, <1>6, <1>9 DEF Amounts
    <3>2. UsedIn(list[n].scope, "codex", t, t) \in Nat
      BY <1>1, <1>4, UseIncludes
    <3>3. UsedIn(list[n].scope, "codex", t, t) = UsedBy(MaxUse, list[n].scope, t, t)
      BY <1>1, AllUnits
    <3>4. QED
      BY <1>6, <3>1, <3>2, <3>3 DEF AtMost
  <2>2. SumFunctionOnSet(hi, T) = Cardinality(CodexBy(MaxUse, scopes, t..t))
    <3>1. ASSUME NEW u, NEW to, \A n \in T : u[n] = UsedBy(MaxUse, list[n].scope, t, to)
          PROVE  SumFunctionOnSet(u, T) = Cardinality(CodexBy(MaxUse, scopes, t..to))
      <4>1. IsFiniteSet(T) /\ \A n, m \in T : list[n].scope = list[m].scope => n = m
        BY <1>6, <1>7, <1>9
      <4> HIDE DEF list, T, t
      <4>2. QED
        BY <1>1, <3>1, <4>1, UseOfScopes
    <3>2. \A n \in T : hi[n] = UsedBy(MaxUse, list[n].scope, t, t)
      OBVIOUS
    <3> HIDE DEF hi, T, t, scopes
    <3>3. QED
      BY <3>1, <3>2
  <2>3. SumFunctionOnSet(v, T) <= SumFunctionOnSet(hi, T)
    <3> DEFINE h == [n \in T |-> n]
    <3>1. \A n \in T : h[n] = n
      OBVIOUS
    <3> HIDE DEF h, hi, v, T
    <3>2. (\A n \in T : v[n] \in Int) /\ \A n \in T : h[n] \in T /\ v[n] <= hi[h[n]]
      BY <2>1, <3>1
    <3>3. (\A n \in T : hi[n] \in Nat) /\ \A n, m \in T : h[n] = h[m] => n = m
      BY <2>1, <3>1
    <3>4. IsFiniteSet(T)
      BY <1>6
    <3>5. QED
      BY <3>2, <3>3, <3>4, SumWithin
  <2>4. SumFunctionOnSet(v, T) \in Nat /\ SumFunctionOnSet(hi, T) \in Nat
    <3>1. IsFiniteSet(T)
      BY <1>6
    <3> HIDE DEF hi, v, T
    <3>2. QED
      BY <2>1, <3>1, SumIsNat
  <2>5. SumFunctionOnSet(hi, T) <= CodexUsed(MaxUse, {t})
    <3> DEFINE A == CodexBy(MaxUse, scopes, t..t)
               B == CodexBy(MaxUse, WantedOf(list), {t})
    <3>1. A \in SUBSET B /\ B \in SUBSET used
      <4>1. t..t = {t}
        BY <1>4
      <4>2. scopes \subseteq WantedOf(list)
        BY <1>6
      <4> HIDE DEF t, list, scopes
      <4>3. QED
        BY <4>1, <4>2 DEF CodexBy
    <3>2. IsFiniteSet(used)
      BY <1>1 DEF Counting
    <3>3. CodexUsed(MaxUse, {t}) = Cardinality(B)
      BY CodexUsedBy
    <3> HIDE DEF A, B
    <3>4. IsFiniteSet(B) /\ IsFiniteSet(A) /\ Cardinality(A) <= Cardinality(B)
      BY <3>1, <3>2, FS_Subset
    <3>5. QED
      BY <2>2, <3>3, <3>4 DEF A
  <2>6. CodexUsed(MaxUse, {t}) \in Nat
    <3>1. IsFiniteSet(used)
      BY <1>1 DEF Counting
    <3>2. CodexBy(MaxUse, WantedOf(list), {t}) \in SUBSET used
      BY DEF CodexBy
    <3>3. IsFiniteSet(CodexBy(MaxUse, WantedOf(list), {t}))
      BY <3>1, <3>2, FS_Subset
    <3>4. CodexUsed(MaxUse, {t}) = Cardinality(CodexBy(MaxUse, WantedOf(list), {t}))
      BY CodexUsedBy
    <3> HIDE DEF t, list
    <3>5. QED
      BY <3>3, <3>4, FS_CardinalityType
  <2> HIDE DEF hi, v, T, t
  <2>7. QED
    BY <1>5, <2>3, <2>4, <2>5, <2>6
<1>10. QED
  BY <1>8, <1>9

\* Today's figure counts the usage of the day it says, no user or account twice, when the
\* accounts were read on that day (TodayIsTruth: buildProductDashboard).
THEOREM TodayIsTrue == Spec => []TodayIsTruth
BY AlwaysCounted, TodayServed, PTL

LEMMA WeekCoversServed == FiguresInv => WeekCoversToday
<1> SUFFICES ASSUME FiguresInv, Today # Missing, Week # Missing, snapshot.began.read = snapshot.today
             PROVE  Today <= Week
  BY DEF WeekCoversToday
<1> DEFINE list == snapshot.items
           S == DayItems(list)
           T == WeekItems(list)
           t == snapshot.today
           v == [n \in S |-> list[n].value]
           w == [n \in T |-> list[n].value]
<1>1. Serving /\ AmountsServed
  BY DEF FiguresInv, ServedInv
<1>2. list # <<>>
  BY NothingShown
<1>3. ServedBy(list, t) /\ Amounts(list, snapshot.began.units, snapshot.began.read, t)
  BY <1>1, <1>2 DEF Serving, AmountsServed
<1>4. Today = SumFunctionOnSet(v, S)
  BY <1>3, TodayIsSum
<1>5. Week = SumFunctionOnSet(w, T) /\ \A n \in T : list[n].value # Missing /\ list[n].value \in Nat
  BY <1>3, WeekIsSum
<1>6. /\ IsFiniteSet(S) /\ IsFiniteSet(T)
      /\ \A n \in S : /\ list[n] \in CodexOf(list, "token_usage_product")
                       /\ list[n].value \in Nat
      /\ \A n \in T : list[n] \in CodexOf(list, "token_usage_product_week")
  BY <1>3, CodexServed
<1>7. PICK h : PairedBy(list, h)
  BY <1>3 DEF ServedBy, Paired
<1>8. \A n \in S, m \in T : list[m].scope = list[n].scope => list[n].value <= list[m].value
  <2> TAKE n \in S, m \in T
  <2>1. /\ list[n] \in CodexOf(list, "token_usage_product")
        /\ list[m] \in CodexOf(list, "token_usage_product_week") /\ list[m].value # Missing
    BY <1>5, <1>6
  <2> HIDE DEF list
  <2>2. QED
    BY <1>3, <2>1 DEF Amounts
<1>9. /\ \A n \in S : h[n] \in T /\ list[h[n]].scope = list[n].scope
      /\ \A n, m \in S : h[n] = h[m] => n = m
  BY <1>7 DEF PairedBy, DayItems, WeekItems
<1>10. /\ \A n \in S : v[n] = list[n].value /\ v[n] \in Int
       /\ \A n \in T : w[n] = list[n].value /\ w[n] \in Nat
  BY <1>5, <1>6
<1> HIDE DEF list, S, T, v, w
<1>11. (\A n \in S : h[n] \in T /\ v[n] <= w[h[n]]) /\ \A n, m \in S : h[n] = h[m] => n = m
  BY <1>8, <1>9, <1>10
<1>12. SumFunctionOnSet(v, S) <= SumFunctionOnSet(w, T)
  BY <1>6, <1>10, <1>11, SumWithin
<1>13. QED
  BY <1>4, <1>5, <1>12

\* The week shown beside today's figure is no less than it, though each is read by its own
\* request (WeekCoversToday).
THEOREM WeekCovers == Spec => []WeekCoversToday
BY AlwaysCounted, WeekCoversServed, PTL
=============================================================================
