-------------------------- MODULE Dashboard_proofs --------------------------
(***************************************************************************)
(* What the operators of Dashboard give of any items: the elements picked  *)
(* from a sequence, the rows of the accounts and the figures of a product. *)
(***************************************************************************)
EXTENDS Dashboard, NatSets, SequenceTheorems

---------------------------------------------------------------------------
(* Picked.                                                                 *)

\* Every position has a rank among the positions, and every rank is of one.
LEMMA Ranks ==
  ASSUME NEW S \in SUBSET Nat, IsFiniteSet(S)
  PROVE  /\ Cardinality(S) \in Nat
         /\ \A k \in S : Cardinality({j \in S : j <= k}) \in 1..Cardinality(S)
         /\ \A k, l \in S : k < l => Cardinality({j \in S : j <= k}) < Cardinality({j \in S : j <= l})
         /\ \A n \in 1..Cardinality(S) : \E k \in S : Cardinality({j \in S : j <= k}) = n
<1> DEFINE upTo(k) == {j \in S : j <= k}
           T == 1..Cardinality(S)
           rank == [k \in S |-> Cardinality(upTo(k))]
<1>1. Cardinality(S) \in Nat
  BY FS_CardinalityType
<1>2. ASSUME NEW k \in S
      PROVE  /\ IsFiniteSet(upTo(k)) /\ Cardinality(upTo(k)) \in T
  <2>1. upTo(k) \in SUBSET S /\ k \in upTo(k)
    OBVIOUS
  <2>2. IsFiniteSet(upTo(k)) /\ Cardinality(upTo(k)) <= Cardinality(S) /\ Cardinality(upTo(k)) \in Nat
    BY <2>1, FS_Subset, FS_CardinalityType
  <2>3. Cardinality(upTo(k)) # 0
    BY <2>1, <2>2, FS_EmptySet
  <2>4. QED
    BY <1>1, <2>2, <2>3
<1>3. ASSUME NEW k \in S, NEW l \in S, k < l
      PROVE  Cardinality(upTo(k)) < Cardinality(upTo(l))
  <2> HIDE DEF upTo
  <2>1. upTo(k) \in SUBSET upTo(l) /\ l \in upTo(l) /\ l \notin upTo(k)
    <3>1. \A j \in S : j <= k => j <= l
      BY <1>3
    <3>2. l <= l /\ ~(l <= k)
      BY <1>3
    <3>3. QED
      BY <3>1, <3>2, Zenon DEF upTo
  <2>2. Cardinality(upTo(k)) <= Cardinality(upTo(l)) /\ Cardinality(upTo(k)) # Cardinality(upTo(l))
    BY <1>2, <2>1, FS_Subset
  <2>3. QED
    BY <1>1, <1>2, <2>2
<1>4. rank \in Injection(S, T)
  <2>1. rank \in [S -> T]
    BY <1>2
  <2>2. ASSUME NEW k \in S, NEW l \in S, rank[k] = rank[l]
        PROVE  k = l
    BY <1>2, <1>3, <2>2
  <2> HIDE DEF rank, T
  <2>3. QED
    BY <2>1, <2>2 DEF Injection, IsInjective
<1>5. IsFiniteSet(T) /\ Cardinality(T) = Cardinality(S)
  BY <1>1, FS_Interval
<1>6. rank \in Surjection(S, T)
  <2> HIDE DEF rank, T
  <2>1. QED
    BY <1>4, <1>5, FS_Injection
<1>7. \A n \in T : \E k \in S : rank[k] = n
  <2> HIDE DEF rank, T
  <2>1. QED
    BY <1>6 DEF Surjection
<1>8. QED
  BY <1>1, <1>2, <1>3, <1>7

\* What is picked are the elements at the positions, each of them once and in their order.
LEMMA PickedElements ==
  ASSUME NEW seq, NEW S \in SUBSET Nat, IsFiniteSet(S)
  PROVE  /\ Cardinality(S) \in Nat /\ DOMAIN Picked(seq, S) = 1..Cardinality(S)
         /\ \A n \in 1..Cardinality(S) :
              \E k \in S : Cardinality({j \in S : j <= k}) = n /\ Picked(seq, S)[n] = seq[k]
         /\ Range(Picked(seq, S)) = {seq[k] : k \in S}
<1> DEFINE rank(k) == Cardinality({j \in S : j <= k})
           at(n) == CHOOSE k \in S : rank(k) = n
<1>1. Cardinality(S) \in Nat /\ DOMAIN Picked(seq, S) = 1..Cardinality(S)
  BY Ranks DEF Picked
<1>2. ASSUME NEW n \in 1..Cardinality(S)
      PROVE  at(n) \in S /\ rank(at(n)) = n /\ Picked(seq, S)[n] = seq[at(n)]
  <2>1. \E k \in S : rank(k) = n
    BY Ranks
  <2>2. at(n) \in S /\ rank(at(n)) = n
    BY <2>1
  <2>3. QED
    BY <2>2 DEF Picked
<1>3. ASSUME NEW k \in S
      PROVE  rank(k) \in 1..Cardinality(S) /\ at(rank(k)) = k
  <2>1. rank(k) \in 1..Cardinality(S)
    BY Ranks
  <2>2. at(rank(k)) \in S /\ rank(at(rank(k))) = rank(k)
    BY <1>2, <2>1
  <2>3. at(rank(k)) < k \/ k < at(rank(k)) \/ at(rank(k)) = k
    BY <2>2
  <2>4. QED
    BY <2>1, <2>2, <2>3, Ranks
<1>4. Range(Picked(seq, S)) \subseteq {seq[k] : k \in S}
  BY <1>1, <1>2 DEF Range
<1>5. ASSUME NEW k \in S
      PROVE  seq[k] \in Range(Picked(seq, S))
  <2>1. rank(k) \in 1..Cardinality(S) /\ at(rank(k)) = k
    BY <1>3
  <2>2. PICK n \in 1..Cardinality(S) : at(n) = k
    BY <2>1
  <2>3. Picked(seq, S)[n] = seq[k]
    BY <1>2, <2>2
  <2>4. QED
    BY <1>1, <2>2, <2>3 DEF Range
<1>6. QED
  BY <1>1, <1>2, <1>4, <1>5

\* Elements that differ differ where they are picked.
LEMMA PickedDistinct ==
  ASSUME NEW seq, NEW S \in SUBSET Nat, IsFiniteSet(S), \A k, i \in S : seq[k] = seq[i] => k = i
  PROVE  \A n, m \in 1..Cardinality(S) : Picked(seq, S)[n] = Picked(seq, S)[m] => n = m
<1> DEFINE rank(k) == Cardinality({j \in S : j <= k})
<1>1. \A n \in 1..Cardinality(S) : \E k \in S : rank(k) = n /\ Picked(seq, S)[n] = seq[k]
  BY PickedElements
<1> HIDE DEF rank
<1>2. QED
  BY <1>1

\* What is picked, by the position it is picked from.
LEMMA PickedAt ==
  ASSUME NEW seq, NEW S \in SUBSET Nat, IsFiniteSet(S)
  PROVE  \E at : /\ \A n \in 1..Cardinality(S) : at[n] \in S /\ Picked(seq, S)[n] = seq[at[n]]
                 /\ \A n, m \in 1..Cardinality(S) : at[n] = at[m] => n = m
                 /\ \A k \in S : \E n \in 1..Cardinality(S) : at[n] = k
<1> DEFINE rank(k) == Cardinality({j \in S : j <= k})
           at == [n \in 1..Cardinality(S) |-> CHOOSE k \in S : rank(k) = n]
<1>1. \A n \in 1..Cardinality(S) : at[n] \in S /\ rank(at[n]) = n
  <2> TAKE n \in 1..Cardinality(S)
  <2>1. \E k \in S : rank(k) = n
    BY Ranks
  <2>2. QED
    BY <2>1
<1>2. \A n \in 1..Cardinality(S) : Picked(seq, S)[n] = seq[at[n]]
  BY DEF Picked
<1>3. \A k \in S : rank(k) \in 1..Cardinality(S) /\ at[rank(k)] = k
  <2> TAKE k \in S
  <2>1. rank(k) \in 1..Cardinality(S)
    BY Ranks
  <2> HIDE DEF at
  <2>2. at[rank(k)] \in S /\ rank(at[rank(k)]) = rank(k)
    BY <1>1, <2>1
  <2> DEFINE l == at[rank(k)]
  <2>3. l \in S /\ rank(l) = rank(k)
    BY <2>2, Zenon
  <2> HIDE DEF l
  <2>4. ~(l < k) /\ ~(k < l)
    <3>1. Cardinality(S) \in Nat /\ rank(k) \in 1..Cardinality(S)
      BY Ranks
    <3>2. /\ l < k => rank(l) < rank(k)
          /\ k < l => rank(k) < rank(l)
      BY <2>3, Ranks
    <3> HIDE DEF rank
    <3>3. QED
      BY <2>3, <3>1, <3>2
  <2>5. l = k
    <3>1. l \in Nat /\ k \in Nat
      BY <2>3
    <3>2. QED
      BY <2>4, <3>1
  <2>6. QED
    BY <2>1, <2>5 DEF l
<1> HIDE DEF at, rank
<1>4. QED
  BY <1>1, <1>2, <1>3

LEMMA PickedRange ==
  ASSUME NEW seq, NEW S \in SUBSET Nat, IsFiniteSet(S)
  PROVE  /\ Cardinality(S) \in Nat /\ DOMAIN Picked(seq, S) = 1..Cardinality(S)
         /\ Range(Picked(seq, S)) = {seq[k] : k \in S}
BY PickedElements

LEMMA PickedSequence ==
  ASSUME NEW seq, NEW S \in SUBSET Nat, IsFiniteSet(S), NEW T, \A k \in S : seq[k] \in T
  PROVE  Picked(seq, S) \in Seq(T)
<1> DEFINE at(n) == CHOOSE k \in S : Cardinality({j \in S : j <= k}) = n
<1>1. /\ Cardinality(S) \in Nat
      /\ \A n \in 1..Cardinality(S) : \E k \in S : Picked(seq, S)[n] = seq[k]
  <2>1. Cardinality(S) \in Nat
    BY FS_CardinalityType
  <2>2. ASSUME NEW n \in 1..Cardinality(S)
        PROVE  \E k \in S : Picked(seq, S)[n] = seq[k]
    <3>1. DOMAIN Picked(seq, S) = 1..Cardinality(S) /\ Range(Picked(seq, S)) = {seq[k] : k \in S}
      BY PickedElements
    <3>2. Picked(seq, S)[n] \in Range(Picked(seq, S))
      BY <3>1 DEF Range
    <3>3. QED
      BY <3>1, <3>2
  <2>3. QED
    BY <2>1, <2>2
<1>2. Picked(seq, S) = [n \in 1..Cardinality(S) |-> seq[at(n)]]
  BY DEF Picked
<1> HIDE DEF at
<1>3. \A n \in 1..Cardinality(S) : seq[at(n)] \in T
  BY <1>1, <1>2
<1>4. QED
  BY <1>1, <1>2, <1>3

LEMMA ConcatElements ==
  ASSUME NEW a, a \in Seq(Range(a)), NEW b, b \in Seq(Range(b))
  PROVE  a \o b \in Seq(Range(a \o b)) /\ Range(a \o b) = Range(a) \cup Range(b)
<1> DEFINE T == Range(a) \cup Range(b)
<1>1. a \in Seq(T) /\ b \in Seq(T)
  OBVIOUS
<1> HIDE DEF T
<1>2. a \o b \in Seq(T) /\ Range(a \o b) = Range(a) \cup Range(b)
  BY <1>1, ConcatProperties, RangeConcatenation
<1>3. QED
  BY <1>2, SeqOfRange

---------------------------------------------------------------------------
(* The rows of the accounts.                                               *)

\* The positions of the items rows are made of, and the items.
IsQuota(item) == item.category = "quota" /\ item.window \in {"5H", "Week"}
Quotas(items) == {n \in DOMAIN items : IsQuota(items[n])}
Stated(items) == {items[n] : n \in Quotas(items)}

LEMMA StatedElements == \A items : Stated(items) = {i \in Range(items) : IsQuota(i)}
BY DEF Stated, Quotas, Range

\* The cell of an account's window, and the row of the account of an item.
Cell(items, k, window) ==
  LET shown == {n \in Quotas(items) : AccountKey(items[n]) = k /\ items[n].window = window}
  IN  IF shown = {} THEN Missing ELSE items[Max(shown)].left

RowOf(items, i) ==
  Row(i.name, i.email, Cell(items, AccountKey(i), "5H"), Cell(items, AccountKey(i), "Week"))

\* A cell is Missing without an item of the account's window, and else what one of them says.
LEMMA CellStated ==
  ASSUME NEW S, NEW items \in Seq(S), NEW k, NEW window \in {"5H", "Week"}
  PROVE  \/ /\ Cell(items, k, window) = Missing
            /\ \A i \in Stated(items) : ~(AccountKey(i) = k /\ i.window = window)
         \/ \E i \in Stated(items) :
              AccountKey(i) = k /\ i.window = window /\ Cell(items, k, window) = i.left
<1> DEFINE shown == {n \in Quotas(items) : AccountKey(items[n]) = k /\ items[n].window = window}
<1>1. CASE shown = {}
  BY <1>1 DEF Cell, Stated
<1>2. CASE shown # {}
  <2>1. shown \in SUBSET Nat /\ Len(items) \in Nat /\ \A n \in shown : n <= Len(items)
    BY DEF Quotas
  <2>2. PICK n \in shown : \A m \in shown : m <= n
    <3> HIDE DEF shown
    <3>1. QED
      BY <1>2, <2>1, GreatestNat
  <2>3. Max(shown) \in shown
    <3>1. \E x \in shown : \A y \in shown : x >= y
      BY <2>1, <2>2
    <3> HIDE DEF shown
    <3>2. QED
      BY <3>1, Zenon DEF Max
  <2>4. QED
    BY <1>2, <2>3 DEF Cell, Stated
<1>3. QED
  BY <1>1, <1>2

\* Every row is of an account that has an item, and every such account has a row.
LEMMA RowsShown ==
  ASSUME NEW S, NEW items \in Seq(S)
  PROVE  /\ \E l \in Nat : DOMAIN QuotaRows(items) = 1..l
         /\ \A row \in Range(QuotaRows(items)) : \E i \in Stated(items) : row = RowOf(items, i)
         /\ \A i \in Stated(items) : \E j \in Stated(items) :
              AccountKey(j) = AccountKey(i) /\ RowOf(items, j) \in Range(QuotaRows(items))
<1> DEFINE key(n) == AccountKey(items[n])
           firsts == {n \in Quotas(items) : \A m \in Quotas(items) : m < n => key(m) # key(n)}
           rowOf == [n \in firsts |-> RowOf(items, items[n])]
<1>1. QuotaRows(items) = Picked(rowOf, firsts)
  BY DEF QuotaRows, RowOf, Cell, Quotas, IsQuota
<1>2. Len(items) \in Nat /\ Quotas(items) \in SUBSET (1..Len(items))
  BY DEF Quotas
<1>3. firsts \in SUBSET (1..Len(items)) /\ firsts \in SUBSET Nat /\ firsts \subseteq Quotas(items)
  BY <1>2
<1>4. ASSUME NEW n \in Quotas(items)
      PROVE  \E m \in firsts : key(m) = key(n)
  <2> DEFINE same == {m \in Quotas(items) : key(m) = key(n)}
  <2>1. same # {} /\ same \in SUBSET Nat
    BY <1>2
  <2>2. PICK m \in same : \A l \in same : m <= l
    <3> HIDE DEF same
    <3>1. QED
      BY <2>1, LeastNat
  <2>3. ASSUME NEW l \in Quotas(items), l < m
        PROVE  key(l) # key(m)
    <3>1. l \notin same
      BY <1>2, <2>1, <2>2, <2>3
    <3>2. QED
      BY <3>1
  <2>4. m \in firsts /\ key(m) = key(n)
    BY <2>3
  <2>5. QED
    BY <2>4
<1> HIDE DEF firsts
<1>5. IsFiniteSet(firsts)
  BY <1>2, <1>3, Within
<1>6. /\ Cardinality(firsts) \in Nat /\ DOMAIN QuotaRows(items) = 1..Cardinality(firsts)
      /\ Range(QuotaRows(items)) = {rowOf[n] : n \in firsts}
  BY <1>1, <1>3, <1>5, PickedElements
<1>7. ASSUME NEW row \in Range(QuotaRows(items))
      PROVE  \E i \in Stated(items) : row = RowOf(items, i)
  BY <1>3, <1>6 DEF Stated
<1>8. ASSUME NEW i \in Stated(items)
      PROVE  \E j \in Stated(items) :
               AccountKey(j) = AccountKey(i) /\ RowOf(items, j) \in Range(QuotaRows(items))
  <2>1. PICK n \in Quotas(items) : i = items[n]
    BY DEF Stated
  <2>2. PICK m \in firsts : key(m) = key(n)
    BY <1>4
  <2>3. items[m] \in Stated(items) /\ rowOf[m] = RowOf(items, items[m])
    BY <1>3 DEF Stated
  <2>4. QED
    BY <1>6, <2>1, <2>2, <2>3
<1>9. QED
  BY <1>6, <1>7, <1>8

\* There are rows when an item is of a window.
LEMMA SomeRows ==
  ASSUME NEW S, NEW items \in Seq(S)
  PROVE  QuotaRows(items) = <<>> <=> Stated(items) = {}
<1> DEFINE rowsOf == QuotaRows(items)
           firsts == {n \in Quotas(items) : \A m \in Quotas(items) :
                        m < n => AccountKey(items[m]) # AccountKey(items[n])}
<1>1. CASE Stated(items) = {}
  <2>1. Quotas(items) = {}
    BY <1>1 DEF Stated
  <2>2. firsts = {}
    BY <2>1
  <2>3. \E rowOf : rowsOf = Picked(rowOf, firsts)
    BY DEF QuotaRows, Quotas, IsQuota
  <2>4. PICK rowOf : rowsOf = Picked(rowOf, {})
    BY <2>2, <2>3
  <2>5. rowsOf = <<>>
    BY <2>4, FS_EmptySet DEF Picked
  <2>6. QED
    BY <1>1, <2>5
<1>2. CASE Stated(items) # {}
  <2>1. \A i \in Stated(items) : \E j \in Stated(items) :
          AccountKey(j) = AccountKey(i) /\ RowOf(items, j) \in Range(rowsOf)
    BY RowsShown
  <2> HIDE DEF rowsOf
  <2>2. \E row : row \in Range(rowsOf)
    BY <1>2, <2>1
  <2>3. \E n : n \in DOMAIN rowsOf
    BY <2>2 DEF Range
  <2>4. rowsOf # <<>>
    BY <2>3
  <2>5. QED
    BY <1>2, <2>4 DEF rowsOf
<1>3. QED
  BY <1>1, <1>2

---------------------------------------------------------------------------
(* The figures of a product.                                               *)

\* One element is picked.
LEMMA PickedOne ==
  ASSUME NEW seq, NEW k \in Nat
  PROVE  Picked(seq, {k}) = <<seq[k]>>
<1> DEFINE p == Picked(seq, {k})
           T == {seq[k]}
<1>1. {k} \in SUBSET Nat /\ IsFiniteSet({k}) /\ Cardinality({k}) = 1
  BY FS_Singleton
<1>2. DOMAIN p = 1..1 /\ Range(p) = {seq[i] : i \in {k}}
  BY <1>1, PickedRange
<1>3. p \in Seq(T)
  <2>1. \A i \in {k} : seq[i] \in T
    OBVIOUS
  <2> HIDE DEF T
  <2>2. QED
    BY <1>1, <2>1, PickedSequence
<1> HIDE DEF p
<1>4. p[1] \in T /\ Len(p) = 1
  BY <1>2, <1>3
<1>5. p = <<seq[k]>>
  BY <1>3, <1>4
<1>6. QED
  BY <1>5 DEF p

\* None is.
LEMMA PickedNone == \A seq : Picked(seq, {}) = <<>>
<1> TAKE seq
<1>1. Cardinality({}) = 0
  BY FS_EmptySet
<1>2. DOMAIN Picked(seq, {}) = {}
  BY <1>1 DEF Picked
<1>3. QED
  BY <1>1 DEF Picked

LEMMA TotalOfOne ==
  ASSUME NEW i, i.value \in Int
  PROVE  Total(<<i>>) = i.value
<1> DEFINE w == [n \in DOMAIN <<i>> |-> <<i>>[n].value]
<1>1. DOMAIN w = {1} /\ w[1] = i.value
  OBVIOUS
<1>2. Total(<<i>>) = SumFunction(w)
  BY DEF Total
<1> HIDE DEF w
<1>3. SumFunction(w) = SumFunctionOnSet(w, {1})
  BY <1>1, SumOfAll
<1>4. QED
  BY <1>1, <1>2, <1>3, SumOfOne

\* The two figures of a product, before items of quota, are what its items say.
Figures(product, day, today, week) ==
  <<[category |-> "token_usage_product", product |-> product, value |-> today,
     start |-> day, end |-> day],
    [category |-> "token_usage_product_week", product |-> product, value |-> week,
     start |-> WeekStart(day), end |-> day]>>

LEMMA FiguresShown ==
  ASSUME NEW product, NEW day, NEW today \in Int, NEW week \in Int,
         NEW q, q \in Seq(Range(q)), \A i \in Range(q) : IsQuota(i)
  PROVE  /\ ProductToday(Figures(product, day, today, week) \o q, product) = today
         /\ ProductWeek(Figures(product, day, today, week) \o q, product) = week
<1> DEFINE a == [category |-> "token_usage_product", product |-> product, value |-> today,
                 start |-> day, end |-> day]
           b == [category |-> "token_usage_product_week", product |-> product, value |-> week,
                 start |-> WeekStart(day), end |-> day]
           items == <<a, b>> \o q
           at(category) == {n \in DOMAIN items : items[n].category = category /\ items[n].product = product}
<1>1. /\ a.category = "token_usage_product" /\ a.product = product /\ a.value = today
      /\ b.category = "token_usage_product_week" /\ b.product = product /\ b.value = week
      /\ b.start = WeekStart(b.end)
  OBVIOUS
<1> HIDE DEF a, b
<1>2. /\ DOMAIN items = 1..(2 + Len(q)) /\ Len(q) \in Nat /\ items[1] = a /\ items[2] = b
      /\ \A n \in DOMAIN items : n # 1 /\ n # 2 => items[n].category = "quota"
  <2>1. Len(q) \in Nat /\ DOMAIN q = 1..Len(q) /\ DOMAIN items = 1..(2 + Len(q))
    OBVIOUS
  <2>2. items[1] = a /\ items[2] = b /\ \A n \in 3..(2 + Len(q)) : items[n] = q[n - 2]
    BY <2>1
  <2>3. ASSUME NEW n \in 3..(2 + Len(q))
        PROVE  items[n].category = "quota"
    <3>1. n - 2 \in DOMAIN q /\ items[n] = q[n - 2]
      BY <2>1, <2>2
    <3>2. items[n] \in Range(q)
      BY <3>1 DEF Range
    <3>3. QED
      BY <3>2 DEF IsQuota
  <2> HIDE DEF items
  <2>4. QED
    BY <2>1, <2>2, <2>3
<1> HIDE DEF items
<1>3. at("token_usage_product") = {1} /\ at("token_usage_product_week") = {2}
  <2>1. 1 \in DOMAIN items /\ 2 \in DOMAIN items
    BY <1>2
  <2>2. \A n \in DOMAIN items : n # 1 => items[n].category # "token_usage_product"
    BY <1>1, <1>2
  <2>3. \A n \in DOMAIN items : n # 2 => items[n].category # "token_usage_product_week"
    BY <1>1, <1>2
  <2>4. QED
    BY <1>1, <1>2, <2>1, <2>2, <2>3
<1>4. OfProduct(items, "token_usage_product", product) = <<a>>
  <2>1. OfProduct(items, "token_usage_product", product) = Picked(items, at("token_usage_product"))
    BY DEF OfProduct
  <2>2. Picked(items, {1}) = <<items[1]>>
    BY PickedOne
  <2> HIDE DEF at
  <2>3. QED
    BY <1>2, <1>3, <2>1, <2>2
<1>5. OfProduct(items, "token_usage_product_week", product) = <<b>>
  <2>1. OfProduct(items, "token_usage_product_week", product)
          = Picked(items, at("token_usage_product_week"))
    BY DEF OfProduct
  <2>2. Picked(items, {2}) = <<items[2]>>
    BY PickedOne
  <2> HIDE DEF at
  <2>3. QED
    BY <1>2, <1>3, <2>1, <2>2
<1>6. ProductToday(items, product) = today
  <2> DEFINE usable == {n \in DOMAIN <<a>> : <<a>>[n].value # Missing}
  <2>1. usable = {1}
    BY <1>1, CellConstants
  <2>2. Parsed(<<a>>) = Picked(<<a>>, usable)
    BY DEF Parsed
  <2>3. Picked(<<a>>, {1}) = <<a>>
    <3>1. Picked(<<a>>, {1}) = <<(<<a>>)[1]>>
      BY PickedOne
    <3>2. QED
      BY <3>1
  <2> HIDE DEF usable
  <2>4. Parsed(<<a>>) = <<a>>
    BY <2>1, <2>2, <2>3
  <2>5. Total(<<a>>) = today
    BY <1>1, TotalOfOne
  <2>6. <<a>> # <<>>
    OBVIOUS
  <2>7. \A s : Parsed(OfProduct(items, "token_usage_product", product)) = s /\ s # <<>> =>
          ProductToday(items, product) = Total(s)
    BY DEF ProductToday
  <2>8. QED
    BY <1>4, <2>4, <2>5, <2>6, <2>7, Zenon
<1>7. ProductWeek(items, product) = week
  <2>1. Total(<<b>>) = week
    BY <1>1, TotalOfOne
  <2>2. b.value # Missing
    BY <1>1, CellConstants
  <2>3. QED
    BY <1>1, <1>5, <2>1, <2>2 DEF ProductWeek
<1>8. QED
  BY <1>6, <1>7 DEF items, a, b, Figures

\* Without an item of the product there is no figure.
LEMMA NoFigures ==
  ASSUME NEW product, NEW q, \A i \in Range(q) : IsQuota(i)
  PROVE  ProductToday(q, product) = Missing
<1>1. {n \in DOMAIN q : q[n].category = "token_usage_product" /\ q[n].product = product} = {}
  BY DEF IsQuota, Range
<1>2. OfProduct(q, "token_usage_product", product) = <<>>
  BY <1>1, PickedNone DEF OfProduct
<1>3. Parsed(<<>>) = <<>>
  <2>1. {n \in DOMAIN <<>> : <<>>[n].value # Missing} = {}
    OBVIOUS
  <2>2. QED
    BY <2>1, PickedNone DEF Parsed
<1>4. QED
  BY <1>2, <1>3 DEF ProductToday
---------------------------------------------------------------------------
(* Sequences one after the other.                                          *)

\* What defines FlattenSeq: each of the first k together with those before it.
Flattening(f, ss, k) == f = [i \in 1..k |-> IF i = 1 THEN ss[i] ELSE f[i - 1] \o ss[i]]

\* FlattenSeq is the last of them.
LEMMA FlattenDefined ==
  ASSUME NEW ss, Len(ss) \in Nat, Len(ss) # 0
  PROVE  \E f : Flattening(f, ss, Len(ss)) /\ FlattenSeq(ss) = f[Len(ss)]
<1> DEFINE N == {k \in Nat : \E f : Flattening(f, ss, k)}
           flatten == CHOOSE f : f = [i \in 1..Len(ss) |-> IF i = 1 THEN ss[i] ELSE f[i - 1] \o ss[i]]
<1>1. 0 \in N
  <2>1. Flattening([i \in 1..0 |-> 0], ss, 0)
    BY DEF Flattening
  <2>2. QED
    BY <2>1
<1>2. ASSUME NEW k \in Nat, k \in N
      PROVE  k + 1 \in N
  <2>1. PICK g : Flattening(g, ss, k)
    BY <1>2
  <2> DEFINE h == [i \in 1..(k + 1) |-> IF i <= k THEN g[i]
                                       ELSE IF i = 1 THEN ss[i] ELSE g[i - 1] \o ss[i]]
  <2>2. \A i \in 1..(k + 1) : h[i] = IF i = 1 THEN ss[i] ELSE h[i - 1] \o ss[i]
    <3> TAKE i \in 1..(k + 1)
    <3>1. CASE i <= k
      <4>1. g[i] = IF i = 1 THEN ss[i] ELSE g[i - 1] \o ss[i]
        <5>1. i \in 1..k
          BY <3>1
        <5>2. QED
          BY <2>1, <5>1, Zenon DEF Flattening
      <4>2. h[i] = g[i] /\ (i # 1 => h[i - 1] = g[i - 1])
        BY <3>1
      <4>3. QED
        BY <4>1, <4>2, Zenon
    <3>2. CASE ~(i <= k)
      <4>1. h[i] = IF i = 1 THEN ss[i] ELSE g[i - 1] \o ss[i]
        BY <3>2, Zenon
      <4>2. i # 1 => i - 1 \in 1..(k + 1) /\ i - 1 <= k
        OBVIOUS
      <4>3. i # 1 => h[i - 1] = g[i - 1]
        BY <4>2
      <4> HIDE DEF h
      <4>4. QED
        BY <4>1, <4>3, Zenon
    <3>3. QED
      BY <3>1, <3>2
  <2>3. h = [i \in 1..(k + 1) |-> h[i]]
    BY Zenon
  <2> HIDE DEF h
  <2>4. [i \in 1..(k + 1) |-> h[i]] = [i \in 1..(k + 1) |-> IF i = 1 THEN ss[i] ELSE h[i - 1] \o ss[i]]
    BY <2>2
  <2>5. Flattening(h, ss, k + 1)
    BY <2>3, <2>4 DEF Flattening
  <2>6. QED
    BY <2>5
<1>3. Len(ss) \in N
  <2> HIDE DEF N
  <2>1. QED
    BY <1>1, <1>2, NatSetInduction
<1>4. Flattening(flatten, ss, Len(ss))
  BY <1>3, Zenon DEF Flattening
<1>5. FlattenSeq(ss) = flatten[Len(ss)]
  BY DEF FlattenSeq
<1>6. QED
  BY <1>4, <1>5

\* The first k of some sequences one after the other: every position of f stands for one
\* position of one of them, and every one of these for one of f.
FlatBy(f, ss, k, row, col) ==
  /\ \A p \in 1..Len(f) : /\ row[p] \in 1..k /\ col[p] \in 1..Len(ss[row[p]])
                          /\ f[p] = ss[row[p]][col[p]]
  /\ \A p, q \in 1..Len(f) : row[p] = row[q] /\ col[p] = col[q] => p = q
  /\ \A i \in 1..k : \A m \in 1..Len(ss[i]) :
       \E p \in 1..Len(f) : row[p] = i /\ col[p] = m

FlatUpTo(f, ss, k) == \E row, col : FlatBy(f, ss, k, row, col)

\* One more sequence adds its positions.
LEMMA FlatOneMore ==
  ASSUME NEW T, NEW ss \in Seq(Seq(T)), NEW k \in 0..Len(ss), k + 1 <= Len(ss),
         NEW f \in Seq(T), FlatUpTo(f, ss, k)
  PROVE  f \o ss[k + 1] \in Seq(T) /\ FlatUpTo(f \o ss[k + 1], ss, k + 1)
<1>1. k \in Nat /\ Len(ss) \in Nat /\ k + 1 \in 1..Len(ss) /\ ss[k + 1] \in Seq(T)
  OBVIOUS
<1> DEFINE s == ss[k + 1]
           l == Len(f)
           g == f \o s
<1>2. l \in Nat /\ Len(s) \in Nat /\ g \in Seq(T) /\ Len(g) = l + Len(s)
      /\ (\A p \in 1..l : g[p] = f[p]) /\ (\A p \in 1..Len(g) : p > l => g[p] = s[p - l])
  <2> HIDE DEF s
  <2>1. s \in Seq(T)
    BY <1>1 DEF s
  <2>2. QED
    BY <2>1
<1>3. PICK row, col :
        /\ \A p \in 1..l : row[p] \in 1..k /\ col[p] \in 1..Len(ss[row[p]]) /\ f[p] = ss[row[p]][col[p]]
        /\ \A p, q \in 1..l : row[p] = row[q] /\ col[p] = col[q] => p = q
        /\ \A i \in 1..k : \A m \in 1..Len(ss[i]) : \E p \in 1..l : row[p] = i /\ col[p] = m
  BY DEF FlatUpTo, FlatBy
<1> DEFINE row2 == [p \in 1..Len(g) |-> IF p <= l THEN row[p] ELSE k + 1]
           col2 == [p \in 1..Len(g) |-> IF p <= l THEN col[p] ELSE p - l]
<1>4. /\ \A p \in 1..l : p \in 1..Len(g) /\ row2[p] = row[p] /\ col2[p] = col[p]
      /\ \A p \in 1..Len(g) : p > l => row2[p] = k + 1 /\ col2[p] = p - l
  <2> HIDE DEF g, l, s
  <2>1. QED
    BY <1>2
<1> HIDE DEF row2, col2, g, l
<1>5. \A p \in 1..Len(g) : p \in 1..l \/ (p > l /\ p - l \in 1..Len(s) /\ ~(p <= l))
  <2> HIDE DEF s
  <2>1. QED
    BY <1>2
<1>6. ASSUME NEW p \in 1..Len(g)
      PROVE  row2[p] \in 1..(k + 1) /\ col2[p] \in 1..Len(ss[row2[p]]) /\ g[p] = ss[row2[p]][col2[p]]
  <2>1. CASE p \in 1..l
    <3>1. row2[p] = row[p] /\ col2[p] = col[p] /\ g[p] = f[p]
      BY <1>2, <1>4, <2>1
    <3>2. row[p] \in 1..k /\ col[p] \in 1..Len(ss[row[p]]) /\ f[p] = ss[row[p]][col[p]]
      BY <1>3, <2>1
    <3>3. row[p] \in 1..(k + 1)
      BY <1>1, <3>2
    <3>4. QED
      BY <3>1, <3>2, <3>3, Zenon
  <2>2. CASE p > l
    <3>1. row2[p] = k + 1 /\ col2[p] = p - l /\ g[p] = s[p - l] /\ p - l \in 1..Len(s)
      BY <1>2, <1>4, <1>5, <2>2
    <3>2. k + 1 \in 1..(k + 1)
      BY <1>1
    <3>3. QED
      BY <3>1, <3>2, Zenon DEF s
  <2>3. QED
    BY <1>5, <2>1, <2>2
<1>7. ASSUME NEW p \in 1..Len(g), NEW q \in 1..Len(g), row2[p] = row2[q], col2[p] = col2[q]
      PROVE  p = q
  <2>1. p \in 1..l => row2[p] \in 1..k
    BY <1>3, <1>4
  <2>2. q \in 1..l => row2[q] \in 1..k
    BY <1>3, <1>4
  <2>3. CASE p \in 1..l /\ q \in 1..l
    <3>1. row[p] = row[q] /\ col[p] = col[q]
      BY <1>4, <1>7, <2>3
    <3>2. QED
      BY <1>3, <2>3, <3>1
  <2>4. CASE p > l /\ q > l
    <3>1. p - l = q - l
      BY <1>4, <1>7, <2>4
    <3>2. QED
      BY <1>2, <3>1
  <2>5. k + 1 \notin 1..k
    BY <1>1
  <2>6. QED
    BY <1>4, <1>5, <1>7, <2>1, <2>2, <2>3, <2>4, <2>5
<1>8. ASSUME NEW i \in 1..(k + 1), NEW m \in 1..Len(ss[i])
      PROVE  \E p \in 1..Len(g) : row2[p] = i /\ col2[p] = m
  <2>1. CASE i = k + 1
    <3>1. m \in 1..Len(s)
      BY <2>1, Zenon DEF s
    <3>2. l + m \in 1..Len(g) /\ l + m > l /\ (l + m) - l = m
      <4> HIDE DEF s
      <4>1. QED
        BY <1>2, <3>1
    <3>3. row2[l + m] = k + 1 /\ col2[l + m] = m
      BY <1>4, <3>2
    <3>4. QED
      BY <2>1, <3>2, <3>3
  <2>2. CASE i # k + 1
    <3>1. i \in 1..k
      BY <1>1, <2>2
    <3>2. PICK p \in 1..l : row[p] = i /\ col[p] = m
      BY <1>3, <3>1
    <3>3. QED
      BY <1>4, <3>2
  <2>3. QED
    BY <2>1, <2>2
<1>9. FlatUpTo(g, ss, k + 1)
  <2>1. /\ \A p \in 1..Len(g) : /\ row2[p] \in 1..(k + 1) /\ col2[p] \in 1..Len(ss[row2[p]])
                                /\ g[p] = ss[row2[p]][col2[p]]
        /\ \A p, q \in 1..Len(g) : row2[p] = row2[q] /\ col2[p] = col2[q] => p = q
        /\ \A i \in 1..(k + 1) : \A m \in 1..Len(ss[i]) :
             \E p \in 1..Len(g) : row2[p] = i /\ col2[p] = m
    BY <1>6, <1>7, <1>8, Zenon
  <2>2. FlatBy(g, ss, k + 1, row2, col2)
    BY <2>1 DEF FlatBy
  <2>3. QED
    BY <2>2 DEF FlatUpTo
<1>10. QED
  BY <1>2, <1>9 DEF g

\* The elements of the sequences, each at one position.
LEMMA FlatElements ==
  ASSUME NEW T, NEW ss \in Seq(Seq(T))
  PROVE  FlattenSeq(ss) \in Seq(T) /\ FlatUpTo(FlattenSeq(ss), ss, Len(ss))
<1>1. Len(ss) \in Nat
  OBVIOUS
<1>2. <<>> \in Seq(T) /\ FlatUpTo(<<>>, ss, 0)
  <2>1. <<>> \in Seq(T) /\ Len(<<>>) = 0 /\ 1..0 = {}
    OBVIOUS
  <2>2. QED
    BY <2>1 DEF FlatUpTo, FlatBy
<1>3. CASE Len(ss) = 0
  <2>1. ss = <<>> /\ FlattenSeq(ss) = ss
    BY <1>3 DEF FlattenSeq
  <2>2. QED
    BY <1>2, <1>3, <2>1
<1>4. CASE Len(ss) # 0
  <2>1. PICK f : Flattening(f, ss, Len(ss)) /\ FlattenSeq(ss) = f[Len(ss)]
    BY <1>1, <1>4, FlattenDefined
  <2> DEFINE N == {k \in Nat : k \in 1..Len(ss) => f[k] \in Seq(T) /\ FlatUpTo(f[k], ss, k)}
  <2>2. 0 \in N
    OBVIOUS
  <2>3. ASSUME NEW k \in Nat, k \in N
        PROVE  k + 1 \in N
    <3>1. SUFFICES ASSUME k + 1 \in 1..Len(ss)
                   PROVE  f[k + 1] \in Seq(T) /\ FlatUpTo(f[k + 1], ss, k + 1)
      OBVIOUS
    <3>2. k \in 0..Len(ss) /\ k + 1 <= Len(ss) /\ (k # 0 => k \in 1..Len(ss)) /\ (k + 1) - 1 = k
      BY <1>1, <3>1
    <3>3. f[k + 1] = IF k + 1 = 1 THEN ss[k + 1] ELSE f[(k + 1) - 1] \o ss[k + 1]
      BY <2>1, <3>1, Zenon DEF Flattening
    <3>4. CASE k = 0
      <4>1. f[k + 1] = <<>> \o ss[k + 1]
        <5>1. ss[k + 1] \in Seq(T)
          BY <3>1
        <5>2. f[k + 1] = ss[k + 1]
          BY <3>3, <3>4
        <5>3. QED
          BY <5>1, <5>2
      <4>2. QED
        BY <1>2, <3>2, <3>4, <4>1, FlatOneMore
    <3>5. CASE k # 0
      <4>1. f[k] \in Seq(T) /\ FlatUpTo(f[k], ss, k)
        BY <2>3, <3>2, <3>5
      <4>2. f[k + 1] = f[k] \o ss[k + 1]
        <5>1. k + 1 # 1
          BY <3>5
        <5>2. QED
          BY <3>2, <3>3, <5>1, Zenon
      <4>3. QED
        BY <3>2, <4>1, <4>2, FlatOneMore
    <3>6. QED
      BY <3>4, <3>5
  <2>4. Len(ss) \in N
    <3> HIDE DEF N
    <3>1. QED
      BY <1>1, <2>2, <2>3, NatSetInduction
  <2>5. QED
    BY <1>1, <1>4, <2>1, <2>4
<1>5. QED
  BY <1>3, <1>4

\* What is in lists one after the other is what is in one of them.
LEMMA FlatList ==
  ASSUME NEW ss, NEW l \in Nat, DOMAIN ss = 1..l, ss = [n \in 1..l |-> ss[n]],
         \A n \in 1..l : ss[n] \in Seq(Range(ss[n]))
  PROVE  LET f == FlattenSeq(ss)
         IN  /\ f \in Seq(Range(f)) /\ FlatUpTo(f, ss, l)
             /\ Range(f) = UNION {Range(ss[n]) : n \in 1..l}
<1> DEFINE f == FlattenSeq(ss)
           T == UNION {Range(ss[n]) : n \in 1..l}
<1>1. ss \in Seq(Seq(T)) /\ Len(ss) = l
  <2>1. ASSUME NEW n \in 1..l
        PROVE  ss[n] \in Seq(T)
    <3>1. ss[n] \in Seq(Range(ss[n])) /\ Range(ss[n]) \subseteq T
      OBVIOUS
    <3> HIDE DEF T
    <3>2. QED
      BY <3>1
  <2> HIDE DEF T
  <2>2. ss \in [1..l -> Seq(T)]
    BY <2>1
  <2>3. QED
    BY <2>2
<1>2. f \in Seq(T) /\ FlatUpTo(f, ss, l)
  <2> HIDE DEF T, f
  <2>1. QED
    BY <1>1, FlatElements DEF f
<1> HIDE DEF f
<1>3. DOMAIN f = 1..Len(f) /\ f \in Seq(Range(f)) /\ Len(f) \in Nat
  <2> HIDE DEF T
  <2>1. \A p \in 1..Len(f) : f[p] \in Range(f)
    BY <1>2 DEF Range
  <2>2. QED
    BY <1>2, <2>1
<1>4. PICK row, col : FlatBy(f, ss, l, row, col)
  BY <1>2, Zenon DEF FlatUpTo
<1>5. ASSUME NEW n \in 1..l
      PROVE  DOMAIN ss[n] = 1..Len(ss[n])
  BY <1>5
<1>6. ASSUME NEW x \in Range(f)
      PROVE  x \in T
  <2>1. PICK p \in 1..Len(f) : x = f[p]
    BY <1>3 DEF Range
  <2>2. row[p] \in 1..l /\ col[p] \in 1..Len(ss[row[p]]) /\ f[p] = ss[row[p]][col[p]]
    BY <1>4 DEF FlatBy
  <2>3. x \in Range(ss[row[p]])
    BY <1>5, <2>1, <2>2 DEF Range
  <2>4. QED
    BY <2>2, <2>3
<1>7. ASSUME NEW x \in T
      PROVE  x \in Range(f)
  <2>1. PICK n \in 1..l : x \in Range(ss[n])
    OBVIOUS
  <2>2. PICK m \in 1..Len(ss[n]) : x = ss[n][m]
    BY <1>5, <2>1 DEF Range
  <2>3. PICK p \in 1..Len(f) : row[p] = n /\ col[p] = m
    BY <1>4 DEF FlatBy
  <2>4. x = f[p]
    BY <1>4, <2>2, <2>3 DEF FlatBy
  <2>5. QED
    BY <1>3, <2>4 DEF Range
<1>8. QED
  BY <1>2, <1>3, <1>6, <1>7 DEF f

---------------------------------------------------------------------------
(* Quotas and the row in focus.                                            *)

\* Of some positions, the first of those with the least number.
LEMMA FirstLeast ==
  ASSUME NEW l \in Nat, l # 0, NEW f, \A n \in 1..l : f[n] \in Nat
  PROVE  \E m \in 1..l : \A n \in 1..l : f[m] < f[n] \/ (f[m] = f[n] /\ m <= n)
<1> DEFINE V == {f[n] : n \in 1..l}
<1>1. V \in SUBSET Nat /\ f[1] \in V
  OBVIOUS
<1>2. PICK v \in V : \A x \in V : v <= x
  <2> HIDE DEF V
  <2>1. QED
    BY <1>1, LeastNat
<1> DEFINE P == {n \in 1..l : f[n] = v}
<1>3. P \in SUBSET Nat /\ P # {}
  BY <1>2
<1>4. PICK m \in P : \A n \in P : m <= n
  <2> HIDE DEF P
  <2>1. QED
    BY <1>3, LeastNat
<1>5. ASSUME NEW n \in 1..l
      PROVE  f[m] < f[n] \/ (f[m] = f[n] /\ m <= n)
  <2>1. f[m] = v /\ v <= f[n] /\ v \in Nat /\ f[n] \in Nat
    BY <1>2
  <2>2. CASE f[n] = v
    BY <1>4, <2>1, <2>2
  <2>3. CASE f[n] # v
    BY <2>1, <2>3
  <2>4. QED
    BY <2>2, <2>3
<1>6. QED
  BY <1>5

\* buildDeepSeekQuota shows one of the quotas, when their windows are those it knows.
LEMMA FirstWindowShown ==
  ASSUME NEW S, NEW items \in Seq(S),
         \A i \in Range(items) :
           i.category = "product_quota" => i.window \in {"daily", "weekly", "monthly", "balance"}
  PROVE  \/ DeepSeekQuota(items) = Missing
         \/ \E i \in Range(items) : i.category = "product_quota" /\ DeepSeekQuota(items) = i
<1> DEFINE T == {n \in DOMAIN items : items[n].category = "product_quota" /\ items[n].product = "deepseek"}
           quotas == Picked(items, T)
           c == Cardinality(T)
           P(n) == WindowPriority[quotas[n].window]
           before(m, n) == (P(m) < P(n)) \/ (quotas[m].window = quotas[n].window /\ m <= n)
<1>1. /\ c \in Nat /\ DOMAIN quotas = 1..c
      /\ \A n \in 1..c : quotas[n] \in Range(items) /\ quotas[n].category = "product_quota"
  <2>1. DOMAIN items = 1..Len(items) /\ Len(items) \in Nat /\ T \in SUBSET (1..Len(items))
    OBVIOUS
  <2>2. \A k \in T : items[k] \in Range(items) /\ items[k].category = "product_quota"
    BY DEF Range
  <2> HIDE DEF T
  <2>3. T \in SUBSET Nat /\ IsFiniteSet(T)
    BY <2>1, Within
  <2>4. c \in Nat /\ DOMAIN quotas = 1..c /\ Range(quotas) = {items[k] : k \in T}
    BY <2>3, PickedRange
  <2> HIDE DEF quotas, c
  <2>5. \A n \in 1..c : quotas[n] \in Range(quotas)
    BY <2>4 DEF Range
  <2>6. QED
    BY <2>2, <2>4, <2>5
<1>2. DeepSeekQuota(items) =
        IF quotas = <<>> THEN Missing
        ELSE quotas[CHOOSE m \in DOMAIN quotas : \A n \in DOMAIN quotas : before(m, n)]
  BY DEF DeepSeekQuota, OfProduct
<1> HIDE DEF quotas, c
<1>3. CASE c = 0
  <2>1. quotas = <<>>
    <3>1. DOMAIN quotas = {}
      BY <1>1, <1>3
    <3>2. quotas = [n \in {} |-> 0]
      <4>1. quotas = [n \in 1..c |-> quotas[n]]
        BY <1>1 DEF quotas, Picked
      <4>2. QED
        BY <1>3, <4>1
    <3>3. QED
      BY <3>2
  <2>2. QED
    BY <1>2, <2>1
<1>4. CASE c # 0
  <2> DEFINE f == [n \in 1..c |-> P(n)]
  <2>1. \A n \in 1..c : /\ quotas[n].window \in {"daily", "weekly", "monthly", "balance"}
                         /\ P(n) \in Nat /\ \A m \in 1..c : P(m) = P(n) => quotas[m].window = quotas[n].window
    <3>1. \A n \in 1..c : quotas[n].window \in {"daily", "weekly", "monthly", "balance"}
      BY <1>1
    <3>2. QED
      BY <3>1 DEF WindowPriority
  <2>2. PICK m \in 1..c : \A n \in 1..c : f[m] < f[n] \/ (f[m] = f[n] /\ m <= n)
    <3>1. \A n \in 1..c : f[n] \in Nat
      BY <2>1
    <3> HIDE DEF f
    <3>2. QED
      BY <1>1, <1>4, <3>1, FirstLeast
  <2>3. \A n \in DOMAIN quotas : before(m, n)
    <3> TAKE n \in DOMAIN quotas
    <3>1. P(m) < P(n) \/ (P(m) = P(n) /\ m <= n)
      BY <1>1, <2>2
    <3> HIDE DEF P
    <3>2. QED
      BY <1>1, <2>1, <3>1
  <2>4. m \in DOMAIN quotas
    BY <1>1
  <2> HIDE DEF before
  <2> DEFINE at == CHOOSE k \in DOMAIN quotas : \A n \in DOMAIN quotas : before(k, n)
  <2>5. at \in DOMAIN quotas
    BY <2>3, <2>4
  <2>6. quotas # <<>>
    BY <2>4
  <2>7. DeepSeekQuota(items) = quotas[at]
    BY <1>2, <2>6
  <2> HIDE DEF at
  <2>8. QED
    BY <1>1, <2>5, <2>7
<1>5. QED
  BY <1>3, <1>4

\* A row whose cells are percentages, or "--".
Percents(row) == row.five \in 0..100 \cup {Missing} /\ row.week \in 0..100 \cup {Missing}

LEMMA RowBounds ==
  ASSUME NEW row, Percents(row)
  PROVE  Severity(row) \in 1..5 /\ Floor(row) \in 0..100
<1>1. Severity(row) \in 1..5
  BY DEF Severity
<1> DEFINE a == Percent(row.five)
           b == Percent(row.week)
<1>2. a \in 0..100 /\ b \in 0..100
  BY CellConstants DEF Percents, Percent
<1> HIDE DEF a, b
<1>3. PICK m \in {a, b} : \A y \in {a, b} : m <= y
  BY <1>2
<1>4. Min({a, b}) \in {a, b}
  BY <1>3 DEF Min
<1>5. QED
  BY <1>1, <1>2, <1>4 DEF Floor, a, b

\* pickFocusQuotaRow: the row in focus is one of the rows, and none of them is worse.
LEMMA FocusIsWorst ==
  ASSUME NEW rows, NEW l \in Nat, l # 0, DOMAIN rows = 1..l, \A n \in 1..l : Percents(rows[n])
  PROVE  \E n \in 1..l : FocusRow(rows) = rows[n] /\ \A m \in 1..l : ~Worse(rows[m], rows[n])
<1> DEFINE s(n) == Severity(rows[n])
           p(n) == Floor(rows[n])
           f == [n \in 1..l |-> 101 * (5 - s(n)) + p(n)]
           W == {n \in DOMAIN rows : \A m \in DOMAIN rows : ~Worse(rows[m], rows[n])}
<1>1. \A n \in 1..l : s(n) \in 1..5 /\ p(n) \in 0..100
  BY RowBounds
<1>2. \A n, m \in 1..l : Worse(rows[m], rows[n]) <=> (s(m) > s(n) \/ (s(m) = s(n) /\ p(m) < p(n)))
  BY DEF Worse
<1> HIDE DEF s, p
<1>3. \A n \in 1..l : f[n] \in Nat
  <2>1. \A a \in 1..5, b \in 0..100 : 101 * (5 - a) + b \in Nat
    OBVIOUS
  <2>2. QED
    BY <1>1, <2>1
<1>4. PICK k \in 1..l : \A n \in 1..l : f[k] < f[n] \/ (f[k] = f[n] /\ k <= n)
  <2> HIDE DEF f
  <2>1. QED
    BY <1>3, FirstLeast
<1>5. k \in W
  <2>1. ASSUME NEW m \in 1..l
        PROVE  ~(s(m) > s(k) \/ (s(m) = s(k) /\ p(m) < p(k)))
    <3>1. 101 * (5 - s(k)) + p(k) <= 101 * (5 - s(m)) + p(m)
      <4>1. f[k] \in Nat /\ f[m] \in Nat /\ f[k] <= f[m]
        <5> HIDE DEF f
        <5>1. QED
          BY <1>3, <1>4
      <4>2. f[k] = 101 * (5 - s(k)) + p(k) /\ f[m] = 101 * (5 - s(m)) + p(m)
        OBVIOUS
      <4>3. QED
        BY <4>1, <4>2
    <3>2. s(k) \in 1..5 /\ s(m) \in 1..5 /\ p(k) \in 0..100 /\ p(m) \in 0..100
      BY <1>1
    <3>3. \A a, c \in 1..5, b, d \in 0..100 :
            101 * (5 - a) + b <= 101 * (5 - c) + d => ~(c > a \/ (c = a /\ d < b))
      OBVIOUS
    <3>4. QED
      BY <3>1, <3>2, <3>3
  <2>2. QED
    BY <1>2, <2>1
<1>6. W \in SUBSET Nat /\ W \subseteq 1..l
  OBVIOUS
<1>7. PICK n \in W : \A m \in W : n <= m
  <2> HIDE DEF W
  <2>1. QED
    BY <1>5, <1>6, LeastNat
<1>8. Min(W) \in W
  <2> HIDE DEF W
  <2>1. QED
    BY <1>7 DEF Min
<1>9. FocusRow(rows) = rows[Min(W)]
  <2>1. rows # <<>>
    BY <1>4
  <2>2. QED
    BY <2>1 DEF FocusRow
<1>10. \A m \in 1..l : ~Worse(rows[m], rows[Min(W)])
  BY <1>8
<1> HIDE DEF W
<1>11. QED
  BY <1>6, <1>8, <1>9, <1>10

\* Positions by the value at them, equal ones in their order.
Before(p, m, n) == p[m] < p[n] \/ (p[m] = p[n] /\ m <= n)

RankBy(p, l, n) == Cardinality({m \in 1..l : Before(p, m, n)})

\* Each position has a rank of its own, and the value at the first rank is the least.
LEMMA OrderRanks ==
  ASSUME NEW l \in Nat, NEW p, \A n \in 1..l : p[n] \in Nat
  PROVE  /\ \A k \in 1..l : \E m \in 1..l : RankBy(p, l, m) = k
         /\ \A m, n \in 1..l : RankBy(p, l, m) = 1 => p[m] <= p[n]
<1> DEFINE B(n) == {m \in 1..l : Before(p, m, n)}
           rank == [n \in 1..l |-> Cardinality(B(n))]
<1>1. IsFiniteSet(1..l) /\ Cardinality(1..l) = l
  BY FS_Interval
<1>2. ASSUME NEW n \in 1..l
      PROVE  /\ n \in B(n) /\ B(n) \in SUBSET (1..l) /\ IsFiniteSet(B(n))
             /\ Cardinality(B(n)) \in 1..l
  <2>1. n \in B(n) /\ B(n) \in SUBSET (1..l)
    BY DEF Before
  <2> HIDE DEF B
  <2>2. IsFiniteSet(B(n)) /\ Cardinality(B(n)) <= l /\ Cardinality(B(n)) \in Nat
    BY <1>1, <2>1, FS_Subset, FS_CardinalityType
  <2>3. Cardinality(B(n)) # 0
    BY <2>1, <2>2, FS_EmptySet
  <2>4. QED
    BY <2>1, <2>2, <2>3
<1>3. \A m, n \in 1..l : m # n => \/ m \in B(n) /\ n \notin B(m)
                                  \/ n \in B(m) /\ m \notin B(n)
  BY DEF Before
<1>4. ASSUME NEW m \in 1..l, NEW n \in 1..l, m \in B(n), n \notin B(m)
      PROVE  Cardinality(B(m)) < Cardinality(B(n))
  <2>1. B(m) \subseteq B(n)
    BY <1>4 DEF Before
  <2>2. n \in B(n) /\ IsFiniteSet(B(n))
    BY <1>2
  <2>3. B(m) \in SUBSET B(n) /\ B(m) # B(n)
    BY <1>4, <2>1, <2>2
  <2>4. /\ Cardinality(B(m)) \in Nat /\ Cardinality(B(n)) \in Nat
        /\ Cardinality(B(m)) <= Cardinality(B(n)) /\ Cardinality(B(m)) # Cardinality(B(n))
    <3> HIDE DEF B
    <3>1. IsFiniteSet(B(m)) /\ Cardinality(B(m)) <= Cardinality(B(n))
          /\ (Cardinality(B(m)) = Cardinality(B(n)) => B(m) = B(n))
      BY <2>2, <2>3, FS_Subset
    <3>2. QED
      BY <2>2, <2>3, <3>1, FS_CardinalityType
  <2> HIDE DEF B
  <2>5. QED
    BY <2>4
<1>5. \A n \in 1..l : rank[n] = RankBy(p, l, n)
  BY DEF RankBy
<1>6. \A m, n \in 1..l : rank[m] = rank[n] => m = n
  <2> SUFFICES ASSUME NEW m \in 1..l, NEW n \in 1..l, m # n
               PROVE  rank[m] # rank[n]
    OBVIOUS
  <2>1. Cardinality(B(m)) \in Nat /\ Cardinality(B(n)) \in Nat
    <3> HIDE DEF B
    <3>1. Cardinality(B(m)) \in 1..l /\ Cardinality(B(n)) \in 1..l
      BY <1>2
    <3>2. QED
      BY <3>1
  <2>2. Cardinality(B(m)) < Cardinality(B(n)) \/ Cardinality(B(n)) < Cardinality(B(m))
    <3> HIDE DEF B
    <3>1. QED
      BY <1>3, <1>4
  <2> HIDE DEF B
  <2>3. QED
    BY <2>1, <2>2
<1>7. rank \in [1..l -> 1..l]
  <2> HIDE DEF B
  <2>1. QED
    BY <1>2
<1> HIDE DEF rank
<1>8. rank \in Surjection(1..l, 1..l)
  <2>1. rank \in Injection(1..l, 1..l)
    BY <1>6, <1>7 DEF Injection, IsInjective
  <2>2. QED
    BY <1>1, <2>1, FS_Injection
<1>9. \A k \in 1..l : \E m \in 1..l : rank[m] = k
  BY <1>8 DEF Surjection
<1>10. ASSUME NEW m \in 1..l, NEW n \in 1..l, RankBy(p, l, m) = 1
       PROVE  p[m] <= p[n]
  <2>1. Cardinality(B(m)) = 1
    BY <1>10 DEF RankBy
  <2>2. CASE m = n
    BY <2>2
  <2>3. CASE m # n /\ n \in B(m)
    <3>1. Cardinality(B(n)) < Cardinality(B(m)) /\ Cardinality(B(n)) \in 1..l
      <4> HIDE DEF B
      <4>1. QED
        BY <1>2, <1>3, <1>4, <2>3
    <3> HIDE DEF B
    <3>2. QED
      BY <2>1, <3>1
  <2>4. CASE m # n /\ n \notin B(m)
    <3>1. m \in B(n)
      BY <1>3, <2>4
    <3>2. QED
      BY <3>1 DEF Before
  <2>5. QED
    BY <2>2, <2>3, <2>4
<1>11. QED
  BY <1>5, <1>9, <1>10

\* The percentage an alert names.
LEMMA AlertsOfRow ==
  ASSUME NEW row, Percents(row)
  PROVE  /\ AlertsOf(row) \in Seq(Range(AlertsOf(row)))
         /\ \A a \in Range(AlertsOf(row)) : a.percent \in Nat
<1>1. AlertsOf(row) = <<>> \/ \E p \in Nat, c \in BOOLEAN : AlertsOf(row) = <<Alert(row.account, p, c)>>
  <2>1. CASE Unknown(row)
    <3>1. AlertsOf(row) = <<Alert(row.account, 101, FALSE)>>
      BY <2>1 DEF AlertsOf, NoPercent
    <3>2. QED
      BY <3>1
  <2>2. CASE ~Unknown(row)
    <3>1. row.week \in Nat /\ row.five \in Nat
      BY <2>2 DEF Percents, Unknown
    <3>2. \/ AlertsOf(row) = <<Alert(row.account, row.week, TRUE)>>
          \/ AlertsOf(row) = <<Alert(row.account, row.five, FALSE)>> \/ AlertsOf(row) = <<>>
      BY <2>2 DEF AlertsOf
    <3>3. QED
      BY <3>1, <3>2
  <2>3. QED
    BY <2>1, <2>2
<1>2. CASE AlertsOf(row) = <<>>
  BY <1>2 DEF Range
<1>3. ASSUME NEW p \in Nat, NEW c \in BOOLEAN, AlertsOf(row) = <<Alert(row.account, p, c)>>
      PROVE  /\ AlertsOf(row) \in Seq(Range(AlertsOf(row)))
             /\ \A a \in Range(AlertsOf(row)) : a.percent \in Nat
  <2> DEFINE x == Alert(row.account, p, c)
  <2>1. x.percent = p
    BY DEF Alert
  <2> HIDE DEF x
  <2>2. <<x>> \in Seq({x}) /\ DOMAIN <<x>> = {1} /\ <<x>>[1] = x
    OBVIOUS
  <2>3. Range(<<x>>) = {x}
    BY <2>2 DEF Range
  <2>4. QED
    BY <1>3, <2>1, <2>2, <2>3 DEF x
<1>4. QED
  BY <1>1, <1>2, <1>3

\* mergeDashboardAlerts: the alert with the least percentage is the first.
LEMMA LeastAlertFirst ==
  ASSUME NEW rows, NEW l \in Nat, DOMAIN rows = 1..l, \A n \in 1..l : Percents(rows[n])
  PROVE  \A n \in DOMAIN Alerts(rows) : Alerts(rows)[1].percent <= Alerts(rows)[n].percent
<1> DEFINE ss == [n \in DOMAIN rows |-> AlertsOf(rows[n])]
           raised == FlattenSeq(ss)
           c == Len(raised)
           p == [n \in 1..c |-> raised[n].percent]
           before(m, n) == \/ raised[m].percent < raised[n].percent
                           \/ raised[m].percent = raised[n].percent /\ m <= n
           rank(n) == Cardinality({m \in DOMAIN raised : before(m, n)})
           at(k) == CHOOSE m \in DOMAIN raised : rank(m) = k
<1>1. /\ DOMAIN ss = 1..l /\ ss = [n \in 1..l |-> ss[n]]
      /\ \A n \in 1..l : /\ ss[n] \in Seq(Range(ss[n]))
                         /\ \A a \in Range(ss[n]) : a.percent \in Nat
  BY AlertsOfRow
<1> HIDE DEF ss
<1>2. raised \in Seq(Range(raised)) /\ Range(raised) = UNION {Range(ss[n]) : n \in 1..l}
  BY <1>1, FlatList
<1> HIDE DEF raised
<1>3. c \in Nat /\ DOMAIN raised = 1..c /\ \A n \in 1..c : raised[n] \in Range(raised)
  BY <1>2 DEF Range
<1> HIDE DEF c
<1>4. \A n \in 1..c : p[n] = raised[n].percent /\ p[n] \in Nat
  <2>1. \A a \in Range(raised) : a.percent \in Nat
    BY <1>1, <1>2
  <2>2. QED
    BY <1>3, <2>1
<1>5. Alerts(rows) = [n \in DOMAIN raised |-> raised[at(n)]]
  BY DEF Alerts, raised, ss
<1>6. \A m \in 1..c : rank(m) = RankBy(p, c, m)
  <2> TAKE m \in 1..c
  <2>1. {k \in DOMAIN raised : before(k, m)} = {k \in 1..c : Before(p, k, m)}
    BY <1>3, <1>4 DEF Before
  <2>2. QED
    BY <2>1 DEF RankBy
<1> HIDE DEF p, rank
<1>7. /\ \A k \in 1..c : \E m \in 1..c : RankBy(p, c, m) = k
      /\ \A m, n \in 1..c : RankBy(p, c, m) = 1 => p[m] <= p[n]
  BY <1>3, <1>4, OrderRanks
<1>8. \A k \in 1..c : at(k) \in 1..c /\ RankBy(p, c, at(k)) = k
  <2>1. \A k \in 1..c : \E m \in DOMAIN raised : rank(m) = k
    BY <1>3, <1>6, <1>7
  <2>2. QED
    BY <1>3, <1>6, <2>1
<1> HIDE DEF at
<1>9. ASSUME NEW n \in 1..c
      PROVE  raised[at(1)].percent <= raised[at(n)].percent
  <2>1. 1 \in 1..c
    BY <1>3
  <2>2. QED
    BY <1>4, <1>7, <1>8, <2>1
<1>10. QED
  BY <1>3, <1>5, <1>9

---------------------------------------------------------------------------
(* Totals.                                                                 *)

\* The total of what is picked is the sum over the positions it is picked from.
LEMMA TotalPicked ==
  ASSUME NEW list, NEW T \in SUBSET Nat, IsFiniteSet(T), \A k \in T : list[k].value \in Nat
  PROVE  Total(Picked(list, T)) = SumFunctionOnSet([k \in T |-> list[k].value], T)
<1> DEFINE c == Cardinality(T)
           p == Picked(list, T)
           v == [n \in DOMAIN p |-> p[n].value]
           w == [k \in T |-> list[k].value]
           D == 1..c
<1>1. c \in Nat /\ DOMAIN p = D
  BY PickedRange
<1>2. PICK at : /\ \A n \in D : at[n] \in T /\ p[n] = list[at[n]]
                /\ \A n, m \in D : at[n] = at[m] => n = m
                /\ \A k \in T : \E n \in D : at[n] = k
  BY PickedAt
<1> HIDE DEF p
<1>3. Total(p) = SumFunction(v) /\ DOMAIN v = D
  BY <1>1 DEF Total
<1>4. \A n \in D : v[n] = w[at[n]] /\ v[n] \in Nat
  BY <1>1, <1>2
<1>5. \A k \in T : w[k] \in Nat
  OBVIOUS
<1> HIDE DEF v, w
<1>6. SumFunction(v) = SumFunctionOnSet(v, D)
  BY <1>3, SumOfAll
<1>7. IsFiniteSet(D)
  <2> HIDE DEF c
  <2>1. QED
    BY <1>1, FS_Interval
<1> HIDE DEF c, D
<1>8. SumFunctionOnSet(v, D) \in Nat /\ SumFunctionOnSet(w, T) \in Nat
  BY <1>4, <1>5, <1>7, SumIsNat
<1>9. SumFunctionOnSet(v, D) <= SumFunctionOnSet(w, T)
  <2>1. \A n \in D : v[n] \in Int /\ at[n] \in T /\ v[n] <= w[at[n]]
    BY <1>2, <1>4, <1>5
  <2>2. QED
    BY <1>2, <1>5, <1>7, <2>1, SumWithin
<1>10. SumFunctionOnSet(w, T) <= SumFunctionOnSet(v, D)
  <2> DEFINE h == [k \in T |-> CHOOSE n \in D : at[n] = k]
  <2>1. \A k \in T : h[k] \in D /\ at[h[k]] = k
    BY <1>2
  <2> HIDE DEF h
  <2>2. \A k \in T : w[k] \in Int /\ h[k] \in D /\ w[k] <= v[h[k]]
    BY <1>4, <1>5, <2>1
  <2>3. \A j, k \in T : h[j] = h[k] => j = k
    BY <2>1
  <2>4. \A n \in D : v[n] \in Nat
    BY <1>4
  <2>5. QED
    BY <1>7, <2>2, <2>3, <2>4, SumWithin
<1>11. QED
  BY <1>3, <1>6, <1>8, <1>9, <1>10 DEF p, w

\* The positions of a product's items.
OfItems(list, category, product) ==
  {n \in DOMAIN list : list[n].category = category /\ list[n].product = product}

\* The items of a product, in their order.
LEMMA ItemsOfProduct ==
  ASSUME NEW S, NEW list \in Seq(S), NEW category, NEW product
  PROVE  LET T == OfItems(list, category, product)
             q == OfProduct(list, category, product)
         IN  /\ T \in SUBSET Nat /\ IsFiniteSet(T) /\ q = Picked(list, T) /\ q \in Seq(Range(q))
             /\ (q = <<>> <=> T = {}) /\ Range(q) = {list[n] : n \in T}
<1> DEFINE T == OfItems(list, category, product)
           q == OfProduct(list, category, product)
           l == Len(list)
<1>1. l \in Nat /\ DOMAIN list = 1..l
  OBVIOUS
<1>2. T \in SUBSET (1..l)
  BY <1>1 DEF OfItems
<1>3. q = Picked(list, T)
  BY DEF OfProduct, OfItems
<1> HIDE DEF T
<1>4. T \in SUBSET Nat /\ IsFiniteSet(T)
  BY <1>1, <1>2, Within
<1> DEFINE c == Cardinality(T)
<1>5. c \in Nat /\ DOMAIN q = 1..c /\ Range(q) = {list[n] : n \in T}
  BY <1>3, <1>4, PickedRange
<1>6. q \in Seq(Range(q))
  <2>1. \A n \in T : list[n] \in Range(q)
    BY <1>5
  <2>2. QED
    BY <1>3, <1>4, <2>1, PickedSequence
<1> HIDE DEF q
<1>7. c = 0 <=> T = {}
  BY <1>4, FS_EmptySet
<1>8. q = <<>> <=> T = {}
  BY <1>5, <1>6, <1>7
<1>9. QED
  BY <1>3, <1>4, <1>5, <1>6, <1>8 DEF q, T

\* A figure is the sum of the items it is made of, when each of them has a value.
LEMMA FigureIsSum ==
  ASSUME NEW S, NEW list \in Seq(S), NEW category, NEW product,
         \A n \in OfItems(list, category, product) : list[n].value \in Nat
  PROVE  LET T == OfItems(list, category, product)
             q == OfProduct(list, category, product)
         IN  /\ (Parsed(q) = <<>> <=> T = {})
             /\ Total(q) = SumFunctionOnSet([n \in T |-> list[n].value], T)
             /\ Total(Parsed(q)) = Total(q)
<1> DEFINE T == OfItems(list, category, product)
           q == OfProduct(list, category, product)
           c == Cardinality(T)
           D == 1..c
<1>3. /\ T \in SUBSET Nat /\ IsFiniteSet(T) /\ q = Picked(list, T) /\ q \in Seq(Range(q))
      /\ (q = <<>> <=> T = {}) /\ Range(q) = {list[n] : n \in T}
  BY ItemsOfProduct
<1>4. \A n \in T : list[n].value \in Nat
  OBVIOUS
<1> HIDE DEF T
<1>5. T \in SUBSET Nat /\ IsFiniteSet(T)
  BY <1>3
<1> HIDE DEF q
<1>6. c \in Nat /\ DOMAIN q = D /\ Range(q) = {list[n] : n \in T}
  BY <1>3, PickedRange
<1>8. Total(q) = SumFunctionOnSet([n \in T |-> list[n].value], T)
  BY <1>3, <1>4, <1>5, TotalPicked
<1>9. \A i \in Range(q) : i.value \in Nat
  BY <1>4, <1>6
<1>10. \A n \in D : q[n].value \in Nat
  BY <1>6, <1>9 DEF Range
<1>11. D \in SUBSET Nat /\ IsFiniteSet(D)
  BY <1>6, FS_Interval
<1>12. Parsed(q) = Picked(q, D)
  <2>1. {n \in DOMAIN q : q[n].value # Missing} = D
    BY <1>6, <1>10, CellConstants
  <2>2. QED
    BY <2>1 DEF Parsed
<1>13. c = 0 <=> T = {}
  BY <1>5, FS_EmptySet
<1>15. Parsed(q) = <<>> <=> T = {}
  <2> DEFINE s == Parsed(q)
  <2>1. s \in Seq(Range(q))
    <3>1. \A n \in D : q[n] \in Range(q)
      BY <1>6 DEF Range
    <3> HIDE DEF D
    <3>2. QED
      BY <1>11, <1>12, <3>1, PickedSequence
  <2>2. DOMAIN s = 1..Cardinality(D) /\ Cardinality(D) = c
    <3>1. Cardinality(D) = c
      BY <1>6, FS_Interval
    <3> HIDE DEF D
    <3>2. QED
      BY <1>11, <1>12, <3>1, PickedRange
  <2> HIDE DEF s
  <2>3. s = <<>> <=> c = 0
    BY <1>6, <2>1, <2>2
  <2>4. QED
    BY <1>13, <2>3 DEF s
<1>16. Total(Parsed(q)) = Total(q)
  <2> DEFINE v == [n \in D |-> q[n].value]
  <2>1. Total(Picked(q, D)) = SumFunctionOnSet(v, D)
    <3> HIDE DEF D
    <3>1. QED
      BY <1>10, <1>11, TotalPicked
  <2>2. Total(q) = SumFunction(v) /\ DOMAIN v = D
    BY <1>6 DEF Total
  <2> HIDE DEF v, D
  <2>3. QED
    BY <1>12, <2>1, <2>2, SumOfAll
<1>17. QED
  BY <1>8, <1>15, <1>16 DEF q, T
=============================================================================
