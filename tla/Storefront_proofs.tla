--------------------------- MODULE Storefront_proofs ---------------------------
(***************************************************************************)
(* Theorems about Storefront, for any finite catalogue, addresses, page    *)
(* size and number of requests under way.                                  *)
(***************************************************************************)
EXTENDS Storefront, SetInduction, FiniteSetTheorems

-----------------------------------------------------------------------------
(* The orders of a list.                                                    *)

\* The watches that match a query are finitely many, and their order in the list
\* names each of them once.
LEMMA OrdersName ==
    ASSUME NEW q
    PROVE  LET n == Cardinality(Matches(q))
           IN  /\ Matches(q) \subseteq Watch /\ n \in Nat /\ n <= Cardinality(Watch)
               /\ Cardinality(Watch) \in Nat
               /\ \A s \in Orders(q) : /\ s \in [1..n -> Matches(q)]
                                       /\ \A i, j \in 1..n : s[i] = s[j] => i = j
                                       /\ \A w \in Matches(q) : \E i \in 1..n : s[i] = w
<1> DEFINE M == Matches(q)
           n == Cardinality(M)
<1>1. M \in SUBSET Watch /\ IsFiniteSet(Watch)
  BY WatchAssumption DEF Matches
<1>2. IsFiniteSet(M) /\ n <= Cardinality(Watch)
  BY <1>1, FS_Subset
<1>3. n \in Nat /\ Cardinality(Watch) \in Nat
  BY <1>1, <1>2, FS_CardinalityType
<1>4. ASSUME NEW s \in Orders(q)
      PROVE  /\ s \in [1..n -> M]
             /\ \A i, j \in 1..n : s[i] = s[j] => i = j
             /\ \A w \in M : \E i \in 1..n : s[i] = w
  <2>1. s \in [1..n -> M] /\ \A i, j \in 1..n : i < j => s[i] # s[j]
    BY DEF Orders
  <2> HIDE DEF M
  <2>2. \A i, j \in 1..n : s[i] = s[j] => i = j
    BY <1>3, <2>1
  <2>3. s \in Injection(1..n, M)
    BY <2>1, <2>2 DEF Injection, IsInjective
  <2>4. Cardinality(1..n) = n
    BY <1>3, FS_Interval
  <2>5. s \in Surjection(1..n, M)
    BY <1>2, <2>3, <2>4, FS_Injection
  <2> QED BY <2>1, <2>2, <2>5 DEF Surjection
<1> QED BY <1>1, <1>2, <1>3, <1>4

-----------------------------------------------------------------------------
(* The list in the order of the ids, the newest watch first.                *)

Newer(q, w) == {v \in Matches(q) : v > w}
Place(q, w) == Cardinality(Newer(q, w)) + 1

\* Two watches have two places, the newer one the lower.
LEMMA Places ==
    ASSUME NEW q
    PROVE  /\ \A w \in Matches(q) : Place(q, w) \in 1..Cardinality(Matches(q))
           /\ \A v, w \in Matches(q) : v < w => Place(q, w) < Place(q, v)
           /\ \A v, w \in Matches(q) : Place(q, v) = Place(q, w) => v = w
<1> DEFINE M == Matches(q)
<1>1. /\ IsFiniteSet(M) /\ \A w \in M : w \in Nat
      /\ \A v, w : v \in Newer(q, w) <=> v \in M /\ v > w
  BY WatchAssumption, FS_Subset DEF Matches, Newer
<1> HIDE DEF M
<1>2. ASSUME NEW w \in M
      PROVE  /\ Newer(q, w) \subseteq M /\ w \notin Newer(q, w)
             /\ IsFiniteSet(Newer(q, w)) /\ Cardinality(Newer(q, w)) \in Nat
  <2>1. Newer(q, w) \subseteq M /\ w \notin Newer(q, w)
    BY <1>1
  <2> QED BY <1>1, <2>1, FS_Subset, FS_CardinalityType
<1>3. ASSUME NEW w \in M
      PROVE  Place(q, w) \in 1..Cardinality(M)
  <2>1. Cardinality(M) \in Nat
    BY <1>1, FS_CardinalityType
  <2>2. Newer(q, w) # M
    BY <1>2
  <2>3. Cardinality(Newer(q, w)) <= Cardinality(M) /\ Cardinality(Newer(q, w)) # Cardinality(M)
    BY <1>1, <1>2, <2>2, FS_Subset
  <2> QED BY <1>2, <2>1, <2>3 DEF Place
<1>4. ASSUME NEW v \in M, NEW w \in M, v < w
      PROVE  Place(q, w) < Place(q, v)
  <2>1. Newer(q, w) \subseteq Newer(q, v) /\ w \in Newer(q, v)
    BY <1>1, <1>4
  <2>2. Newer(q, w) # Newer(q, v)
    BY <1>2, <2>1
  <2>3. /\ Cardinality(Newer(q, w)) <= Cardinality(Newer(q, v))
        /\ Cardinality(Newer(q, w)) # Cardinality(Newer(q, v))
    BY <1>2, <2>1, <2>2, FS_Subset
  <2> QED BY <1>2, <2>3 DEF Place
<1>5. ASSUME NEW v \in M, NEW w \in M, Place(q, v) = Place(q, w)
      PROVE  v = w
  <2>1. /\ v \in Nat /\ w \in Nat
        /\ Place(q, v) \in Int /\ Place(q, w) \in Int
    BY <1>1, <1>3
  <2>2. ~(v < w) /\ ~(w < v)
    BY <1>4, <1>5, <2>1
  <2> QED BY <2>1, <2>2
<1> QED BY <1>3, <1>4, <1>5 DEF M

\* The list of the ids has its watches at their places.
LEMMA NewestFirst ==
    ASSUME NEW q, q.sort = "id"
    PROVE  /\ Orders(q) # {}
           /\ \A s \in Orders(q) : \A i \in 1..Cardinality(Matches(q)) : Place(q, s[i]) = i
<1> DEFINE M == Matches(q)
           n == Cardinality(M)
<1>1. n \in Nat /\ IsFiniteSet(M) /\ \A w \in M : w \in Nat
  BY OrdersName, WatchAssumption, FS_Subset
<1>2. \A v, w : Before(q.sort, v, w) <=> v > w
  BY DEF Before
<1>3. ASSUME NEW s \in Orders(q), NEW i \in 1..n
      PROVE  Place(q, s[i]) = i
  <2>1. /\ s \in [1..n -> M]
        /\ \A j, k \in 1..n : s[j] = s[k] => j = k
        /\ \A w \in M : \E j \in 1..n : s[j] = w
    BY OrdersName
  <2>2. \A j, k \in 1..n : j < k => s[j] > s[k]
    <3>1. \A j, k \in 1..n : j < k => s[j] # s[k] /\ ~(s[k] > s[j])
      BY <1>2 DEF Orders
    <3> HIDE DEF M, n
    <3> QED BY <1>1, <2>1, <3>1
  <2> HIDE DEF M, n
  <2>3. \A j \in 1..n : s[j] > s[i] <=> j < i
    BY <1>1, <2>1, <2>2
  <2>4. Newer(q, s[i]) = {w \in M : w > s[i]}
    BY DEF Newer, M
  <2> DEFINE f == [j \in 1..(i - 1) |-> s[j]]
  <2>5. f \in [1..(i - 1) -> Newer(q, s[i])]
    BY <1>1, <2>1, <2>3, <2>4
  <2>6. \A j, k \in 1..(i - 1) : f[j] = f[k] => j = k
    BY <1>1, <2>1
  <2>7. \A w \in Newer(q, s[i]) : \E j \in 1..(i - 1) : f[j] = w
    <3> TAKE w \in Newer(q, s[i])
    <3>1. w \in M /\ w > s[i]
      BY <2>4
    <3>2. PICK j \in 1..n : s[j] = w
      BY <2>1, <3>1
    <3>3. j \in 1..(i - 1)
      BY <1>1, <2>3, <3>1, <3>2
    <3> QED BY <3>2, <3>3
  <2> HIDE DEF f
  <2>8. f \in Bijection(1..(i - 1), Newer(q, s[i]))
    BY <2>5, <2>6, <2>7 DEF Bijection, Injection, Surjection, IsInjective
  <2>9. Cardinality(Newer(q, s[i])) = i - 1
    <3>1. i - 1 \in Nat
      BY <1>1
    <3> QED BY <2>8, <3>1, FS_CountingElements DEF ExistsBijection
  <2> QED BY <1>1, <2>9 DEF Place
<1>4. Orders(q) # {}
  <2> DEFINE r == [w \in M |-> Place(q, w)]
             s == [i \in 1..n |-> CHOOSE w \in M : r[w] = i]
  <2>1. \A w \in M : Place(q, w) \in 1..n
    BY Places
  <2>2. \A v, w \in M : v < w => Place(q, w) < Place(q, v)
    BY Places
  <2>3. \A v, w \in M : Place(q, v) = Place(q, w) => v = w
    BY Places
  <2> HIDE DEF M
  <2>4. r \in [M -> 1..n] /\ \A v, w \in M : r[v] = r[w] => v = w
    BY <2>1, <2>3
  <2>5. r \in Injection(M, 1..n)
    BY <2>4 DEF Injection, IsInjective
  <2>6. IsFiniteSet(1..n) /\ Cardinality(1..n) = n
    BY <1>1, FS_Interval
  <2>7. r \in Surjection(M, 1..n)
    BY <2>5, <2>6, FS_Injection
  <2>8. \A i \in 1..n : s[i] \in M /\ r[s[i]] = i
    <3> TAKE i \in 1..n
    <3>1. \E w \in M : r[w] = i
      BY <2>7 DEF Surjection
    <3> QED BY <3>1
  <2>9. s \in [1..n -> M]
    BY <2>8
  <2>10. ASSUME NEW i \in 1..n, NEW j \in 1..n, i < j
         PROVE  s[i] # s[j] /\ ~Before(q.sort, s[j], s[i])
    <3> HIDE DEF s, n
    <3>1. Place(q, s[i]) = i /\ Place(q, s[j]) = j /\ s[i] \in M /\ s[j] \in M
      BY <2>8
    <3>2. s[i] # s[j]
      BY <1>1, <2>10, <3>1
    <3>3. ~(s[j] > s[i])
      BY <1>1, <2>2, <2>10, <3>1
    <3> QED BY <1>2, <3>2, <3>3
  <2>11. s \in Orders(q)
    BY <2>9, <2>10 DEF Orders, M
  <2> QED BY <2>11
<1> QED BY <1>3, <1>4

-----------------------------------------------------------------------------
(* LIMIT and OFFSET.                                                        *)

LEMMA IdsOfRows == \A T : Ids(Rows(T)) = T
<1> SUFFICES ASSUME NEW T PROVE Ids(Rows(T)) = T
  OBVIOUS
<1>1. \A v : Row(v).id = v
  BY DEF Row
<1>2. ASSUME NEW w \in T PROVE w \in Ids(Rows(T))
  <2>1. Row(w) \in Rows(T) /\ Row(w).id = w
    BY <1>1 DEF Rows
  <2> HIDE DEF Rows
  <2> QED BY <2>1 DEF Ids
<1>3. ASSUME NEW w \in Ids(Rows(T)) PROVE w \in T
  <2>1. PICK row \in Rows(T) : w = row.id
    BY DEF Ids
  <2>2. PICK v \in T : row = Row(v)
    BY <2>1 DEF Rows
  <2> QED BY <1>1, <2>1, <2>2
<1> QED BY <1>2, <1>3

LEMMA PageBounds ==
    ASSUME NEW q, q.page \in Nat \ {0}, q.limit \in Nat \ {0}
    PROVE  PageSize(q) \in Nat \ {0} /\ Offset(q) \in Nat
<1>1. PageSize(q) \in Nat \ {0}
  BY BoundAssumption DEF PageSize, Least
<1>2. \A m, n \in Nat : m * n \in Nat
  OBVIOUS
<1>3. q.page - 1 \in Nat
  OBVIOUS
<1> QED BY <1>1, <1>2, <1>3 DEF Offset

\* A page consists of watches that match the query, of all of them if the first
\* page has room for the whole catalogue.
LEMMA AnswerRows ==
    ASSUME NEW q, q.page \in Nat \ {0}, q.limit \in Nat \ {0}, NEW rows \in Answers(q)
    PROVE  \E ids \in SUBSET Matches(q) :
              /\ rows = Rows(ids)
              /\ q.page = 1 /\ Cardinality(Watch) <= PageSize(q) => ids = Matches(q)
<1> DEFINE M == Matches(q)
           n == Cardinality(M)
           last == Least(Offset(q) + PageSize(q), n)
<1>1. PICK s \in Orders(q) : rows = Rows({s[i] : i \in (Offset(q) + 1)..last})
  BY DEF Answers
<1>2. /\ s \in [1..n -> M] /\ n \in Nat
      /\ Cardinality(Watch) \in Nat /\ n <= Cardinality(Watch)
      /\ \A w \in M : \E i \in 1..n : s[i] = w
  BY OrdersName
<1>3. PageSize(q) \in Nat \ {0} /\ Offset(q) \in Nat
  BY PageBounds
<1>4. \A i \in (Offset(q) + 1)..last : i \in 1..n
  <2> HIDE DEF n
  <2> QED BY <1>2, <1>3 DEF Least
<1> DEFINE ids == {s[i] : i \in (Offset(q) + 1)..last}
<1>5. ids \subseteq M
  <2> HIDE DEF M, n, last
  <2> QED BY <1>2, <1>4
<1>6. ASSUME q.page = 1, Cardinality(Watch) <= PageSize(q)
      PROVE  ids = M
  <2>1. Offset(q) = 0
    BY <1>3, <1>6 DEF Offset
  <2>2. last = n
    <3> HIDE DEF n
    <3> QED BY <1>2, <1>3, <1>6, <2>1 DEF Least
  <2> HIDE DEF M, n, last
  <2> QED BY <1>2, <1>5, <2>1, <2>2
<1> QED BY <1>1, <1>5, <1>6

\* In the list of the ids a page consists of the watches with its places.
LEMMA PageIds ==
    ASSUME NEW q, q.sort = "id", q.page \in Nat \ {0}, q.limit \in Nat \ {0}
    PROVE  \A w : w \in Ids(UNION Answers(q)) <=>
                     /\ w \in Matches(q)
                     /\ Place(q, w) \in (Offset(q) + 1)..(Offset(q) + PageSize(q))
<1> DEFINE M == Matches(q)
           n == Cardinality(M)
           last == Least(Offset(q) + PageSize(q), n)
           On(s) == {s[i] : i \in (Offset(q) + 1)..last}
           There == {w \in M : Place(q, w) \in (Offset(q) + 1)..(Offset(q) + PageSize(q))}
<1>1. /\ n \in Nat
      /\ \A s \in Orders(q) : /\ s \in [1..n -> M]
                              /\ \A w \in M : \E i \in 1..n : s[i] = w
                              /\ \A i \in 1..n : Place(q, s[i]) = i
      /\ \A w \in M : Place(q, w) \in 1..n
  BY OrdersName, NewestFirst, Places
<1>2. PageSize(q) \in Nat \ {0} /\ Offset(q) \in Nat
  BY PageBounds
<1>3. ASSUME NEW s \in Orders(q) PROVE On(s) = There
  <2> HIDE DEF M, n
  <2>1. ASSUME NEW i \in (Offset(q) + 1)..last PROVE s[i] \in There
    <3>1. i \in 1..n /\ i \in (Offset(q) + 1)..(Offset(q) + PageSize(q))
      BY <1>1, <1>2 DEF Least
    <3> QED BY <1>1, <3>1
  <2>2. ASSUME NEW w \in There PROVE w \in On(s)
    <3>1. PICK i \in 1..n : s[i] = w
      BY <1>1
    <3>2. i = Place(q, w)
      BY <1>1, <3>1
    <3>3. i \in (Offset(q) + 1)..last
      BY <1>1, <1>2, <3>1, <3>2 DEF Least
    <3> QED BY <3>1, <3>3
  <2> QED BY <2>1, <2>2
<1>4. Answers(q) = {Rows(On(s)) : s \in Orders(q)}
  BY DEF Answers
<1>5. \A w : w \in Ids(UNION Answers(q)) <=> \E s \in Orders(q) : w \in On(s)
  <2> HIDE DEF On
  <2>1. \A rows : rows \in Answers(q) <=> \E s \in Orders(q) : rows = Rows(On(s))
    BY <1>4
  <2>2. \A w : w \in Ids(UNION Answers(q)) <=> \E rows \in Answers(q) : w \in Ids(rows)
    <3> HIDE DEF M, n, last
    <3> QED BY DEF Ids
  <2>3. \A s \in Orders(q) : Ids(Rows(On(s))) = On(s)
    BY IdsOfRows
  <2>4. ASSUME NEW rows \in Answers(q), NEW w \in Ids(rows)
        PROVE  \E s \in Orders(q) : w \in On(s)
    <3>1. PICK s \in Orders(q) : rows = Rows(On(s))
      BY <2>1
    <3>2. Ids(rows) = On(s)
      BY <2>3, <3>1
    <3> QED BY <3>2
  <2>5. ASSUME NEW s \in Orders(q), NEW w \in On(s)
        PROVE  \E rows \in Answers(q) : w \in Ids(rows)
    <3>1. Rows(On(s)) \in Answers(q) /\ w \in Ids(Rows(On(s)))
      BY <2>1, <2>3
    <3> QED BY <3>1
  <2> QED BY <2>2, <2>4, <2>5
<1>6. Orders(q) # {}
  BY NewestFirst
<1> HIDE DEF On, There
<1>7. \A w : w \in Ids(UNION Answers(q)) <=> w \in There
  BY <1>3, <1>5, <1>6
<1> QED BY <1>7 DEF There

\* The pages of S each cut the first n numbers into pieces.
LEMMA Cut ==
    ASSUME NEW n \in Nat, NEW S \in Nat \ {0}
    PROVE  LET last == (n + S - 1) \div S
           IN  /\ \A k \in 1..n : \E p \in 1..last : k \in ((p - 1) * S + 1)..((p - 1) * S + S)
               /\ \A p, r \in 1..last : \A k \in Int :
                     /\ k \in ((p - 1) * S + 1)..((p - 1) * S + S)
                     /\ k \in ((r - 1) * S + 1)..((r - 1) * S + S)
                     => p = r
<1> DEFINE last == (n + S - 1) \div S
<1>1. \A a \in Nat : a \div S \in Nat /\ (a \div S) * S <= a /\ a < (a \div S) * S + S
  OBVIOUS
<1>2. last \in Nat
  <2>1. n + S - 1 \in Nat
    OBVIOUS
  <2> QED BY <1>1, <2>1
<1>3. \A a, b \in Int : a < b => a * S + S <= b * S
  <2> TAKE a, b \in Int
  <2> HAVE a < b
  <2>1. b - a - 1 \in Nat
    OBVIOUS
  <2>2. \A m \in Nat : m * S \in Nat
    OBVIOUS
  <2>3. b * S = a * S + S + (b - a - 1) * S
    OBVIOUS
  <2> QED BY <2>1, <2>2, <2>3
<1>4. ASSUME NEW k \in 1..n
      PROVE  \E p \in 1..last : k \in ((p - 1) * S + 1)..((p - 1) * S + S)
  <2> DEFINE d == (k - 1) \div S
  <2>1. k - 1 \in Nat /\ d \in Nat /\ d * S <= k - 1 /\ k - 1 < d * S + S
    BY <1>1
  <2>2. d < last
    <3> SUFFICES ASSUME last <= d PROVE FALSE
      BY <1>2, <2>1
    <3>1. last * S <= d * S
      <4>1. last = d \/ last < d
        BY <1>2, <2>1
      <4> HIDE DEF last, d
      <4>2. last < d => last * S + S <= d * S
        BY <1>2, <1>3, <2>1
      <4> QED BY <1>2, <2>1, <4>1, <4>2
    <3>2. n + S - 1 < last * S + S
      BY <1>1
    <3> HIDE DEF last, d
    <3>3. last * S \in Int /\ d * S \in Int
      BY <1>2, <2>1
    <3> QED BY <2>1, <3>1, <3>2, <3>3
  <2> HIDE DEF d, last
  <2>3. d + 1 \in 1..last /\ (d + 1) - 1 = d
    BY <1>2, <2>1, <2>2
  <2>4. k \in (d * S + 1)..(d * S + S)
    BY <2>1
  <2> QED BY <2>3, <2>4
<1>5. ASSUME NEW p \in 1..last, NEW r \in 1..last, NEW k \in Int,
             k \in ((p - 1) * S + 1)..((p - 1) * S + S),
             k \in ((r - 1) * S + 1)..((r - 1) * S + S)
      PROVE  p = r
  <2>1. p - 1 \in Int /\ r - 1 \in Int /\ (p - 1) * S \in Int /\ (r - 1) * S \in Int
    BY <1>2
  <2>2. ~(p - 1 < r - 1) /\ ~(r - 1 < p - 1)
    BY <1>3, <1>5, <2>1
  <2> QED BY <1>2, <2>2
<1> QED BY <1>4, <1>5

\* In every state of the catalogue, the pages of its list cover the list and do
\* not overlap: LIMIT, OFFSET and the number of pages the client computes fit
\* together.
LEMMA Partition == PagesPartition
<1> SUFFICES ASSUME NEW inStock \in BOOLEAN
             PROVE  LET q(p) == [Query EXCEPT !.inStock = inStock, !.page = p, !.limit = PerPage]
                        all == Matches(q(1))
                        page(p) == Ids(UNION Answers(q(p)))
                        pages == 1..Pages(Cardinality(all))
                    IN  /\ UNION {page(p) : p \in pages} = all
                        /\ \A p, r \in pages : p # r => page(p) \cap page(r) = {}
                        /\ \A p \in pages : \A r \in PageButtons(p, Cardinality(all)) :
                              r \in pages
  BY DEF PagesPartition
<1> DEFINE q(p) == [Query EXCEPT !.inStock = inStock, !.page = p, !.limit = PerPage]
           all == Matches(q(1))
           n == Cardinality(all)
           page(p) == Ids(UNION Answers(q(p)))
           pages == 1..Pages(n)
           Pl(w) == Place(q(1), w)
           Piece(p) == ((p - 1) * PerPage + 1)..((p - 1) * PerPage + PerPage)
<1>1. PerPage \in Nat \ {0} /\ PerPage <= ListLimit /\ ListLimit \in Nat \ {0}
  BY PageAssumption, BoundAssumption
<1>2. n \in Nat /\ \A w \in all : Pl(w) \in 1..n
  BY OrdersName, Places
<1>3. /\ Pages(n) \in Int
      /\ \A k \in 1..n : \E p \in pages : k \in Piece(p)
      /\ \A p, r \in pages : \A k \in Int : k \in Piece(p) /\ k \in Piece(r) => p = r
  <2>1. Pages(n) = (n + PerPage - 1) \div PerPage
    BY DEF Pages
  <2> HIDE DEF n
  <2>2. (n + PerPage - 1) \div PerPage \in Int
    BY <1>1, <1>2
  <2> QED BY <1>1, <1>2, <2>1, <2>2, Cut
<1>4. ASSUME NEW p \in pages
      PROVE  page(p) = {w \in all : Pl(w) \in Piece(p)}
  <2>1. p \in Nat \ {0}
    <3> HIDE DEF n
    <3> QED BY <1>3
  <2>2. /\ q(p).sort = "id" /\ q(p).page = p /\ q(p).limit = PerPage
    BY DEF Query
  <2>3. PageSize(q(p)) = PerPage /\ Offset(q(p)) = (p - 1) * PerPage
    BY <1>1, <2>2 DEF PageSize, Offset, Least
  <2>4. Matches(q(p)) = all
    BY DEF Matches, Selects, Query
  <2>5. \A w : Place(q(p), w) = Pl(w)
    BY <2>4 DEF Place, Newer
  <2> HIDE DEF q, all
  <2>6. \A x : x = q(p) => \A w : w \in Ids(UNION Answers(x)) <=>
                     /\ w \in Matches(x)
                     /\ Place(x, w) \in (Offset(x) + 1)..(Offset(x) + PageSize(x))
    BY <1>1, <2>1, <2>2, PageIds
  <2>7. \A w : w \in page(p) <=> w \in all /\ Pl(w) \in Piece(p)
    BY <2>3, <2>4, <2>5, <2>6
  <2> QED BY <2>7
<1> HIDE DEF q, all, n, page, pages, Pl, Piece
<1>5. UNION {page(p) : p \in pages} = all
  <2>1. ASSUME NEW p \in pages, NEW w \in page(p) PROVE w \in all
    BY <1>4
  <2>2. ASSUME NEW w \in all PROVE \E p \in pages : w \in page(p)
    <3>1. PICK p \in pages : Pl(w) \in Piece(p)
      BY <1>2, <1>3
    <3> QED BY <1>4, <3>1
  <2> QED BY <2>1, <2>2
<1>6. ASSUME NEW p \in pages, NEW r \in pages, p # r
      PROVE  page(p) \cap page(r) = {}
  <2> SUFFICES ASSUME NEW w, w \in page(p), w \in page(r) PROVE FALSE
    OBVIOUS
  <2>1. w \in all /\ Pl(w) \in Piece(p) /\ Pl(w) \in Piece(r)
    BY <1>4
  <2>2. Pl(w) \in Int
    BY <1>2, <2>1
  <2> QED BY <1>3, <1>6, <2>1, <2>2
<1>7. ASSUME NEW p \in pages, NEW r \in PageButtons(p, n)
      PROVE  r \in pages
  <2>1. p \in 1..Pages(n) /\ Pages(n) \in Int
    BY <1>3 DEF pages
  <2>2. r \in 1..Pages(n) \/ (p > 1 /\ r = p - 1)
    BY DEF PageButtons
  <2> QED BY <2>1, <2>2 DEF pages
<1> QED BY <1>5, <1>6, <1>7 DEF q, all, n, page, pages

\* So they do all the time, whatever is sold and restocked.
THEOREM PagesCoverList == Spec => []PagesPartition
BY Partition, PTL

-----------------------------------------------------------------------------
(* Types.                                                                   *)

Brands == {All} \cup {brandOf[w] : w \in Watch} \cup {url.brand : url \in Url}
Categories == {All} \cup {url.category : url \in Url}

Queries == [category : Categories, brand : Brands, text : {All} \cup DOMAIN found,
            min : {0} \cup Bound, max : {0} \cup Bound, inStock : BOOLEAN,
            sort : {"id"} \cup Sort, page : Nat \ {0}, limit : Nat \ {0}]

Views == [route : {"elsewhere", "store", "category", "detail"}, q : Queries, url : Url,
          gender : {All} \cup DOMAIN suits, price : {SliderEnd} \cup Bound,
          rows : SUBSET RowSet, summary : SUBSET RowSet, brands : SUBSET Brands,
          total : Nat, watch : RowSet \cup {NoWatch}, id : Watch \cup {0}, quantity : Int,
          loading : BOOLEAN, busy : BOOLEAN, newest : {"out", "shown", "lost"}]

\* What outlives its page was asked for by ProductDetail.
FetchSet == {f \in [what : {"list", "summary", "brands", "detail"}, q : Queries,
                    id : Watch \cup {0}, left : BOOLEAN] :
                /\ f.left => f.what = "detail"
                /\ f.what = "detail" => f.id \in Watch}

Typed == /\ stock \in [Watch -> 0..MaxStock]
         /\ view \in Views
         /\ fetches \in Seq(FetchSet)

LEMMA QueryTyped == Query \in Queries
  BY DEF Query, Queries, Brands, Categories

LEMMA PagesTyped ==
    /\ Blank \in Views /\ StorePage \in Views
    /\ \A url \in Url : CategoryPage(url) \in Views
    /\ \A w \in Watch : DetailPage(w) \in Views
<1>1. Blank \in Views
  BY QueryTyped, PageAssumption DEF Blank, Views
<1>2. StorePage \in Views
  <2> DEFINE query == [Query EXCEPT !.limit = 500]
  <2>1. query \in Queries
    BY QueryTyped DEF Queries
  <2>2. StorePage = [Blank EXCEPT !.route = "store", !.loading = TRUE, !.q = query]
    BY DEF StorePage, Blank
  <2> HIDE DEF query
  <2> QED BY <1>1, <2>1, <2>2 DEF Views
<1>3. ASSUME NEW url \in Url PROVE CategoryPage(url) \in Views
  <2> DEFINE query == [Query EXCEPT !.brand = url.brand, !.limit = PerPage]
  <2>1. query \in Queries
    <3>1. url.brand \in Brands /\ PerPage \in Nat \ {0}
      BY PageAssumption, BoundAssumption DEF Brands
    <3> QED BY <3>1, QueryTyped DEF Queries
  <2>2. CategoryPage(url) = [Blank EXCEPT !.route = "category", !.url = url, !.q = query]
    BY DEF CategoryPage, Blank
  <2> HIDE DEF query
  <2> QED BY <1>1, <2>1, <2>2 DEF Views
<1>4. ASSUME NEW w \in Watch PROVE DetailPage(w) \in Views
  BY <1>1 DEF DetailPage, Views
<1> QED BY <1>1, <1>2, <1>3, <1>4

\* What a page asks its list for is a query.
LEMMA ListQueryTyped ==
    ASSUME NEW v \in Views
    PROVE  /\ ListQuery(v) \in Queries
           /\ ListQuery(v).inStock = v.q.inStock
           /\ v.route = "store" => ListQuery(v) = v.q
<1>1. v.q \in Queries /\ v.url \in Url
  BY DEF Views
<1>2. v.url.category \in Categories /\ v.url.brand \in Brands
  BY <1>1 DEF Categories, Brands
<1>3. CategoryQuery(v) \in Queries /\ CategoryQuery(v).inStock = v.q.inStock
  <2> DEFINE brand == IF v.q.brand = All THEN v.url.brand ELSE v.q.brand
  <2>1. brand \in Brands
    BY <1>1, <1>2 DEF Queries
  <2>2. CategoryQuery(v) = [v.q EXCEPT !.category = v.url.category, !.brand = brand]
    BY DEF CategoryQuery
  <2> HIDE DEF brand
  <2> QED BY <1>1, <1>2, <2>1, <2>2 DEF Queries
<1> QED BY <1>1, <1>3 DEF ListQuery

LEMMA FetchTyped ==
    /\ \A query \in Queries : \A what \in {"list", "summary", "brands"} :
          Fetch(what, query, 0) \in FetchSet
    /\ \A w \in Watch : Fetch("detail", Query, w) \in FetchSet
  BY QueryTyped DEF Fetch, FetchSet

\* Another query for the same page.
LEMMA WithQuery ==
    ASSUME NEW v \in Views, NEW query \in Queries
    PROVE  LET u == [v EXCEPT !.q = query]
           IN  /\ u \in Views /\ u.q = query /\ u.route = v.route /\ u.url = v.url
               /\ u.newest = v.newest /\ u.rows = v.rows
  BY DEF Views

LEMMA RowTyped == ASSUME Typed, NEW w \in Watch PROVE Row(w) \in RowSet
  BY DEF Typed, Row, RowSet

LEMMA RowsTyped == ASSUME Typed, NEW ids \in SUBSET Watch PROVE Rows(ids) \in SUBSET RowSet
  BY RowTyped DEF Rows

-----------------------------------------------------------------------------
(* The invariant.                                                           *)

\* Store asks for the first page of 500 and for nothing but a brand and a text.
StoreAsks(v) == v.route = "store" => v.q.page = 1 /\ v.q.limit = 500 /\ ~v.q.inStock

IsLast(query, sent) ==
    \E i \in 1..Len(sent) : /\ sent[i].what = "list" /\ sent[i].q = query
                            /\ \A j \in (i + 1)..Len(sent) : sent[j].what # "list"

\* The list that was asked for last, while it is out, is the last list of the
\* queue and that of the filters on the screen; Store has asked for it because of
\* a filter.
LastList(v, sent) == v.newest = "out" => /\ IsLast(ListQuery(v), sent)
                                         /\ v.route = "store" => Asking(v)

\* The rows of the page v are those of its query.
Agrees(v) ==
    v.newest = "shown" =>
        /\ v.route = "store" /\ ~Asking(v) => v.rows = {}
        /\ v.route = "store" /\ Asking(v) => Ids(v.rows) = {w \in Watch : Selects(v.q, w)}
        /\ v.route = "category" =>
              \A row \in v.rows : /\ Selects(ListQuery(v), row.id)
                                  /\ v.q.inStock => row.stock > 0

IInv == /\ Typed
        /\ StoreAsks(view) /\ LastList(view, fetches) /\ Agrees(view)

LEMMA InitEstablishes == Init => IInv
<1> SUFFICES ASSUME Init PROVE IInv
  OBVIOUS
<1>1. Typed
  BY PagesTyped, EmptySeq DEF Init, CatalogueInit, Typed
<1>2. view.route = "elsewhere" /\ view.newest = "shown"
  BY DEF Init, Blank
<1> QED BY <1>1, <1>2 DEF IInv, StoreAsks, LastList, Agrees

LEMMA InvImplies == IInv => ShownIsAsked
  BY DEF IInv, Typed, Views, Agrees, ShownIsAsked

-----------------------------------------------------------------------------
(* The requests under way.                                                  *)

DetailSet == {f \in FetchSet : f.what = "detail"}

LEMMA DetailsSeq ==
    ASSUME NEW sent \in Seq(FetchSet)
    PROVE  Details(sent) \in Seq(DetailSet)
<1> DEFINE K == {i \in DOMAIN sent : sent[i].what = "detail"}
           T == {sent[i] : i \in K \cap (1..Len(sent))}
<1>1. Details(sent) \in Seq(T)
  BY KeepElements DEF Details
<1>2. T \subseteq DetailSet
  BY ElementOfSeq DEF DetailSet
<1> HIDE DEF T
<1> QED BY <1>1, <1>2, SeqDef

\* What is left of the requests when a page is left.
LEMMA LeftSeq ==
    ASSUME Typed
    PROVE  LeftFetches \in Seq(FetchSet)
<1> DEFINE d == Details(fetches)
<1>1. d \in Seq(DetailSet)
  BY DetailsSeq DEF Typed
<1>2. /\ Len(d) \in Nat /\ DOMAIN d = 1..Len(d)
      /\ \A i \in 1..Len(d) : d[i] \in DetailSet
  BY <1>1, LenProperties, ElementOfSeq
<1> HIDE DEF d
<1>3. \A f \in DetailSet : [f EXCEPT !.left = TRUE] \in FetchSet
  BY DEF DetailSet, FetchSet
<1>4. [i \in DOMAIN d |-> [d[i] EXCEPT !.left = TRUE]] \in [1..Len(d) -> FetchSet]
  BY <1>2, <1>3
<1>5. LeftFetches \in [1..Len(d) -> FetchSet]
  BY <1>4 DEF LeftFetches, d
<1> QED BY <1>2, <1>5, SeqDef

LEMMA RestSeq ==
    ASSUME NEW sent \in Seq(FetchSet)
    PROVE  Details(sent) \in Seq(FetchSet)
<1>1. DetailSet \subseteq FetchSet
  BY DEF DetailSet
<1> QED BY <1>1, DetailsSeq, SeqDef

\* A list that is asked for is the last one.
LEMMA AppendLast ==
    ASSUME NEW sent \in Seq(FetchSet), NEW query \in Queries
    PROVE  /\ Append(sent, Fetch("list", query, 0)) \in Seq(FetchSet)
           /\ IsLast(query, Append(sent, Fetch("list", query, 0)))
<1> DEFINE f == Fetch("list", query, 0)
           t == Append(sent, f)
<1>1. f \in FetchSet /\ f.what = "list" /\ f.q = query
  BY FetchTyped DEF Fetch
<1> HIDE DEF f
<1>2. t \in Seq(FetchSet) /\ Len(t) = Len(sent) + 1 /\ t[Len(sent) + 1] = f
  BY <1>1, AppendProperties
<1>3. Len(sent) \in Nat
  BY LenProperties
<1> HIDE DEF t
<1>4. IsLast(query, t)
  <2>1. Len(t) \in 1..Len(t) /\ (Len(t) + 1)..Len(t) = {}
    BY <1>2, <1>3
  <2> QED BY <1>1, <1>2, <2>1 DEF IsLast
<1> QED BY <1>2, <1>4 DEF t, f

\* So it is behind other requests.
LEMMA ConcatLast ==
    ASSUME NEW rest \in Seq(FetchSet), NEW sent \in Seq(FetchSet), NEW query,
           IsLast(query, sent)
    PROVE  rest \o sent \in Seq(FetchSet) /\ IsLast(query, rest \o sent)
<1> DEFINE t == rest \o sent
<1>1. Len(rest) \in Nat /\ Len(sent) \in Nat
  BY LenProperties
<1>2. /\ t \in Seq(FetchSet) /\ Len(t) = Len(rest) + Len(sent)
      /\ \A j \in 1..Len(t) : t[j] = IF j <= Len(rest) THEN rest[j] ELSE sent[j - Len(rest)]
  BY ConcatProperties
<1> HIDE DEF t
<1>3. PICK i \in 1..Len(sent) : /\ sent[i].what = "list" /\ sent[i].q = query
                                /\ \A j \in (i + 1)..Len(sent) : sent[j].what # "list"
  BY DEF IsLast
<1> DEFINE k == Len(rest) + i
<1>4. k \in 1..Len(t) /\ t[k] = sent[i]
  BY <1>1, <1>2
<1>5. \A j \in (k + 1)..Len(t) : t[j] = sent[j - Len(rest)] /\ j - Len(rest) \in (i + 1)..Len(sent)
  BY <1>1, <1>2
<1> HIDE DEF k
<1>6. IsLast(query, t)
  BY <1>3, <1>4, <1>5 DEF IsLast
<1> QED BY <1>2, <1>6 DEF t

\* A request is answered: the list asked for last stays the last one, unless it is
\* that list.
LEMMA OthersLast ==
    ASSUME fetches \in Seq(FetchSet), NEW i \in 1..Len(fetches), NEW query
    PROVE  /\ Others(i) \in Seq(FetchSet)
           /\ fetches[i].what # "list" /\ IsLast(query, fetches) => IsLast(query, Others(i))
           /\ /\ fetches[i].what = "list" /\ IsLast(query, fetches)
              /\ \E j \in (i + 1)..Len(fetches) : fetches[j].what = "list"
              => IsLast(query, Others(i))
           /\ /\ fetches[i].what = "list" /\ IsLast(query, fetches)
              /\ \A j \in (i + 1)..Len(fetches) : fetches[j].what # "list"
              => fetches[i].q = query
<1> DEFINE t == Others(i)
           at(j) == IF j < i THEN j ELSE j + 1
<1>1. /\ t \in Seq(FetchSet) /\ Len(t) = Len(fetches) - 1
      /\ \A j \in 1..Len(t) : t[j] = fetches[at(j)] /\ at(j) \in 1..Len(fetches)
  BY Removed DEF Others
<1>2. Len(fetches) \in Nat
  BY LenProperties
<1> HIDE DEF t
<1>3. ASSUME NEW k \in 1..Len(fetches), k # i, fetches[k].what = "list", fetches[k].q = query,
             \A j \in (k + 1)..Len(fetches) : fetches[j].what # "list"
      PROVE  IsLast(query, t)
  <2> DEFINE m == IF k < i THEN k ELSE k - 1
  <2>1. m \in 1..Len(t) /\ at(m) = k
    BY <1>1, <1>2, <1>3
  <2>2. \A j \in (m + 1)..Len(t) : j \in 1..Len(t) /\ at(j) \in (k + 1)..Len(fetches)
    BY <1>1, <1>2, <1>3
  <2> HIDE DEF m, at
  <2>3. t[m] = fetches[k] /\ \A j \in (m + 1)..Len(t) : t[j].what # "list"
    BY <1>1, <1>3, <2>1, <2>2
  <2> QED BY <1>3, <2>1, <2>3 DEF IsLast
<1>4. ASSUME IsLast(query, fetches)
      PROVE  /\ fetches[i].what # "list" => IsLast(query, t)
             /\ (\E j \in (i + 1)..Len(fetches) : fetches[j].what = "list") => IsLast(query, t)
             /\ fetches[i].what = "list"
                /\ (\A j \in (i + 1)..Len(fetches) : fetches[j].what # "list")
                => fetches[i].q = query
  <2>1. PICK k \in 1..Len(fetches) : /\ fetches[k].what = "list" /\ fetches[k].q = query
                                     /\ \A j \in (k + 1)..Len(fetches) : fetches[j].what # "list"
    BY <1>4 DEF IsLast
  <2>2. k # i => IsLast(query, t)
    BY <1>3, <2>1
  <2>3. i \in (k + 1)..Len(fetches) \/ k \in (i + 1)..Len(fetches) \/ k = i
    BY <1>2
  <2> QED BY <2>1, <2>2, <2>3
<1> QED BY <1>1, <1>4 DEF t

-----------------------------------------------------------------------------
(* Steps of the page.                                                       *)

LEMMA SameQuery ==
    ASSUME NEW u, NEW v, u.route = v.route, u.q = v.q, u.url = v.url
    PROVE  /\ ListQuery(u) = ListQuery(v)
           /\ StoreAsks(v) => StoreAsks(u)
           /\ Asking(u) = Asking(v)
  BY DEF ListQuery, CategoryQuery, StoreAsks, Asking

\* Nothing changes of the list.
LEMMA SameList ==
    ASSUME IInv, NEW v \in Views, view' = v, fetches' \in Seq(FetchSet),
           stock' \in [Watch -> 0..MaxStock],
           v.route = view.route, v.q = view.q, v.url = view.url,
           v.rows = view.rows, v.newest = view.newest,
           view.newest = "out" => IsLast(ListQuery(view), fetches')
    PROVE  IInv'
<1>1. /\ ListQuery(v) = ListQuery(view) /\ StoreAsks(v) /\ Asking(v) = Asking(view)
  BY SameQuery DEF IInv
<1>2. LastList(v, fetches')
  BY <1>1 DEF IInv, LastList
<1>3. Agrees(v)
  BY <1>1 DEF IInv, Agrees
<1>4. Typed'
  BY DEF Typed
<1>5. StoreAsks(view') /\ LastList(view', fetches') /\ Agrees(view')
  BY <1>1, <1>2, <1>3
<1> QED BY <1>4, <1>5 DEF IInv, StoreAsks, LastList, IsLast, Agrees

\* A list is asked for.
LEMMA AskStep ==
    ASSUME Typed, NEW v \in Views, StoreAsks(v), v.route = "store" => Asking(v),
           view' = [v EXCEPT !.busy = TRUE, !.newest = "out"],
           fetches' \in Seq(FetchSet), IsLast(ListQuery(v), fetches'), stock' = stock
    PROVE  IInv'
<1> DEFINE u == [v EXCEPT !.busy = TRUE, !.newest = "out"]
<1>1. u \in Views /\ u.route = v.route /\ u.q = v.q /\ u.url = v.url /\ u.newest = "out"
  BY DEF Views
<1> HIDE DEF u
<1>2. StoreAsks(u) /\ ListQuery(u) = ListQuery(v) /\ Asking(u) = Asking(v)
  BY <1>1, SameQuery
<1>3. view' = u
  BY DEF u
<1>4. Typed'
  BY <1>1, <1>3 DEF Typed
<1>5. LastList(view', fetches') /\ Agrees(view') /\ StoreAsks(view')
  BY <1>1, <1>2, <1>3 DEF LastList, Agrees
<1> QED BY <1>4, <1>5 DEF IInv, StoreAsks, LastList, IsLast, Agrees

LEMMA AskFine ==
    ASSUME Typed, NEW v \in Views, StoreAsks(v), v.route = "store" => Asking(v),
           Ask(v), stock' = stock
    PROVE  IInv'
<1>1. fetches \in Seq(FetchSet) /\ ListQuery(v) \in Queries
  BY ListQueryTyped DEF Typed
<1>2. fetches' \in Seq(FetchSet) /\ IsLast(ListQuery(v), fetches')
  BY <1>1, AppendLast DEF Ask
<1> QED BY <1>2, AskStep DEF Ask

\* No list is out.
LEMMA SettledStep ==
    ASSUME Typed, NEW v \in Views, StoreAsks(v), Agrees(v), v.newest # "out",
           view' = v, fetches' \in Seq(FetchSet), stock' = stock
    PROVE  IInv'
<1>1. Typed'
  BY DEF Typed
<1>2. StoreAsks(view') /\ LastList(view', fetches') /\ Agrees(view')
  BY DEF LastList
<1> QED BY <1>1, <1>2 DEF IInv, StoreAsks, LastList, IsLast, Agrees

\* The category page is mounted, or gets another address, or stays as it is.
LEMMA EnterFine ==
    ASSUME IInv, NEW url \in Url, NEW rest \in Seq(FetchSet), EnterCategory(url, rest),
           stock' = stock,
           view.route = "category" /\ view.newest = "out" => IsLast(ListQuery(view), rest)
    PROVE  IInv'
<1> DEFINE mounted == view.route = "category"
           old == IF mounted THEN [view EXCEPT !.url = url] ELSE CategoryPage(url)
           new == [old EXCEPT !.q.brand = url.brand, !.q.page = 1, !.busy = TRUE,
                              !.newest = "out"]
           lists == <<Fetch("list", ListQuery(old), 0), Fetch("list", ListQuery(new), 0)>>
           brands == <<Fetch("brands", [Query EXCEPT !.category = url.category], 0)>>
           before == IF mounted /\ view.url.category = url.category THEN << >> ELSE brands
<1>1. Typed
  BY DEF IInv
<1>2. CASE mounted /\ view.url = url
  <2>1. view' = view /\ fetches' = rest
    BY <1>2 DEF EnterCategory
  <2>2. view \in Views /\ stock' \in [Watch -> 0..MaxStock]
    BY <1>1 DEF Typed
  <2> QED BY <1>2, <2>1, <2>2, SameList
<1>3. CASE ~(mounted /\ view.url = url)
  <2>1. view' = new /\ fetches' = rest \o before \o lists
    BY <1>3 DEF EnterCategory
  <2>2. old \in Views /\ old.route = "category"
    <3>1. view \in Views
      BY <1>1 DEF Typed
    <3>2. mounted => [view EXCEPT !.url = url] \in Views
                     /\ [view EXCEPT !.url = url].route = "category"
      BY <3>1 DEF Views
    <3>3. CategoryPage(url) \in Views /\ CategoryPage(url).route = "category"
      BY PagesTyped DEF CategoryPage, Blank
    <3> QED BY <3>2, <3>3
  <2> HIDE DEF old
  <2> DEFINE query == [old.q EXCEPT !.brand = url.brand, !.page = 1]
             v == [old EXCEPT !.q = query]
  <2>3. query \in Queries
    <3>1. old.q \in Queries /\ url.brand \in Brands
      BY <2>2 DEF Views, Brands
    <3> DEFINE branded == [old.q EXCEPT !.brand = url.brand]
    <3>2. branded \in Queries
      BY <3>1 DEF Queries
    <3>3. query = [branded EXCEPT !.page = 1]
      BY <3>1 DEF Queries
    <3>4. 1 \in Nat \ {0}
      OBVIOUS
    <3> HIDE DEF branded, query
    <3> QED BY <3>2, <3>3, <3>4 DEF Queries
  <2>4. new = [v EXCEPT !.busy = TRUE, !.newest = "out"]
    BY <2>2 DEF Views
  <2> HIDE DEF query
  <2>5. v \in Views /\ v.route = "category"
    BY <2>2, <2>3, WithQuery
  <2> HIDE DEF v
  <2>6. ListQuery(new) = ListQuery(v)
    <3>1. new.route = v.route /\ new.q = v.q /\ new.url = v.url
      BY <2>4, <2>5 DEF Views
    <3> QED BY <3>1, SameQuery
  <2>7. StoreAsks(v)
    BY <2>5 DEF StoreAsks
  <2> HIDE DEF new
  <2>8. lists \in Seq(FetchSet) /\ IsLast(ListQuery(v), lists)
    <3> DEFINE first == Fetch("list", ListQuery(old), 0)
               last == Fetch("list", ListQuery(v), 0)
    <3>1. first \in FetchSet /\ ListQuery(v) \in Queries
      BY <2>2, <2>5, ListQueryTyped, FetchTyped
    <3> HIDE DEF first
    <3>2. << >> \in Seq(FetchSet) /\ <<first>> = Append(<< >>, first)
      BY EmptySeq
    <3>3. <<first>> \in Seq(FetchSet)
      BY <3>1, <3>2, AppendProperties
    <3>4. <<first, last>> = Append(<<first>>, last)
      OBVIOUS
    <3>5. lists = Append(<<first>>, last)
      BY <2>6, <3>4 DEF first
    <3> QED BY <3>1, <3>3, <3>5, AppendLast
  <2>9. before \in Seq(FetchSet)
    <3>1. [Query EXCEPT !.category = url.category] \in Queries
      BY QueryTyped DEF Queries, Categories
    <3>2. Fetch("brands", [Query EXCEPT !.category = url.category], 0) \in FetchSet
      BY <3>1, FetchTyped
    <3>3. brands \in Seq(FetchSet)
      BY <3>2
    <3> QED BY <3>3, EmptySeq
  <2> HIDE DEF before, lists
  <2>10. rest \o before \in Seq(FetchSet)
    BY <2>9, ConcatProperties
  <2>11. fetches' \in Seq(FetchSet) /\ IsLast(ListQuery(v), fetches')
    BY <2>1, <2>8, <2>10, ConcatLast
  <2> QED BY <1>1, <2>1, <2>4, <2>5, <2>7, <2>11, AskStep
<1> QED BY <1>2, <1>3

-----------------------------------------------------------------------------
(* The customer moves.                                                      *)

LEMMA OpensStore ==
    ASSUME IInv, NEW cat \in {All} \cup {brandOf[w] : w \in Watch}, OpenStore(cat)
    PROVE  IInv'
<1> DEFINE asked == [StorePage EXCEPT !.q.brand = cat]
           summary == <<Fetch("summary", Query, 0)>>
<1>1. Typed /\ stock' = stock
  BY DEF IInv, OpenStore
<1>2. LeftFetches \in Seq(FetchSet)
  BY <1>1, LeftSeq
<1>3. LeftFetches \o summary \in Seq(FetchSet)
  <2>1. Fetch("summary", Query, 0) \in FetchSet
    BY FetchTyped, QueryTyped
  <2>2. summary \in Seq(FetchSet)
    BY <2>1
  <2> QED BY <1>2, <2>2, ConcatProperties
<1>4. /\ StorePage \in Views /\ StorePage.route = "store" /\ StorePage.rows = {}
      /\ StorePage.newest = "shown"
      /\ StorePage.q = [Query EXCEPT !.limit = 500]
  BY PagesTyped DEF StorePage, Blank
<1>5. StorePage.q.page = 1 /\ ~StorePage.q.inStock /\ StorePage.q.limit = 500
      /\ ~Asking(StorePage)
  BY <1>4 DEF Query, Asking
<1>6. CASE cat = All
  <2>1. view' = StorePage /\ fetches' = LeftFetches \o summary
    BY <1>6 DEF OpenStore
  <2>2. StoreAsks(StorePage) /\ Agrees(StorePage)
    BY <1>4, <1>5 DEF StoreAsks, Agrees
  <2> QED BY <1>1, <1>3, <1>4, <2>1, <2>2, SettledStep
<1>7. CASE cat # All
  <2>1. /\ view' = [asked EXCEPT !.busy = TRUE, !.newest = "out"]
        /\ fetches' = (LeftFetches \o summary) \o <<Fetch("list", ListQuery(asked), 0)>>
    BY <1>7 DEF OpenStore
  <2> DEFINE query == [StorePage.q EXCEPT !.brand = cat]
  <2>2. query \in Queries
    <3>1. StorePage.q \in Queries /\ cat \in Brands
      BY <1>4 DEF Views, Brands
    <3> QED BY <3>1 DEF Queries
  <2>3. asked = [StorePage EXCEPT !.q = query]
    BY <1>4
  <2>4. query.page = 1 /\ query.limit = 500 /\ ~query.inStock
    <3>1. StorePage.q \in Queries
      BY <1>4 DEF Views
    <3> QED BY <1>5, <3>1 DEF Queries
  <2> HIDE DEF query, asked
  <2>5. asked \in Views /\ asked.q = query
    BY <1>4, <2>2, <2>3, WithQuery
  <2>6. StoreAsks(asked) /\ ListQuery(asked) \in Queries /\ Asking(asked)
    <3>1. query.brand = cat
      BY <1>4 DEF query, Views, Queries
    <3> QED BY <1>7, <2>4, <2>5, <3>1, ListQueryTyped DEF StoreAsks, Asking
  <2> DEFINE sent == LeftFetches \o summary
             list == Fetch("list", ListQuery(asked), 0)
  <2> HIDE DEF sent, list
  <2>7. fetches' = Append(sent, list)
    <3>1. sent \in Seq(FetchSet) /\ list \in FetchSet
      BY <1>3, <2>6, FetchTyped DEF sent, list
    <3>2. fetches' = sent \o <<list>>
      BY <2>1 DEF sent, list
    <3> QED BY <3>1, <3>2, AppendIsConcat
  <2>8. fetches' \in Seq(FetchSet) /\ IsLast(ListQuery(asked), fetches')
    BY <1>3, <2>6, <2>7, AppendLast DEF sent, list
  <2> QED BY <1>1, <2>1, <2>5, <2>6, <2>8, AskStep
<1> QED BY <1>6, <1>7

LEMMA OpensCategory ==
    ASSUME IInv, NEW url \in Url, OpenCategory(url)
    PROVE  IInv'
<1> DEFINE rest == IF view.route = "category" THEN fetches ELSE LeftFetches
<1>1. EnterCategory(url, rest) /\ stock' = stock
  BY DEF OpenCategory
<1>2. rest \in Seq(FetchSet)
  BY LeftSeq DEF IInv, Typed
<1>3. view.route = "category" /\ view.newest = "out" => IsLast(ListQuery(view), rest)
  BY DEF IInv, LastList
<1> HIDE DEF rest
<1> QED BY <1>1, <1>2, <1>3, EnterFine

LEMMA OpensDetail ==
    ASSUME IInv, NEW w \in Watch, OpenDetail(w)
    PROVE  IInv'
<1>1. Typed /\ stock' = stock /\ view' = DetailPage(w)
      /\ fetches' = Append(LeftFetches, Fetch("detail", Query, w))
  BY DEF IInv, OpenDetail
<1>2. fetches' \in Seq(FetchSet)
  <2>1. LeftFetches \in Seq(FetchSet) /\ Fetch("detail", Query, w) \in FetchSet
    BY <1>1, LeftSeq, FetchTyped
  <2> QED BY <1>1, <2>1, AppendProperties
<1>3. DetailPage(w) \in Views /\ DetailPage(w).route = "detail" /\ DetailPage(w).newest = "shown"
  BY PagesTyped DEF DetailPage, Blank
<1>4. StoreAsks(DetailPage(w)) /\ Agrees(DetailPage(w))
  BY <1>3 DEF StoreAsks, Agrees
<1> QED BY <1>1, <1>2, <1>3, <1>4, SettledStep

LEMMA GoesElsewhere ==
    ASSUME IInv, GoElsewhere
    PROVE  IInv'
<1>1. Typed /\ stock' = stock /\ view' = Blank /\ fetches' \in Seq(FetchSet)
  BY LeftSeq DEF IInv, GoElsewhere
<1>2. Blank \in Views /\ Blank.route = "elsewhere" /\ Blank.newest = "shown"
  BY PagesTyped DEF Blank
<1>3. StoreAsks(Blank) /\ Agrees(Blank)
  BY <1>2 DEF StoreAsks, Agrees
<1> QED BY <1>1, <1>2, <1>3, SettledStep

-----------------------------------------------------------------------------
(* The customer chooses.                                                    *)

\* Every choice on the category page asks anew, whatever it changes of the query.
LEMMA AsksCategory ==
    ASSUME IInv, view.route = "category", NEW query \in Queries,
           Ask([view EXCEPT !.q = query]), stock' = stock
    PROVE  IInv'
<1>1. Typed
  BY DEF IInv
<1> DEFINE v == [view EXCEPT !.q = query]
<1>2. v \in Views /\ v.route = "category"
  BY <1>1, WithQuery DEF Typed
<1>3. StoreAsks(v)
  BY <1>2 DEF StoreAsks
<1> HIDE DEF v
<1> QED BY <1>1, <1>2, <1>3, AskFine DEF v

LEMMA FiltersCategory ==
    ASSUME IInv, FilterCategory
    PROVE  IInv'
<1>1. view.route = "category" /\ stock' = stock /\ view \in Views /\ view.q \in Queries
  BY DEF FilterCategory, IInv, Typed, Views
<1> DEFINE one == [view.q EXCEPT !.page = 1]
           first == [view EXCEPT !.q.page = 1]
<1>2. one \in Queries /\ one.inStock = view.q.inStock
  <2>1. 1 \in Nat \ {0}
    OBVIOUS
  <2> QED BY <1>1, <2>1 DEF Queries
<1>3. first = [view EXCEPT !.q = one] /\ first.q = one
  BY <1>1 DEF Views
<1> HIDE DEF one
<1>4. \A query : [first EXCEPT !.q = query] = [view EXCEPT !.q = query]
  BY <1>1, <1>3 DEF Views
<1> HIDE DEF first
<1>5. ASSUME NEW query \in Queries, Ask([first EXCEPT !.q = query])
      PROVE  IInv'
  BY <1>1, <1>4, <1>5, AsksCategory
<1>6. ASSUME NEW b \in {All} \cup view.brands, Ask([first EXCEPT !.q.brand = b])
      PROVE  IInv'
  <2>1. b \in Brands
    BY <1>1 DEF Views, Brands
  <2>2. [one EXCEPT !.brand = b] \in Queries
    BY <1>2, <2>1 DEF Queries
  <2>3. [first EXCEPT !.q.brand = b] = [first EXCEPT !.q = [one EXCEPT !.brand = b]]
    BY <1>3
  <2> QED BY <1>5, <1>6, <2>2, <2>3
<1>7. ASSUME NEW p \in {0} \cup Bound, Ask([first EXCEPT !.q.max = p])
      PROVE  IInv'
  <2>1. [one EXCEPT !.max = p] \in Queries
    BY <1>2 DEF Queries
  <2>2. [first EXCEPT !.q.max = p] = [first EXCEPT !.q = [one EXCEPT !.max = p]]
    BY <1>3
  <2> QED BY <1>5, <1>7, <2>1, <2>2
<1>8. ASSUME NEW p \in {0} \cup Bound, Ask([first EXCEPT !.q.min = p])
      PROVE  IInv'
  <2>1. [one EXCEPT !.min = p] \in Queries
    BY <1>2 DEF Queries
  <2>2. [first EXCEPT !.q.min = p] = [first EXCEPT !.q = [one EXCEPT !.min = p]]
    BY <1>3
  <2> QED BY <1>5, <1>8, <2>1, <2>2
<1>9. ASSUME Ask([first EXCEPT !.q.inStock = ~@])
      PROVE  IInv'
  <2> DEFINE query == [one EXCEPT !.inStock = ~one.inStock]
  <2>1. query \in Queries
    <3> DEFINE other == ~one.inStock
    <3>1. other \in BOOLEAN /\ query = [one EXCEPT !.inStock = other]
      OBVIOUS
    <3> HIDE DEF other, query
    <3> QED BY <1>2, <3>1 DEF Queries
  <2>2. [first EXCEPT !.q.inStock = ~@] = [first EXCEPT !.q = query]
    BY <1>3
  <2> HIDE DEF query
  <2> QED BY <1>5, <1>9, <2>1, <2>2
<1>10. ASSUME Ask([first EXCEPT !.q.brand = All, !.q.min = 0, !.q.max = 0, !.q.inStock = FALSE])
       PROVE  IInv'
  <2> DEFINE query == [one EXCEPT !.brand = All, !.min = 0, !.max = 0, !.inStock = FALSE]
             some == [one EXCEPT !.brand = All, !.min = 0, !.max = 0]
  <2>1. some \in Queries
    BY <1>2 DEF Queries, Brands
  <2>2. FALSE \in BOOLEAN /\ query = [some EXCEPT !.inStock = FALSE]
    BY <1>2 DEF Queries
  <2>3. [first EXCEPT !.q.brand = All, !.q.min = 0, !.q.max = 0, !.q.inStock = FALSE]
           = [first EXCEPT !.q = query]
    BY <1>3
  <2> HIDE DEF query, some
  <2>4. query \in Queries
    BY <2>1, <2>2 DEF Queries
  <2> QED BY <1>5, <1>10, <2>3, <2>4
<1> QED BY <1>6, <1>7, <1>8, <1>9, <1>10 DEF FilterCategory, first

LEMMA SortsCategory ==
    ASSUME IInv, SortCategory
    PROVE  IInv'
<1>1. /\ view.route = "category" /\ stock' = stock /\ view \in Views /\ view.q \in Queries
  BY DEF SortCategory, IInv, Typed, Views
<1>2. PICK s \in Sort \ {view.q.sort} : Ask([view EXCEPT !.q.sort = s, !.q.page = 1])
  BY DEF SortCategory
<1> DEFINE sorted == [view.q EXCEPT !.sort = s]
           query == [sorted EXCEPT !.page = 1]
<1>3. sorted \in Queries
  BY <1>1 DEF Queries
<1>4. [view EXCEPT !.q.sort = s, !.q.page = 1] = [view EXCEPT !.q = query]
  BY <1>1 DEF Views
<1> HIDE DEF sorted
<1>5. query \in Queries
  <2>1. 1 \in Nat \ {0}
    OBVIOUS
  <2> QED BY <1>3, <2>1 DEF Queries
<1> HIDE DEF query
<1> QED BY <1>1, <1>2, <1>4, <1>5, AsksCategory

LEMMA TurnsPage ==
    ASSUME IInv, TurnPage
    PROVE  IInv'
<1>1. /\ view.route = "category" /\ stock' = stock /\ view \in Views /\ view.q \in Queries
  BY DEF TurnPage, IInv, Typed, Views
<1>2. PICK p \in PageButtons(view.q.page, view.total) : Ask([view EXCEPT !.q.page = p])
  BY DEF TurnPage
<1>3. p \in Nat \ {0}
  <2>1. view.q.page \in Nat \ {0} /\ view.total \in Nat
    BY <1>1 DEF Views, Queries
  <2>2. Pages(view.total) \in Int
    BY <2>1, PageAssumption, BoundAssumption DEF Pages
  <2>3. p \in 1..Pages(view.total) \/ (view.q.page > 1 /\ p = view.q.page - 1)
    BY <1>2 DEF PageButtons
  <2> QED BY <2>1, <2>2, <2>3
<1> DEFINE query == [view.q EXCEPT !.page = p]
<1>4. query \in Queries
  BY <1>1, <1>3 DEF Queries
<1>5. [view EXCEPT !.q.page = p] = [view EXCEPT !.q = query]
  BY <1>1 DEF Views
<1> HIDE DEF query
<1> QED BY <1>1, <1>2, <1>4, <1>5, AsksCategory

\* Store asks when its brand or its text has changed, and forgets the list when it
\* has neither.
LEMMA ShowsStore ==
    ASSUME IInv, view.route = "store", stock' = stock, NEW v \in Views, StoreShows(v),
           v.route = "store", v.url = view.url, v.rows = view.rows, v.newest = view.newest,
           v.q.page = 1, v.q.limit = 500, ~v.q.inStock
    PROVE  IInv'
<1>1. Typed /\ StoreAsks(v) /\ fetches \in Seq(FetchSet) /\ stock' \in [Watch -> 0..MaxStock]
  BY DEF IInv, Typed, StoreAsks
<1>2. CASE ~QueryChanged(v)
  <2>1. view' = v /\ fetches' = fetches /\ v.q = view.q
    BY <1>2 DEF StoreShows, QueryChanged
  <2>2. view.newest = "out" => IsLast(ListQuery(view), fetches')
    BY <2>1 DEF IInv, LastList
  <2> QED BY <1>1, <2>1, <2>2, SameList
<1>3. CASE QueryChanged(v) /\ Asking(v)
  BY <1>1, <1>3, AskFine DEF StoreShows
<1>4. CASE QueryChanged(v) /\ ~Asking(v)
  <2> DEFINE u == [v EXCEPT !.rows = {}, !.newest = "shown"]
  <2>1. view' = u /\ fetches' = fetches
    BY <1>4 DEF StoreShows
  <2>2. /\ u \in Views /\ u.route = v.route /\ u.q = v.q /\ u.url = v.url
        /\ u.rows = {} /\ u.newest = "shown"
    BY DEF Views
  <2> HIDE DEF u
  <2>3. StoreAsks(u) /\ ~Asking(u)
    BY <1>1, <1>4, <2>2, SameQuery
  <2>4. Agrees(u)
    BY <2>2, <2>3 DEF Agrees
  <2> QED BY <1>1, <2>1, <2>2, <2>3, <2>4, SettledStep
<1> QED BY <1>2, <1>3, <1>4

LEMMA FiltersStore ==
    ASSUME IInv, FilterStore
    PROVE  IInv'
<1>1. /\ view.route = "store" /\ stock' = stock /\ view \in Views /\ view.q \in Queries
      /\ view.q.page = 1 /\ view.q.limit = 500 /\ ~view.q.inStock
  BY DEF FilterStore, IInv, Typed, Views, StoreAsks
<1>2. ASSUME NEW query \in Queries, query.page = 1, query.limit = 500, ~query.inStock,
             StoreShows([view EXCEPT !.q = query])
      PROVE  IInv'
  <2> DEFINE v == [view EXCEPT !.q = query]
  <2>1. /\ v \in Views /\ v.q = query /\ v.route = view.route /\ v.url = view.url
        /\ v.newest = view.newest /\ v.rows = view.rows
    BY <1>1, WithQuery
  <2> HIDE DEF v
  <2> QED BY <1>1, <1>2, <2>1, ShowsStore DEF v
<1>3. ASSUME NEW b \in {All} \cup {brandOf[w] : w \in Ids(view.summary)},
             StoreShows([view EXCEPT !.q.brand = b])
      PROVE  IInv'
  <2>1. Ids(view.summary) \subseteq Watch
    BY <1>1 DEF Views, Ids, RowSet
  <2>2. b \in Brands
    BY <2>1 DEF Brands
  <2> DEFINE query == [view.q EXCEPT !.brand = b]
  <2>3. query \in Queries /\ query.page = 1 /\ query.limit = 500 /\ ~query.inStock
    BY <1>1, <2>2 DEF Queries
  <2>4. [view EXCEPT !.q.brand = b] = [view EXCEPT !.q = query]
    OBVIOUS
  <2> HIDE DEF query
  <2> QED BY <1>2, <1>3, <2>3, <2>4
<1>4. ASSUME NEW t \in {All} \cup DOMAIN found, StoreShows([view EXCEPT !.q.text = t])
      PROVE  IInv'
  <2> DEFINE query == [view.q EXCEPT !.text = t]
  <2>1. query \in Queries /\ query.page = 1 /\ query.limit = 500 /\ ~query.inStock
    BY <1>1 DEF Queries
  <2>2. [view EXCEPT !.q.text = t] = [view EXCEPT !.q = query]
    OBVIOUS
  <2> HIDE DEF query
  <2> QED BY <1>2, <1>4, <2>1, <2>2
<1>5. ASSUME StoreShows([view EXCEPT !.q.brand = All, !.q.text = All,
                                     !.gender = All, !.price = SliderEnd])
      PROVE  IInv'
  <2> DEFINE query == [view.q EXCEPT !.brand = All, !.text = All]
             u == [view EXCEPT !.q = query]
             v == [u EXCEPT !.gender = All, !.price = SliderEnd]
  <2>1. query \in Queries /\ query.page = 1 /\ query.limit = 500 /\ ~query.inStock
    BY <1>1 DEF Queries, Brands
  <2>2. [view EXCEPT !.q.brand = All, !.q.text = All, !.gender = All, !.price = SliderEnd] = v
    BY <1>1 DEF Views
  <2> HIDE DEF query
  <2>3. /\ u \in Views /\ u.q = query /\ u.route = view.route /\ u.url = view.url
        /\ u.newest = view.newest /\ u.rows = view.rows
    BY <1>1, <2>1, WithQuery
  <2> HIDE DEF u
  <2>4. /\ v \in Views /\ v.q = query /\ v.route = view.route /\ v.url = view.url
        /\ v.newest = view.newest /\ v.rows = view.rows
    BY <2>3 DEF Views
  <2> HIDE DEF v
  <2>5. StoreShows(v)
    BY <1>5, <2>2
  <2> QED BY <1>1, <2>1, <2>4, <2>5, ShowsStore
<1> QED BY <1>3, <1>4, <1>5 DEF FilterStore

\* What does not concern the list.
LEMMA NarrowsStore ==
    ASSUME IInv, NarrowStore
    PROVE  IInv'
<1>1. /\ view \in Views /\ fetches \in Seq(FetchSet) /\ stock \in [Watch -> 0..MaxStock]
      /\ fetches' = fetches /\ stock' = stock
      /\ view.newest = "out" => IsLast(ListQuery(view), fetches)
  BY DEF NarrowStore, IInv, Typed, LastList
<1>2. /\ view' \in Views /\ view'.route = view.route /\ view'.q = view.q
      /\ view'.url = view.url /\ view'.rows = view.rows /\ view'.newest = view.newest
  <2>1. CASE \E g \in {All} \cup DOMAIN suits : view' = [view EXCEPT !.gender = g]
    BY <1>1, <2>1 DEF Views
  <2>2. CASE \E p \in {SliderEnd} \cup Bound : view' = [view EXCEPT !.price = p]
    BY <1>1, <2>2 DEF Views
  <2> QED BY <2>1, <2>2 DEF NarrowStore
<1> QED BY <1>1, <1>2, SameList

LEMMA BuysWatches ==
    ASSUME IInv, Buys
    PROVE  IInv'
<1>1. /\ view \in Views /\ fetches \in Seq(FetchSet) /\ stock \in [Watch -> 0..MaxStock]
      /\ view.newest = "out" => IsLast(ListQuery(view), fetches)
  BY DEF IInv, Typed, LastList
<1>2. fetches' = fetches /\ stock' = stock
  BY DEF Buys, AddCard, ChangeQuantity, AddDetail, ChangeLine
<1>3. /\ view' \in Views /\ view'.route = view.route /\ view'.q = view.q
      /\ view'.url = view.url /\ view'.rows = view.rows /\ view'.newest = view.newest
  <2>1. CASE ChangeQuantity
    <3>1. view.watch \in RowSet /\ view.quantity \in Int
      BY <1>1, <2>1 DEF ChangeQuantity, InStock, Views
    <3>2. view.watch.stock \in Int
      BY <3>1, BoundAssumption DEF RowSet
    <3>3. PICK n \in {view.quantity - 1, Least(view.quantity + 1, view.watch.stock)} :
             view' = [view EXCEPT !.quantity = n]
      BY <2>1 DEF ChangeQuantity
    <3>4. n \in Int
      BY <3>1, <3>2 DEF Least
    <3> QED BY <1>1, <3>3, <3>4 DEF Views
  <2>2. CASE AddCard \/ AddDetail \/ ChangeLine
    <3>1. view' = view
      BY <2>2 DEF AddCard, AddDetail, ChangeLine
    <3> QED BY <1>1, <3>1
  <2> QED BY <2>1, <2>2 DEF Buys
<1> QED BY <1>1, <1>2, <1>3, SameList

LEMMA MovesStock ==
    ASSUME IInv, StockMoves
    PROVE  IInv'
<1>1. /\ view \in Views /\ fetches \in Seq(FetchSet) /\ stock \in [Watch -> 0..MaxStock]
      /\ view.newest = "out" => IsLast(ListQuery(view), fetches)
      /\ view' = view /\ fetches' = fetches
  BY DEF IInv, Typed, LastList, StockMoves
<1>2. stock' \in [Watch -> 0..MaxStock]
  <2>1. PICK w \in Watch : Sell(w) \/ Restock(w)
    BY DEF StockMoves
  <2>2. stock[w] \in 0..MaxStock /\ MaxStock \in Nat
    BY <1>1, BoundAssumption
  <2>3. CASE Sell(w)
    BY <1>1, <2>2, <2>3 DEF Sell
  <2>4. CASE Restock(w)
    BY <1>1, <2>2, <2>4 DEF Restock
  <2> QED BY <2>1, <2>3, <2>4
<1> QED BY <1>1, <1>2, SameList

-----------------------------------------------------------------------------
(* Answers.                                                                 *)

\* A request that is no list is answered.
LEMMA OtherSettles ==
    ASSUME IInv, NEW i \in 1..Len(fetches), fetches[i].what # "list", NEW v \in Views,
           view' = v, fetches' = Others(i), stock' = stock,
           v.route = view.route, v.q = view.q, v.url = view.url,
           v.rows = view.rows, v.newest = view.newest
    PROVE  IInv'
<1>1. fetches \in Seq(FetchSet) /\ stock' \in [Watch -> 0..MaxStock]
  BY DEF IInv, Typed
<1>2. view.newest = "out" => IsLast(ListQuery(view), fetches)
  BY DEF IInv, LastList
<1>3. /\ fetches' \in Seq(FetchSet)
      /\ view.newest = "out" => IsLast(ListQuery(view), fetches')
  BY <1>1, <1>2, OthersLast
<1> QED BY <1>1, <1>3, SameList

\* A list is answered, or fails.
LEMMA ListSettles ==
    ASSUME IInv, NEW i \in 1..Len(fetches), fetches[i].what = "list",
           NEW v \in Views, NEW best \in {"shown", "lost"},
           view' = v, fetches' = Others(i), stock' = stock,
           v.route = view.route, v.q = view.q, v.url = view.url, v.newest = Outcome(i, best),
           best = "shown" /\ IsNewest(i) => Agrees(v)
    PROVE  IInv'
<1>1. Typed /\ fetches \in Seq(FetchSet)
  BY DEF IInv, Typed
<1>2. /\ StoreAsks(v) /\ ListQuery(v) = ListQuery(view) /\ Asking(v) = Asking(view)
  BY SameQuery DEF IInv
<1>3. fetches' \in Seq(FetchSet)
  BY <1>1, OthersLast
<1>4. CASE IsNewest(i) \/ view.newest # "out"
  <2>1. v.newest # "out" /\ Agrees(v)
    BY <1>4 DEF Outcome, Agrees
  <2> QED BY <1>1, <1>2, <1>3, <2>1, SettledStep
<1>5. CASE ~IsNewest(i) /\ view.newest = "out"
  <2>1. v.newest = "out" /\ \E j \in (i + 1)..Len(fetches) : fetches[j].what = "list"
    BY <1>5 DEF Outcome, IsNewest
  <2>2. IsLast(ListQuery(view), fetches) /\ (view.route = "store" => Asking(view))
    BY <1>5 DEF IInv, LastList
  <2>3. IsLast(ListQuery(view), fetches')
    BY <1>1, <2>1, <2>2, OthersLast
  <2>4. Typed'
    BY <1>1, <1>3 DEF Typed
  <2>5. LastList(view', fetches') /\ Agrees(view') /\ StoreAsks(view')
    BY <1>2, <2>1, <2>2, <2>3 DEF LastList, Agrees
  <2> QED BY <2>4, <2>5 DEF IInv, StoreAsks, LastList, IsLast, Agrees
<1> QED BY <1>4, <1>5

Roomy == Cardinality(Watch) <= Least(500, ListLimit)

\* The answer to the list of the page agrees with it: of Store it shows the whole
\* catalogue there is room for.
LEMMA AnswerAgrees ==
    ASSUME Roomy, IInv, view.newest = "out", NEW rows \in Answers(ListQuery(view)),
           NEW v \in Views, v.route = view.route, v.q = view.q, v.url = view.url, v.rows = rows
    PROVE  Agrees(v)
<1> DEFINE query == ListQuery(view)
<1>1. /\ query \in Queries /\ query.inStock = view.q.inStock
      /\ view.route = "store" => query = view.q
  BY ListQueryTyped DEF IInv, Typed
<1>2. /\ ListQuery(v) = query /\ StoreAsks(v) /\ Asking(v) = Asking(view)
  BY SameQuery DEF IInv
<1> HIDE DEF query
<1>3. query.page \in Nat \ {0} /\ query.limit \in Nat \ {0}
  BY <1>1 DEF Queries
<1>4. PICK ids \in SUBSET Matches(query) :
         /\ rows = Rows(ids)
         /\ query.page = 1 /\ Cardinality(Watch) <= PageSize(query) => ids = Matches(query)
  BY <1>3, AnswerRows DEF query
<1>5. v.route = "store" => Asking(v)
  BY <1>2 DEF IInv, LastList
<1>6. ASSUME v.route = "store"
      PROVE  Ids(v.rows) = {w \in Watch : Selects(v.q, w)}
  <2>1. query = v.q /\ query.page = 1 /\ query.limit = 500 /\ ~query.inStock
    BY <1>1, <1>2, <1>6 DEF StoreAsks
  <2>2. ids = Matches(query)
    BY <1>4, <2>1 DEF Roomy, PageSize
  <2>3. Ids(v.rows) = Matches(query)
    BY <1>4, <2>2, IdsOfRows
  <2> QED BY <2>1, <2>3 DEF Matches
<1>7. ASSUME NEW row \in v.rows
      PROVE  Selects(query, row.id) /\ (v.q.inStock => row.stock > 0)
  <2>1. PICK w \in ids : row = Row(w)
    BY <1>4 DEF Rows
  <2>2. row.id = w /\ row.stock = stock[w] /\ w \in Matches(query)
    BY <1>4, <2>1 DEF Row
  <2> QED BY <1>1, <2>2 DEF Matches
<1> QED BY <1>2, <1>5, <1>6, <1>7 DEF Agrees

LEMMA AnswersFine ==
    ASSUME Roomy, IInv, NEW i \in 1..Len(fetches), Answered(i)
    PROVE  IInv'
<1>1. /\ fetches[i] \in FetchSet /\ view \in Views /\ Typed
      /\ fetches' = Others(i) /\ stock' = stock
  BY ElementOfSeq DEF Answered, IInv, Typed
<1> DEFINE f == fetches[i]
<1>2. CASE f.what = "list" /\ \E rows \in Answers(f.q) : Listed(i, rows, Total(f.q))
  <2>1. PICK rows \in Answers(f.q) : Listed(i, rows, Total(f.q))
    BY <1>2
  <2>2. rows \in SUBSET RowSet /\ Total(f.q) \in Nat
    <3>1. f.q.page \in Nat \ {0} /\ f.q.limit \in Nat \ {0}
      BY <1>1 DEF FetchSet, Queries
    <3>2. \E ids \in SUBSET Matches(f.q) : rows = Rows(ids)
      BY <3>1, AnswerRows
    <3>3. Matches(f.q) \subseteq Watch /\ Total(f.q) \in Nat
      BY OrdersName DEF Total
    <3> QED BY <1>1, <3>2, <3>3, RowsTyped
  <2> DEFINE total == IF view.route = "category" THEN Total(f.q) ELSE 0
             end == Outcome(i, "shown")
             v == [view EXCEPT !.rows = rows, !.busy = FALSE, !.total = total, !.newest = end]
  <2>3. view' = v
    BY <2>1 DEF Listed
  <2>4. total \in Nat /\ end \in {"out", "shown", "lost"}
    BY <2>2 DEF Outcome
  <2> HIDE DEF total, end
  <2>5. /\ v \in Views /\ v.route = view.route /\ v.q = view.q /\ v.url = view.url
        /\ v.rows = rows /\ v.newest = end
    BY <1>1, <2>2, <2>4 DEF Views
  <2> HIDE DEF v
  <2>6. ASSUME IsNewest(i) PROVE Agrees(v)
    <3>1. view.newest = "out" /\ \A j \in (i + 1)..Len(fetches) : fetches[j].what # "list"
      BY <2>6 DEF IsNewest
    <3>2. IsLast(ListQuery(view), fetches) /\ fetches \in Seq(FetchSet)
      BY <3>1 DEF IInv, Typed, LastList
    <3>3. f.q = ListQuery(view)
      BY <1>2, <3>1, <3>2, OthersLast
    <3> QED BY <2>1, <2>5, <3>1, <3>3, AnswerAgrees
  <2> QED BY <1>1, <1>2, <2>3, <2>5, <2>6, ListSettles DEF end
<1>3. ASSUME f.what # "list",
             /\ view' \in Views /\ view'.route = view.route /\ view'.q = view.q
             /\ view'.url = view.url /\ view'.rows = view.rows /\ view'.newest = view.newest
      PROVE  IInv'
  BY <1>1, <1>3, OtherSettles
<1>4. CASE f.what = "summary" /\ view' = [view EXCEPT !.summary = Summary, !.loading = FALSE]
  <2>1. Summary \in SUBSET RowSet
    BY <1>1, RowsTyped DEF Summary
  <2> QED BY <1>1, <1>3, <1>4, <2>1 DEF Views
<1>5. CASE f.what = "brands" /\ view' = [view EXCEPT !.brands = BrandsIn(f.q.category)]
  <2>1. BrandsIn(f.q.category) \in SUBSET Brands
    BY DEF BrandsIn, Brands
  <2> QED BY <1>1, <1>3, <1>5, <2>1 DEF Views
<1>6. CASE f.what = "detail" /\ view' = [view EXCEPT !.watch = WatchById(f.id), !.loading = FALSE]
  <2>1. WatchById(f.id) \in RowSet
    BY <1>1, <1>6, RowTyped DEF WatchById, FetchSet
  <2> QED BY <1>1, <1>3, <1>6, <2>1 DEF Views
<1> QED BY <1>2, <1>4, <1>5, <1>6 DEF Answered

LEMMA RefusedFine ==
    ASSUME IInv, NEW i \in 1..Len(fetches), Refused(i) \/ Lost(i)
    PROVE  IInv'
<1>1. /\ view \in Views /\ fetches' = Others(i) /\ stock' = stock
  BY DEF Refused, Lost, IInv, Typed
<1> DEFINE f == fetches[i]
           end == Outcome(i, "lost")
<1>2. end \in {"out", "shown", "lost"}
  BY DEF Outcome
<1>3. CASE f.what = "list"
  <2> HIDE DEF end
  <2>1. \/ view' = [view EXCEPT !.rows = {}, !.total = 0, !.busy = FALSE, !.newest = end]
        \/ view' = [view EXCEPT !.busy = FALSE, !.newest = end]
    BY <1>3 DEF Refused, Lost, end
  <2>2. /\ view' \in Views /\ view'.route = view.route /\ view'.q = view.q
        /\ view'.url = view.url /\ view'.newest = end
    <3>1. CASE view' = [view EXCEPT !.rows = {}, !.total = 0, !.busy = FALSE, !.newest = end]
      <4> DEFINE u == [view EXCEPT !.rows = {}, !.total = 0]
      <4>1. /\ u \in Views /\ u.route = view.route /\ u.q = view.q /\ u.url = view.url
        BY <1>1 DEF Views
      <4>2. view' = [u EXCEPT !.busy = FALSE, !.newest = end]
        BY <1>1, <3>1 DEF Views
      <4> HIDE DEF u
      <4> QED BY <1>2, <4>1, <4>2 DEF Views
    <3>2. CASE view' = [view EXCEPT !.busy = FALSE, !.newest = end]
      BY <1>1, <1>2, <3>2 DEF Views
    <3> QED BY <2>1, <3>1, <3>2
  <2> QED BY <1>1, <1>3, <2>2, ListSettles DEF end
<1>4. CASE f.what # "list"
  <2>1. \/ view' = [view EXCEPT !.summary = {}, !.loading = FALSE]
        \/ view' = [view EXCEPT !.loading = FALSE]
        \/ view' = [view EXCEPT !.brands = {}]
        \/ view' = view
    BY <1>4 DEF Refused, Lost
  <2>2. /\ view' \in Views /\ view'.route = view.route /\ view'.q = view.q
        /\ view'.url = view.url /\ view'.rows = view.rows /\ view'.newest = view.newest
    <3>1. CASE view' = [view EXCEPT !.summary = {}, !.loading = FALSE]
      BY <1>1, <3>1 DEF Views
    <3>2. CASE view' = [view EXCEPT !.loading = FALSE]
      BY <1>1, <3>2 DEF Views
    <3>3. CASE view' = [view EXCEPT !.brands = {}]
      BY <1>1, <3>3 DEF Views
    <3> QED BY <1>1, <2>1, <3>1, <3>2, <3>3
  <2> QED BY <1>1, <1>4, <2>2, OtherSettles
<1> QED BY <1>3, <1>4

LEMMA NotFoundFine ==
    ASSUME IInv, NEW i \in 1..Len(fetches), NotFound(i)
    PROVE  IInv'
<1> DEFINE rest == IF view.route = "category" THEN Others(i) ELSE Details(Others(i))
<1>1. fetches[i].what = "detail" /\ EnterCategory(PlainUrl, rest) /\ stock' = stock
      /\ fetches \in Seq(FetchSet) /\ PlainUrl \in Url
  BY PageAssumption DEF NotFound, IInv, Typed
<1>2. Others(i) \in Seq(FetchSet)
  BY <1>1, OthersLast
<1>3. rest \in Seq(FetchSet)
  BY <1>2, RestSeq
<1>4. view.route = "category" /\ view.newest = "out" => IsLast(ListQuery(view), rest)
  BY <1>1, OthersLast DEF IInv, LastList
<1> HIDE DEF rest
<1> QED BY <1>1, <1>3, <1>4, EnterFine

LEMMA IgnoredFine ==
    ASSUME IInv, NEW i \in 1..Len(fetches), Ignored(i)
    PROVE  IInv'
<1>1. /\ view \in Views /\ view' = view /\ fetches' = Others(i) /\ stock' = stock
      /\ fetches[i] \in FetchSet /\ fetches[i].left
  BY ElementOfSeq DEF Ignored, IInv, Typed
<1>2. fetches[i].what # "list"
  BY <1>1 DEF FetchSet
<1> QED BY <1>1, <1>2, OtherSettles

LEMMA StepPreserves ==
    ASSUME Roomy, IInv, [Next]_vars
    PROVE  IInv'
<1>1. CASE Moves
  BY <1>1, OpensStore, OpensCategory, OpensDetail, GoesElsewhere DEF Moves
<1>2. CASE Browses
  BY <1>2, FiltersStore, NarrowsStore, FiltersCategory, SortsCategory, TurnsPage DEF Browses
<1>3. CASE Buys
  BY <1>3, BuysWatches
<1>4. CASE Settles
  <2>1. PICK i \in DOMAIN fetches :
           Answered(i) \/ Refused(i) \/ Lost(i) \/ NotFound(i) \/ Ignored(i)
    BY <1>4 DEF Settles
  <2>2. i \in 1..Len(fetches)
    BY LenProperties DEF IInv, Typed
  <2> QED BY <2>1, <2>2, AnswersFine, RefusedFine, NotFoundFine, IgnoredFine
<1>5. CASE StockMoves
  BY <1>5, MovesStock
<1>6. CASE UNCHANGED vars
  <2>1. view' = view /\ fetches' = fetches /\ stock' = stock
    BY <1>6 DEF vars
  <2> QED BY <2>1 DEF IInv, Typed, StoreAsks, LastList, IsLast, Agrees
<1> QED BY <1>1, <1>2, <1>3, <1>4, <1>5, <1>6 DEF Next

\* If the catalogue fits on one page of the route (Store asks for 500, and gets at
\* most ListLimit), whatever order the answers to whatever pages come in, the page
\* that shows the answer it asked for last shows the watches of the filters on its
\* screen.
THEOREM ShownWasAsked ==
    ASSUME Cardinality(Watch) <= Least(500, ListLimit)
    PROVE  Spec => []ShownIsAsked
<1>1. Roomy
  BY DEF Roomy
<1>2. IInv /\ [Next]_vars => IInv'
  BY <1>1, StepPreserves
<1> QED BY <1>2, InitEstablishes, InvImplies, PTL DEF Spec
=============================================================================
