----------------------------- MODULE SetInduction -----------------------------
(***************************************************************************)
(* Induction over the natural numbers in a first-order form: the           *)
(* hypothesis is about a set instead of a predicate, and a step of a       *)
(* recursion is a function instead of an operator.  Proofs about the loops *)
(* of the code (a cart read line by line) rest on the first three lemmas,  *)
(* those about the requests of a page on the other two.                    *)
(***************************************************************************)
EXTENDS Integers, RequestQueue, Totals, SequenceTheorems, FiniteSetTheorems,
        WellFoundedInduction, TLAPS

\* Every non-empty set of naturals has a least element.
LEMMA LeastElement ==
    ASSUME NEW T \in SUBSET Nat, T # {}
    PROVE  \E m \in T : \A n \in T : m <= n
<1>1. PICK m \in T : \A n \in T : <<n, m>> \notin OpToRel(<, Nat)
  BY NatLessThanWellFounded, WFMin
<1>2. \A n \in T : ~(n < m)
  BY <1>1 DEF OpToRel
<1> QED BY <1>2

\* A set that contains 0 and the successor of each of its naturals contains
\* every natural number.
LEMMA SetInduction ==
    ASSUME NEW S, 0 \in S, \A n \in Nat : n \in S => n + 1 \in S
    PROVE  Nat \subseteq S
<1>1. SUFFICES ASSUME Nat \ S # {} PROVE FALSE
  OBVIOUS
<1>2. PICK m \in Nat \ S : \A n \in Nat \ S : m <= n
  BY <1>1, LeastElement
<1>3. m # 0 /\ m - 1 \in Nat
  BY <1>2
<1>4. m - 1 \in S
  BY <1>2, <1>3
<1> QED BY <1>2, <1>3, <1>4

\* The sequences of values a loop goes through: it starts at base and its
\* k-th turn applies step[k].
Iterates(V, base, step, n) ==
    {f \in [0..n -> V] : f[0] = base /\ \A k \in 1..n : f[k] = step[k][f[k - 1]]}

\* A loop of N turns has such a sequence.
LEMMA IterateExists ==
    ASSUME NEW V, NEW base \in V, NEW N \in Nat, NEW step \in [1..N -> [V -> V]]
    PROVE  Iterates(V, base, step, N) # {}
<1> DEFINE S == {n \in Nat : n <= N => Iterates(V, base, step, n) # {}}
<1>1. 0 \in S
  <2>1. [k \in 0..0 |-> base] \in Iterates(V, base, step, 0)
    BY DEF Iterates
  <2> QED BY <2>1
<1>2. ASSUME NEW n \in Nat, n \in S PROVE n + 1 \in S
  <2>1. CASE n + 1 <= N
    <3>1. PICK f \in Iterates(V, base, step, n) : TRUE
      BY <1>2, <2>1
    <3>2. /\ f \in [0..n -> V]
          /\ f[0] = base
          /\ \A k \in 1..n : f[k] = step[k][f[k - 1]]
      BY <3>1 DEF Iterates
    <3>3. PICK v \in V : v = step[n + 1][f[n]]
      BY <3>2, <2>1
    <3> DEFINE g == [k \in 0..(n + 1) |-> IF k = n + 1 THEN v ELSE f[k]]
    <3>4. g \in [0..(n + 1) -> V] /\ g[0] = base
      BY <3>2
    <3>5. ASSUME NEW k \in 1..(n + 1) PROVE g[k] = step[k][g[k - 1]]
      <4>1. g[k - 1] = f[k - 1]
        OBVIOUS
      <4>2. CASE k = n + 1
        BY <4>1, <4>2, <3>3
      <4>3. CASE k # n + 1
        BY <4>1, <4>3, <3>2
      <4> QED BY <4>2, <4>3
    <3>6. g \in Iterates(V, base, step, n + 1)
      BY <3>4, <3>5 DEF Iterates
    <3> QED BY <3>6
  <2>2. CASE ~(n + 1 <= N)
    BY <2>2
  <2> QED BY <2>1, <2>2
<1>3. N \in S
  <2> HIDE DEF S
  <2> QED BY <1>1, <1>2, SetInduction
<1> QED BY <1>3

-----------------------------------------------------------------------------
(* The sequences of requests.                                              *)

\* What Keep keeps are elements at the places it is told to keep.
LEMMA KeepElements ==
    ASSUME NEW S, NEW s \in Seq(S), NEW K
    PROVE  Keep(s, K) \in Seq({s[i] : i \in K \cap (1..Len(s))})
<1> DEFINE n == Len(s)
           T == {s[i] : i \in K \cap (1..Len(s))}
           V == Seq(T)
           Add(k, v) == IF k \in K THEN Append(v, s[k]) ELSE v
           step == [k \in 1..n |-> [v \in V |-> Add(k, v)]]
           Rec(f, k) == IF k = 0 THEN << >> ELSE IF k \in K THEN Append(f[k - 1], s[k]) ELSE f[k - 1]
           F == CHOOSE g : g = [k \in 0..n |-> Rec(g, k)]
<1>1. n \in Nat
  BY LenProperties
<1>2. ASSUME NEW k \in 1..n, NEW v \in V PROVE Add(k, v) \in V
  <2>1. k \in K => s[k] \in T
    OBVIOUS
  <2> HIDE DEF T
  <2> QED BY <2>1, AppendProperties
<1>3. step \in [1..n -> [V -> V]]
  BY <1>2
<1>4. << >> \in V
  BY EmptySeq
<1>5. PICK f \in Iterates(V, << >>, step, n) : TRUE
  <2> HIDE DEF V, step, n
  <2> QED BY <1>1, <1>3, <1>4, IterateExists
<1>6. /\ f \in [0..n -> V]
      /\ f[0] = << >>
      /\ \A k \in 1..n : f[k] = Add(k, f[k - 1])
  <2>1. /\ f \in [0..n -> V]
        /\ f[0] = << >>
        /\ \A k \in 1..n : f[k] = step[k][f[k - 1]]
    BY <1>5 DEF Iterates
  <2>2. ASSUME NEW k \in 1..n PROVE f[k] = Add(k, f[k - 1])
    <3>1. f[k - 1] \in V
      BY <2>1, <1>1
    <3>2. step[k][f[k - 1]] = Add(k, f[k - 1])
      BY <3>1
    <3> QED BY <2>1, <3>2
  <2> QED BY <2>1, <2>2
<1>7. f = [k \in 0..n |-> Rec(f, k)]
  <2>1. ASSUME NEW k \in 0..n PROVE f[k] = Rec(f, k)
    <3>1. k = 0 \/ k \in 1..n
      BY <1>1
    <3> HIDE DEF V
    <3> QED BY <1>6, <3>1
  <2> HIDE DEF V, Rec, n
  <2> QED BY <1>6, <2>1
<1>8. F = [k \in 0..n |-> Rec(F, k)]
  <2> HIDE DEF Rec, n
  <2> QED BY <1>7
<1>9. Keep(s, K) = F[n]
  BY DEF Keep
<1>10. F[0] = << >> /\ \A k \in 1..n : F[k] = Add(k, F[k - 1])
  <2>1. \A k \in 0..n : F[k] = Rec(F, k)
    <3> HIDE DEF F, Rec, n
    <3> QED BY <1>8
  <2>2. 0 \in 0..n /\ \A k \in 1..n : k \in 0..n /\ k # 0
    BY <1>1
  <2>3. Rec(F, 0) = << >>
    OBVIOUS
  <2>4. \A k \in 1..n : Rec(F, k) = Add(k, F[k - 1])
    BY <2>2
  <2> HIDE DEF F, Add, Rec
  <2> QED BY <2>1, <2>2, <2>3, <2>4
<1>11. F[n] \in V
  <2> DEFINE Q == {k \in Nat : k <= n => F[k] \in V}
  <2> HIDE DEF F, V, Add
  <2>1. 0 \in Q
    BY <1>10, <1>4
  <2>2. ASSUME NEW k \in Nat, k \in Q PROVE k + 1 \in Q
    <3>1. CASE k + 1 <= n
      <4>1. k + 1 \in 1..n /\ (k + 1) - 1 = k /\ F[k] \in V
        BY <2>2, <3>1, <1>1
      <4> QED BY <4>1, <1>10, <1>2
    <3>2. CASE ~(k + 1 <= n)
      BY <3>2
    <3> QED BY <3>1, <3>2
  <2>3. Nat \subseteq Q
    <3> HIDE DEF Q
    <3> QED BY <2>1, <2>2, SetInduction
  <2> QED BY <2>3, <1>1
<1> QED
  <2> HIDE DEF F
  <2> QED BY <1>9, <1>11

\* A sequence without its i-th element.
LEMMA Removed ==
    ASSUME NEW S, NEW s \in Seq(S), NEW i \in 1..Len(s)
    PROVE  LET t == SubSeq(s, 1, i - 1) \o SubSeq(s, i + 1, Len(s))
           IN  /\ t \in Seq(S)
               /\ Len(t) = Len(s) - 1
               /\ \A j \in 1..Len(t) : /\ t[j] = s[IF j < i THEN j ELSE j + 1]
                                       /\ (IF j < i THEN j ELSE j + 1) \in 1..Len(s)
<1> DEFINE a == SubSeq(s, 1, i - 1)
           b == SubSeq(s, i + 1, Len(s))
           t == a \o b
<1>1. Len(s) \in Nat
  BY LenProperties
<1>2. a \in Seq(S) /\ Len(a) = i - 1 /\ \A j \in 1..(i - 1) : a[j] = s[j]
  BY <1>1, SubSeqProperties
<1>3. /\ b \in Seq(S) /\ Len(b) = Len(s) - i
      /\ \A j \in 1..(Len(s) - i) : b[j] = s[j + i]
  BY <1>1, SubSeqProperties
<1> HIDE DEF a, b
<1>4. t \in Seq(S) /\ Len(t) = Len(s) - 1
  <2>1. t \in Seq(S) /\ Len(t) = Len(a) + Len(b)
    BY <1>2, <1>3, ConcatProperties
  <2> HIDE DEF t
  <2> QED BY <1>1, <1>2, <1>3, <2>1
<1>5. ASSUME NEW j \in 1..Len(t)
      PROVE  t[j] = s[IF j < i THEN j ELSE j + 1]
  <2>1. t[j] = IF j <= Len(a) THEN a[j] ELSE b[j - Len(a)]
    BY <1>2, <1>3, <1>4, ConcatProperties
  <2>2. CASE j < i
    BY <1>1, <1>2, <2>1, <2>2
  <2>3. CASE j >= i
    BY <1>1, <1>2, <1>3, <1>4, <2>1, <2>3
  <2> QED BY <2>2, <2>3
<1>6. \A j \in 1..Len(t) : (IF j < i THEN j ELSE j + 1) \in 1..Len(s)
  BY <1>1, <1>4
<1> QED BY <1>4, <1>5, <1>6 DEF a, b

-----------------------------------------------------------------------------
(* Sums over the rows of a table.                                          *)

\* Every finite set has a listing.
LEMMA ListingExists ==
    ASSUME NEW D, IsFiniteSet(D)
    PROVE  LET n == Cardinality(D) IN
           /\ n \in Nat
           /\ Listing(D) \in [1..n -> D]
           /\ \A i, j \in 1..n : Listing(D)[i] = Listing(D)[j] => i = j
           /\ \A x \in D : \E i \in 1..n : Listing(D)[i] = x
<1> DEFINE n == Cardinality(D)
           Lists(s) == /\ \A i, j \in 1..n : s[i] = s[j] => i = j
                       /\ \A x \in D : \E i \in 1..n : s[i] = x
<1>1. n \in Nat /\ ExistsBijection(1..n, D)
  BY FS_CardinalityType
<1>2. \E s \in [1..n -> D] : Lists(s)
  BY <1>1 DEF ExistsBijection, Bijection, Injection, Surjection, IsInjective
<1>3. Listing(D) = CHOOSE s \in [1..n -> D] : Lists(s)
  BY DEF Listing
<1>4. Listing(D) \in [1..n -> D] /\ Lists(Listing(D))
  <2> HIDE DEF n, Lists
  <2> QED BY <1>2, <1>3
<1> QED BY <1>1, <1>4

\* The running totals of f, row by row.
Running(f, n) ==
    {t \in [0..n -> Int] : /\ t[0] = 0
                           /\ \A k \in 1..n : t[k] = t[k - 1] + f[Listing(DOMAIN f)[k]]}

\* SumOf is the last of the running totals.
LEMMA SumRunning ==
    ASSUME NEW D, IsFiniteSet(D), NEW f \in [D -> Int]
    PROVE  \E t \in Running(f, Cardinality(D)) : SumOf(f) = t[Cardinality(D)]
<1> DEFINE n == Cardinality(D)
           row == Listing(D)
           V == Int
           Add(k, v) == v + f[row[k]]
           step == [k \in 1..n |-> [v \in V |-> Add(k, v)]]
           Rec(g, k) == IF k = 0 THEN 0 ELSE Add(k, g[k - 1])
           F == CHOOSE g : g = [k \in 0..n |-> Rec(g, k)]
<1>1. n \in Nat /\ \A k \in 1..n : f[row[k]] \in Int
  BY ListingExists
<1>0. 0 \in V /\ \A k \in 1..n : \A v \in V : Add(k, v) \in V
  BY <1>1
<1>2. step \in [1..n -> [V -> V]]
  BY <1>0
<1>3. PICK t \in Iterates(V, 0, step, n) : TRUE
  <2> HIDE DEF V, step, n
  <2> QED BY <1>0, <1>1, <1>2, IterateExists
<1>4. /\ t \in [0..n -> V]
      /\ t[0] = 0
      /\ \A k \in 1..n : t[k] = Add(k, t[k - 1])
  <2>1. /\ t \in [0..n -> V]
        /\ t[0] = 0
        /\ \A k \in 1..n : t[k] = step[k][t[k - 1]]
    BY <1>3 DEF Iterates
  <2>2. ASSUME NEW k \in 1..n PROVE t[k] = Add(k, t[k - 1])
    <3>1. t[k - 1] \in V
      <4>1. k - 1 \in 0..n
        BY <1>1
      <4> HIDE DEF V, n
      <4> QED BY <2>1, <4>1
    <3>2. step[k][t[k - 1]] = Add(k, t[k - 1])
      BY <3>1
    <3> QED BY <2>1, <3>2
  <2> QED BY <2>1, <2>2
<1>5. t = [k \in 0..n |-> Rec(t, k)]
  <2>1. ASSUME NEW k \in 0..n PROVE t[k] = Rec(t, k)
    <3>1. k = 0 \/ k \in 1..n
      BY <1>1
    <3> HIDE DEF V
    <3> QED BY <1>4, <3>1
  <2> HIDE DEF V, Rec, n
  <2> QED BY <1>4, <2>1
<1>6. F = [k \in 0..n |-> Rec(F, k)]
  <2> HIDE DEF Rec, n
  <2> QED BY <1>5
<1>7. SumOf(f) = F[n]
  BY DEF SumOf
<1>8. F[0] = 0 /\ \A k \in 1..n : F[k] = Add(k, F[k - 1])
  <2>1. \A k \in 0..n : F[k] = Rec(F, k)
    <3> HIDE DEF F, Rec, n
    <3> QED BY <1>6
  <2>2. 0 \in 0..n /\ \A k \in 1..n : k \in 0..n /\ k # 0
    BY <1>1
  <2>3. Rec(F, 0) = 0
    OBVIOUS
  <2>4. \A k \in 1..n : Rec(F, k) = Add(k, F[k - 1])
    BY <2>2
  <2> HIDE DEF F, Add, Rec
  <2> QED BY <2>1, <2>2, <2>3, <2>4
<1>9. \A k \in 0..n : F[k] \in V
  <2> DEFINE Q == {k \in Nat : k <= n => F[k] \in V}
  <2> HIDE DEF F, V, Add
  <2>1. 0 \in Q
    BY <1>8, <1>0
  <2>2. ASSUME NEW k \in Nat, k \in Q PROVE k + 1 \in Q
    <3>1. CASE k + 1 <= n
      <4>1. k + 1 \in 1..n /\ (k + 1) - 1 = k /\ F[k] \in V
        BY <2>2, <3>1, <1>1
      <4> QED BY <4>1, <1>0, <1>8
    <3>2. CASE ~(k + 1 <= n)
      BY <3>2
    <3> QED BY <3>1, <3>2
  <2>3. Nat \subseteq Q
    <3> HIDE DEF Q
    <3> QED BY <2>1, <2>2, SetInduction
  <2> QED BY <2>3, <1>1
<1>10. F \in [0..n -> V]
  <2> HIDE DEF V, F, Rec, n
  <2> QED BY <1>6, <1>9
<1> QED
  <2> HIDE DEF F, row
  <2>1. F \in Running(f, n)
    BY <1>8, <1>10 DEF Running, row
  <2> QED BY <2>1, <1>7

\* Sums are monotone.
LEMMA SumMonotone ==
    ASSUME NEW D, IsFiniteSet(D), NEW f \in [D -> Int], NEW g \in [D -> Int],
           \A x \in D : f[x] <= g[x]
    PROVE  SumOf(f) \in Int /\ SumOf(g) \in Int /\ SumOf(f) <= SumOf(g)
<1> DEFINE n == Cardinality(D)
           row == Listing(D)
<1>1. n \in Nat /\ \A k \in 1..n : row[k] \in D
  BY ListingExists
<1>2. PICK t \in Running(f, n) : SumOf(f) = t[n]
  BY SumRunning
<1>3. PICK u \in Running(g, n) : SumOf(g) = u[n]
  BY SumRunning
<1>4. /\ t \in [0..n -> Int] /\ t[0] = 0
      /\ \A k \in 1..n : t[k] = t[k - 1] + f[row[k]]
      /\ u \in [0..n -> Int] /\ u[0] = 0
      /\ \A k \in 1..n : u[k] = u[k - 1] + g[row[k]]
  BY <1>2, <1>3 DEF Running
<1> DEFINE Q == {k \in Nat : k <= n => t[k] <= u[k]}
<1> HIDE DEF n, row
<1>5. 0 \in Q
  BY <1>4
<1>6. ASSUME NEW k \in Nat, k \in Q PROVE k + 1 \in Q
  <2>1. CASE k + 1 <= n
    <3>1. k + 1 \in 1..n /\ (k + 1) - 1 = k /\ k \in 0..n /\ t[k] <= u[k]
      BY <1>6, <2>1, <1>1
    <3>2. row[k + 1] \in D
      BY <1>1, <3>1
    <3>3. f[row[k + 1]] \in Int /\ g[row[k + 1]] \in Int /\ f[row[k + 1]] <= g[row[k + 1]]
      BY <3>2
    <3>4. t[k] \in Int /\ u[k] \in Int
      BY <1>4, <3>1
    <3>5. t[k + 1] = t[k] + f[row[k + 1]] /\ u[k + 1] = u[k] + g[row[k + 1]]
      BY <1>4, <3>1
    <3>6. t[k + 1] <= u[k + 1]
      BY <3>1, <3>3, <3>4, <3>5
    <3> QED BY <3>6
  <2>2. CASE ~(k + 1 <= n)
    BY <2>2
  <2> QED BY <2>1, <2>2
<1>7. Nat \subseteq Q
  <2> HIDE DEF Q
  <2> QED BY <1>5, <1>6, SetInduction
<1>8. t[n] <= u[n] /\ t[n] \in Int /\ u[n] \in Int
  BY <1>1, <1>4, <1>7
<1> QED BY <1>2, <1>3, <1>8 DEF n

\* A sum of zeros is zero.
LEMMA SumZero ==
    ASSUME NEW D, IsFiniteSet(D)
    PROVE  SumOf([x \in D |-> 0]) = 0
<1> DEFINE f == [x \in D |-> 0]
           n == Cardinality(D)
           row == Listing(D)
<1>1. n \in Nat /\ \A k \in 1..n : row[k] \in D
  BY ListingExists
<1>2. f \in [D -> Int] /\ \A x \in D : f[x] = 0
  OBVIOUS
<1>3. DOMAIN f = D
  OBVIOUS
<1> HIDE DEF f
<1>4. PICK t \in Running(f, n) : SumOf(f) = t[n]
  BY <1>2, SumRunning
<1>5. t[0] = 0 /\ \A k \in 1..n : t[k] = t[k - 1] + f[row[k]]
  BY <1>3, <1>4 DEF Running
<1> DEFINE Q == {k \in Nat : k <= n => t[k] = 0}
<1> HIDE DEF n, row
<1>6. 0 \in Q
  BY <1>5
<1>7. ASSUME NEW k \in Nat, k \in Q PROVE k + 1 \in Q
  <2>1. CASE k + 1 <= n
    <3>1. k + 1 \in 1..n /\ (k + 1) - 1 = k /\ t[k] = 0
      BY <1>7, <2>1, <1>1
    <3>2. f[row[k + 1]] = 0
      BY <1>1, <1>2, <3>1
    <3>3. t[k + 1] = 0
      BY <1>5, <3>1, <3>2
    <3> QED BY <3>3
  <2>2. CASE ~(k + 1 <= n)
    BY <2>2
  <2> QED BY <2>1, <2>2
<1>8. Nat \subseteq Q
  <2> HIDE DEF Q
  <2> QED BY <1>6, <1>7, SetInduction
<1>9. t[n] = 0
  BY <1>1, <1>8
<1> QED BY <1>4, <1>9 DEF f

\* A change of one row changes the sum by as much.
LEMMA SumChange ==
    ASSUME NEW D, IsFiniteSet(D), NEW f \in [D -> Int], NEW g \in [D -> Int], NEW r \in D,
           \A x \in D \ {r} : g[x] = f[x]
    PROVE  SumOf(g) = SumOf(f) + (g[r] - f[r])
<1> DEFINE n == Cardinality(D)
           row == Listing(D)
           Shift(k, i) == IF k < i THEN 0 ELSE g[r] - f[r]
<1>1. /\ n \in Nat /\ \A k \in 1..n : row[k] \in D
      /\ \A i, j \in 1..n : row[i] = row[j] => i = j
      /\ \E i \in 1..n : row[i] = r
  BY ListingExists
<1>2. PICK t \in Running(f, n) : SumOf(f) = t[n]
  BY SumRunning
<1>3. PICK u \in Running(g, n) : SumOf(g) = u[n]
  BY SumRunning
<1>4. /\ t \in [0..n -> Int] /\ t[0] = 0
      /\ \A k \in 1..n : t[k] = t[k - 1] + f[row[k]]
      /\ u \in [0..n -> Int] /\ u[0] = 0
      /\ \A k \in 1..n : u[k] = u[k - 1] + g[row[k]]
  BY <1>2, <1>3 DEF Running
<1>5. PICK i \in 1..n : row[i] = r
  BY <1>1
<1>6. f[r] \in Int /\ g[r] \in Int
  OBVIOUS
<1> DEFINE Q == {k \in Nat : k <= n => u[k] = t[k] + Shift(k, i)}
<1> HIDE DEF n, row
<1>7. 0 \in Q
  BY <1>4, <1>5
<1>8. ASSUME NEW k \in Nat, k \in Q PROVE k + 1 \in Q
  <2>1. CASE k + 1 <= n
    <3>1. k + 1 \in 1..n /\ (k + 1) - 1 = k /\ k \in 0..n /\ u[k] = t[k] + Shift(k, i)
      BY <1>8, <2>1, <1>1
    <3>2. row[k + 1] \in D /\ (row[k + 1] = r <=> k + 1 = i)
      BY <1>1, <1>5, <3>1
    <3>3. f[row[k + 1]] \in Int /\ g[row[k + 1]] \in Int
      BY <3>2
    <3>4. t[k] \in Int /\ u[k] \in Int
      BY <1>4, <3>1
    <3>5. t[k + 1] = t[k] + f[row[k + 1]] /\ u[k + 1] = u[k] + g[row[k + 1]]
      BY <1>4, <3>1
    <3>6. CASE k + 1 = i
      <4>1. Shift(k, i) = 0 /\ Shift(k + 1, i) = g[r] - f[r] /\ row[k + 1] = r
        BY <3>2, <3>6
      <4> QED BY <1>6, <3>1, <3>4, <3>5, <4>1
    <3>7. CASE k + 1 # i
      <4>1. g[row[k + 1]] = f[row[k + 1]]
        BY <3>2, <3>7
      <4>2. Shift(k, i) = Shift(k + 1, i) /\ Shift(k, i) \in Int
        BY <1>5, <1>6, <3>7
      <4> HIDE DEF Shift
      <4> QED BY <3>1, <3>3, <3>4, <3>5, <4>1, <4>2
    <3> QED BY <3>6, <3>7
  <2>2. CASE ~(k + 1 <= n)
    BY <2>2
  <2> QED BY <2>1, <2>2
<1>9. Nat \subseteq Q
  <2> HIDE DEF Q
  <2> QED BY <1>7, <1>8, SetInduction
<1>10. u[n] = t[n] + (g[r] - f[r])
  BY <1>1, <1>5, <1>9
<1> QED BY <1>2, <1>3, <1>10 DEF n

\* A sum of naturals is one, and no row is more than the sum.
LEMMA SumNatural ==
    ASSUME NEW D, IsFiniteSet(D), NEW f \in [D -> Nat]
    PROVE  SumOf(f) \in Nat /\ \A r \in D : f[r] <= SumOf(f)
<1> DEFINE zero == [x \in D |-> 0]
<1>1. SumOf(zero) = 0
  BY SumZero
<1>2. f \in [D -> Int] /\ zero \in [D -> Int] /\ \A x \in D : zero[x] = 0 /\ f[x] \in Nat
  OBVIOUS
<1> HIDE DEF zero
<1>3. SumOf(f) \in Nat
  <2>1. SumOf(f) \in Int /\ SumOf(zero) <= SumOf(f)
    BY <1>2, SumMonotone
  <2> QED BY <1>1, <2>1
<1>4. ASSUME NEW r \in D PROVE f[r] <= SumOf(f)
  <2> DEFINE one == [x \in D |-> IF x = r THEN f[r] ELSE 0]
  <2>1. one \in [D -> Int] /\ one[r] = f[r] /\ \A x \in D \ {r} : one[x] = zero[x]
    BY <1>2
  <2>2. \A x \in D : one[x] <= f[x]
    BY <1>2
  <2> HIDE DEF one
  <2>3. SumOf(one) = SumOf(zero) + (one[r] - zero[r])
    BY <1>2, <2>1, SumChange
  <2>4. SumOf(one) <= SumOf(f)
    BY <1>2, <2>1, <2>2, SumMonotone
  <2>5. f[r] \in Nat /\ zero[r] = 0
    BY <1>2
  <2> QED BY <1>1, <2>1, <2>3, <2>4, <2>5
<1> QED BY <1>3, <1>4

\* Rows that are at most q inside A and at most zero outside add up to at most
\* Cardinality(A) times q.
LEMMA SumBound ==
    ASSUME NEW D, IsFiniteSet(D), NEW q \in Nat, NEW A \in SUBSET D, NEW f \in [D -> Int],
           \A x \in D : f[x] <= IF x \in A THEN q ELSE 0
    PROVE  SumOf(f) <= Cardinality(A) * q
<1> DEFINE Within(B, g) == \A x \in D : g[x] <= IF x \in B THEN q ELSE 0
           Q == {m \in Nat : \A B \in SUBSET D : \A g \in [D -> Int] :
                    Cardinality(B) = m /\ Within(B, g) => SumOf(g) <= m * q}
<1>1. 0 \in Q
  <2> SUFFICES ASSUME NEW B \in SUBSET D, NEW g \in [D -> Int],
                      Cardinality(B) = 0, Within(B, g)
               PROVE  SumOf(g) <= 0 * q
    OBVIOUS
  <2> DEFINE zero == [x \in D |-> 0]
  <2>1. B = {}
    BY FS_Subset, FS_EmptySet
  <2>2. zero \in [D -> Int] /\ \A x \in D : g[x] <= zero[x]
    BY <2>1
  <2>3. SumOf(zero) = 0
    BY SumZero
  <2> HIDE DEF zero
  <2>4. SumOf(g) <= SumOf(zero) /\ SumOf(g) \in Int
    BY <2>2, SumMonotone
  <2> QED BY <2>3, <2>4
<1>2. ASSUME NEW m \in Nat, m \in Q PROVE m + 1 \in Q
  <2> SUFFICES ASSUME NEW B \in SUBSET D, NEW g \in [D -> Int],
                      Cardinality(B) = m + 1, Within(B, g)
               PROVE  SumOf(g) <= (m + 1) * q
    OBVIOUS
  <2>1. IsFiniteSet(B) /\ B # {}
    BY FS_Subset, FS_EmptySet
  <2>2. PICK a \in B : TRUE
    BY <2>1
  <2> DEFINE h == [x \in D |-> IF x = a THEN 0 ELSE g[x]]
  <2>3. Cardinality(B \ {a}) = m /\ B \ {a} \in SUBSET D
    <3>1. Cardinality(B \ {a}) = Cardinality(B) - 1
      BY <2>1, <2>2, FS_RemoveElement
    <3> QED BY <3>1
  <2>4. a \in D /\ h \in [D -> Int] /\ h[a] = 0 /\ \A x \in D \ {a} : g[x] = h[x]
    BY <2>2
  <2>5. Within(B \ {a}, h)
    <3> SUFFICES ASSUME NEW x \in D PROVE h[x] <= IF x \in B \ {a} THEN q ELSE 0
      OBVIOUS
    <3>1. CASE x = a
      BY <3>1
    <3>2. CASE x # a
      BY <3>2
    <3> QED BY <3>1, <3>2
  <2> HIDE DEF h
  <2>6. SumOf(h) <= m * q
    BY <1>2, <2>3, <2>4, <2>5
  <2>7. SumOf(g) = SumOf(h) + (g[a] - h[a])
    BY <2>4, SumChange
  <2>8. g[a] <= q /\ g[a] \in Int
    BY <2>2, <2>4
  <2>9. SumOf(h) \in Int
    BY <2>4, SumMonotone
  <2>10. m * q \in Int /\ (m + 1) * q = m * q + q
    OBVIOUS
  <2> QED BY <2>4, <2>6, <2>7, <2>8, <2>9, <2>10
<1>3. Nat \subseteq Q
  <2> HIDE DEF Q
  <2> QED BY <1>1, <1>2, SetInduction
<1>4. Cardinality(A) \in Nat
  BY FS_Subset, FS_CardinalityType
<1> QED BY <1>3, <1>4
=============================================================================
