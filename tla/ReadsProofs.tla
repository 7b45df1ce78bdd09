----------------------------- MODULE ReadsProofs ------------------------------
(***************************************************************************)
(* Proofs about the reading side: for any tables, requests and writers a   *)
(* finished request has the parts of its reply, and when nothing was       *)
(* written since it began, they are those of one state of the tables.      *)
(*                                                                         *)
(* The invariant says how far each request has come and, as long as        *)
(* nothing was written, that every part of its reply is an answer of its   *)
(* statement for the tables as they are.  What the properties say of such  *)
(* a reply is a matter of sorted sequences, limits and folds: no property  *)
(* needs more of the order than that what comes later does not come before.*)
(***************************************************************************)
EXTENDS Reads, Integers, FiniteSetTheorems, SequenceTheorems, WellFoundedInduction,
        TLAPS

-----------------------------------------------------------------------------
(* Counting and folds *)

\* Of some natural numbers, one is the least.
LEMMA Least ==
    ASSUME NEW T \in SUBSET Nat, T # {}
    PROVE  \E x \in T : \A y \in T : x <= y
<1> DEFINE R == {ss \in Nat \X Nat : ss[1] < ss[2]}
<1>1. IsWellFoundedOn(R, Nat)
  BY NatLessThanWellFounded, Zenon DEF OpToRel
<1> HIDE DEF R
<1>2. PICK x \in T : \A y \in T : ~(<<y, x>> \in R)
  BY <1>1, WFMin, Zenon
<1>3. \A y \in T : ~(y < x)
  BY <1>2 DEF R
<1> QED BY <1>3

\* Taking an element out of a finite set leaves a smaller one.
LEMMA OneLess ==
    ASSUME NEW S, IsFiniteSet(S), NEW x \in S
    PROVE  /\ IsFiniteSet(S \ {x})
           /\ Cardinality(S) \in Nat
           /\ Cardinality(S \ {x}) \in Nat
           /\ Cardinality(S \ {x}) = Cardinality(S) - 1
BY FS_RemoveElement, FS_CardinalityType

\* The values of a fold for all subsets of S, whose elements are picked one by one.
Picks(pick, S) == \A s \in SUBSET S : s # {} => pick[s] \in s
IsFold(g, S, base, G, pick) ==
    \A s \in SUBSET S :
        g[s] = IF s = {} THEN base ELSE G[<<pick[s], g[s \ {pick[s]}]>>]

\* A fold over the subsets of a finite set exists: the values for the subsets of
\* each size are found from those of the smaller ones.
LEMMA FoldExists ==
    ASSUME NEW S, IsFiniteSet(S), NEW V, NEW base \in V, NEW G \in [S \X V -> V],
           NEW pick, Picks(pick, S)
    PROVE  \E g \in [SUBSET S -> V] : IsFold(g, S, base, G, pick)
<1> DEFINE Up(n) == {s \in SUBSET S : Cardinality(s) <= n}
           Good(n, g) == /\ g \in [SUBSET S -> V]
                         /\ \A s \in Up(n) :
                              g[s] = IF s = {} THEN base ELSE G[<<pick[s], g[s \ {pick[s]}]>>]
           T == {n \in Nat : ~ \E g : Good(n, g)}
<1>1. \A s \in SUBSET S : IsFiniteSet(s) /\ Cardinality(s) \in Nat
  BY FS_Subset, FS_CardinalityType
<1>2. \A s \in SUBSET S : s # {} =>
        /\ pick[s] \in S /\ s \ {pick[s]} \in SUBSET S
        /\ Cardinality(s \ {pick[s]}) = Cardinality(s) - 1
  BY <1>1, OneLess DEF Picks
<1>3. \A s \in SUBSET S : Cardinality(s) <= 0 => s = {}
  BY <1>1, FS_EmptySet
<1>4. 0 \notin T
  <2>1. Good(0, [s \in SUBSET S |-> base])
    BY <1>3
  <2> QED BY <2>1
<1>5. T = {}
  <2>1. SUFFICES ASSUME T # {} PROVE FALSE
    OBVIOUS
  <2>2. PICK n \in T : \A m \in T : n <= m
    <3>1. T \in SUBSET Nat
      OBVIOUS
    <3> HIDE DEF T
    <3> QED BY <2>1, <3>1, Least
  <2>3. n \in Nat /\ n - 1 \in Nat /\ n - 1 \notin T
    <3>1. T \subseteq Nat
      OBVIOUS
    <3> HIDE DEF T
    <3>2. n \in Nat /\ n # 0
      BY <1>4, <2>2, <3>1
    <3> QED BY <2>2, <3>2
  <2>4. PICK g : Good(n - 1, g)
    BY <2>3
  <2> DEFINE h == [s \in SUBSET S |->
                     IF s = {} THEN base ELSE G[<<pick[s], g[s \ {pick[s]}]>>]]
  <2>5. \A s \in SUBSET S : s # {} => G[<<pick[s], g[s \ {pick[s]}]>>] \in V
    BY <1>2, <2>4
  <2>6. h \in [SUBSET S -> V]
    BY <2>5
  <2>7. ASSUME NEW s \in Up(n)
        PROVE  h[s] = IF s = {} THEN base ELSE G[<<pick[s], h[s \ {pick[s]}]>>]
    <3>1. CASE s = {}
      BY <3>1
    <3>2. CASE s # {}
      <4> DEFINE u == s \ {pick[s]}
      <4>1. u \in SUBSET S /\ u \in Up(n - 1)
        BY <1>1, <1>2, <2>3, <3>2
      <4>2. h[u] = g[u]
        BY <2>4, <4>1
      <4>3. h[s] = G[<<pick[s], g[u]>>]
        BY <3>2
      <4> HIDE DEF h, u
      <4>4. h[s] = G[<<pick[s], h[u]>>]
        BY <4>2, <4>3
      <4> QED BY <3>2, <4>4 DEF u
    <3> QED BY <3>1, <3>2
  <2>8. Good(n, h)
    <3> HIDE DEF h
    <3> QED BY <2>6, <2>7
  <2>9. \E k : Good(n, k)
    <3> HIDE DEF h, Good
    <3> QED BY <2>8
  <2> QED BY <2>2, <2>9
<1> DEFINE n == Cardinality(S)
<1>6. n \in Nat /\ Up(n) = SUBSET S
  <2>1. \A s \in SUBSET S : Cardinality(s) <= n
    BY FS_Subset
  <2> QED BY <1>1, <2>1
<1>7. PICK g : Good(n, g)
  <2> HIDE DEF n, Good
  <2> QED BY <1>5, <1>6
<1> QED BY <1>6, <1>7 DEF IsFold

\* A set that has zero and with each number the next one is all of Nat.
LEMMA Counting ==
    ASSUME NEW T \in SUBSET Nat, 0 \in T, \A n \in T : n + 1 \in T
    PROVE  T = Nat
<1> DEFINE U == Nat \ T
<1>1. SUFFICES ASSUME U # {} PROVE FALSE
  OBVIOUS
<1>2. PICK n \in U : \A m \in U : n <= m
  BY <1>1, Least
<1>3. n \in Nat /\ n # 0 /\ n - 1 \in Nat /\ n - 1 \notin U
  BY <1>2
<1>4. n - 1 \in T /\ (n - 1) + 1 = n
  BY <1>3
<1> QED BY <1>2, <1>4

\* The sum of the sizes of the groups of a finite set is its size.
LEMMA GroupsAddUp ==
    ASSUME NEW S, IsFiniteSet(S), NEW key,
           NEW D, D = {key[s] : s \in S}
    PROVE  SumOf([c \in D |-> Cardinality({s \in S : key[s] = c})]) = Cardinality(S)
<1> DEFINE f == [c \in D |-> Cardinality({s \in S : key[s] = c})]
           In(u) == {s \in S : key[s] \in u}
           Eq(g) == g = [u \in SUBSET D |->
                           IF u = {} THEN 0
                           ELSE f[CHOOSE x \in u : TRUE] + g[u \ {CHOOSE x \in u : TRUE}]]
           h == [u \in SUBSET D |-> Cardinality(In(u))]
<1>1. SumOf(f) = (CHOOSE g : Eq(g))[D]
  BY DEF SumOf, FoldFunction, FoldFunctionOnSet, MapThenFoldSet
<1>2. IsFiniteSet(D)
  <2> DEFINE k == [s \in S |-> key[s]]
  <2>1. k \in Surjection(S, D)
    BY DEF Surjection
  <2> HIDE DEF k
  <2> QED BY <2>1, FS_Surjection
<1>3. \A u \in SUBSET D : IsFiniteSet(u) /\ Cardinality(u) \in Nat
  BY <1>2, FS_Subset, FS_CardinalityType
<1>4. ASSUME NEW u \in SUBSET D, NEW x \in u
      PROVE  Cardinality(In(u)) = f[x] + Cardinality(In(u \ {x}))
  <2> DEFINE A == In(u \ {x})
             B == {s \in S : key[s] = x}
  <2>1. IsFiniteSet(A) /\ IsFiniteSet(B) /\ A \cap B = {} /\ In(u) = A \cup B
    <3>1. A \subseteq S /\ B \subseteq S
      OBVIOUS
    <3>2. IsFiniteSet(A) /\ IsFiniteSet(B)
      <4> HIDE DEF A, B
      <4> QED BY <3>1, FS_Subset
    <3>3. A \cap B = {} /\ In(u) = A \cup B
      OBVIOUS
    <3> QED BY <3>2, <3>3
  <2>2. f[x] = Cardinality(B)
    OBVIOUS
  <2> HIDE DEF A, B, In, f
  <2>3. Cardinality(A \cap B) = 0
    BY <2>1, FS_EmptySet
  <2>4. Cardinality(A \cup B) = Cardinality(A) + Cardinality(B) - Cardinality(A \cap B)
    BY <2>1, FS_Union
  <2>5. Cardinality(A) \in Nat /\ Cardinality(B) \in Nat
    BY <2>1, FS_CardinalityType
  <2> QED BY <2>1, <2>2, <2>3, <2>4, <2>5 DEF A
<1>5. Cardinality(In({})) = 0
  <2>1. In({}) = {}
    OBVIOUS
  <2> HIDE DEF In
  <2> QED BY <2>1, FS_EmptySet
<1>6. Eq(h)
  <2>1. ASSUME NEW u \in SUBSET D
        PROVE  h[u] = IF u = {} THEN 0
                      ELSE f[CHOOSE x \in u : TRUE] + h[u \ {CHOOSE x \in u : TRUE}]
    <3> DEFINE x == CHOOSE x \in u : TRUE
    <3>1. CASE u = {}
      BY <1>5, <3>1
    <3>2. CASE u # {}
      <4>1. x \in u
        BY <3>2
      <4> HIDE DEF x, f, In
      <4>2. h[u] = f[x] + h[u \ {x}]
        BY <1>4, <4>1
      <4> QED BY <3>2, <4>2 DEF x
    <3> QED BY <3>1, <3>2
  <2> QED BY <2>1
<1>7. PICK g : Eq(g) /\ SumOf(f) = g[D]
  <2> HIDE DEF Eq, h, f
  <2> QED BY <1>1, <1>6
<1> DEFINE T == {n \in Nat : \A u \in SUBSET D : Cardinality(u) = n => g[u] = h[u]}
<1>8. \A u \in SUBSET D : u # {} =>
        \E x \in u : /\ g[u] = f[x] + g[u \ {x}]
                     /\ h[u] = f[x] + h[u \ {x}]
  <2> SUFFICES ASSUME NEW u \in SUBSET D, u # {}
               PROVE  \E x \in u : /\ g[u] = f[x] + g[u \ {x}]
                                   /\ h[u] = f[x] + h[u \ {x}]
    OBVIOUS
  <2> DEFINE x == CHOOSE x \in u : TRUE
  <2>1. x \in u
    OBVIOUS
  <2>2. g[u] = f[x] + g[u \ {x}]
    <3> HIDE DEF f
    <3> QED BY <1>7
  <2>3. h[u] = f[x] + h[u \ {x}]
    <3> HIDE DEF f, h
    <3> QED BY <1>6
  <2> HIDE DEF x, f, h
  <2> QED BY <2>1, <2>2, <2>3
<1>9. 0 \in T
  <2>1. g[{}] = 0 /\ h[{}] = 0
    BY <1>5, <1>7
  <2>2. \A u \in SUBSET D : Cardinality(u) = 0 => u = {}
    BY <1>3, FS_EmptySet
  <2> HIDE DEF h
  <2> QED BY <2>1, <2>2
<1>10. \A n \in T : n + 1 \in T
  <2> HIDE DEF f, h
  <2> SUFFICES ASSUME NEW n \in T, NEW u \in SUBSET D, Cardinality(u) = n + 1
               PROVE  g[u] = h[u]
    OBVIOUS
  <2>1. n \in Nat
    OBVIOUS
  <2>4. u # {}
    <3>1. Cardinality({}) = 0
      BY FS_EmptySet
    <3> QED BY <2>1, <3>1
  <2>2. PICK x \in u : g[u] = f[x] + g[u \ {x}] /\ h[u] = f[x] + h[u \ {x}]
    BY <1>8, <2>4
  <2>3. Cardinality(u \ {x}) = n /\ u \ {x} \in SUBSET D
    BY <1>3, <2>1, OneLess
  <2> QED BY <2>2, <2>3
<1>11. T = Nat
  <2>1. T \in SUBSET Nat
    OBVIOUS
  <2> HIDE DEF T
  <2> QED BY <1>9, <1>10, <2>1, Counting
<1>12. g[D] = h[D]
  <2> HIDE DEF h
  <2> QED BY <1>3, <1>11
<1>13. In(D) = S
  OBVIOUS
<1> HIDE DEF In
<1> QED BY <1>7, <1>12, <1>13
-----------------------------------------------------------------------------
(* What the database returns *)

\* q lists n elements of S.
Lists(q, n, S) == q \in [1..n -> S]

\* A sequence of all elements of a finite set shows each at one position.
LEMMA SequencesShowAll ==
    ASSUME NEW S, IsFiniteSet(S), NEW q \in SetToSeqs(S)
    PROVE  /\ Cardinality(S) \in Nat
           /\ q \in [1..Cardinality(S) -> S]
           /\ \A i, j \in 1..Cardinality(S) : q[i] = q[j] => i = j
           /\ \A x \in S : \E i \in 1..Cardinality(S) : q[i] = x
<1> DEFINE n == Cardinality(S)
<1>1. n \in Nat
  BY FS_CardinalityType
<1>2. q \in [1..n -> S] /\ \A i, j \in 1..n : q[i] = q[j] => i = j
  BY DEF SetToSeqs
<1>3. IsFiniteSet(1..n) /\ Cardinality(1..n) = n
  BY <1>1, FS_Interval
<1>4. q \in Injection(1..n, S)
  BY <1>2 DEF Injection, IsInjective
<1>5. q \in Surjection(1..n, S)
  BY <1>3, <1>4, FS_Injection
<1> QED BY <1>1, <1>2, <1>5 DEF Surjection

\* LIMIT: the first rows, all of them or as many as the limit says.
LEMMA AtMostIsFirst ==
    ASSUME NEW n \in Nat, NEW S, NEW q, Lists(q, n, S),
           NEW limit \in Maybe(Nat \ {0})
    PROVE  \E m \in 0..n :
             /\ m = n \/ m = limit
             /\ Lists(AtMost(q, limit), m, S)
             /\ \A i \in 1..m : AtMost(q, limit)[i] = q[i]
<1>1. q \in Seq(S) /\ Len(q) = n
  BY LenProperties, SeqDef DEF Lists
<1>2. CASE limit = NULL \/ n <= limit
  <2>1. AtMost(q, limit) = q
    BY <1>1, <1>2 DEF AtMost
  <2>2. n \in 0..n
    OBVIOUS
  <2> QED BY <2>1, <2>2
<1>3. CASE ~(limit = NULL \/ n <= limit)
  <2>1. AtMost(q, limit) = SubSeq(q, 1, limit) /\ limit \in 1..n
    BY <1>1, <1>3 DEF AtMost, Maybe
  <2>2. SubSeq(q, 1, limit) = [i \in 1..limit |-> q[i]]
    BY <2>1, <1>1
  <2>3. limit \in 0..n /\ 1..limit \subseteq 1..n
    BY <2>1
  <2> DEFINE f == [i \in 1..limit |-> q[i]]
  <2>4. f \in [1..limit -> S] /\ \A i \in 1..limit : f[i] = q[i]
    BY <2>3 DEF Lists
  <2>5. AtMost(q, limit) = f
    BY <2>1, <2>2
  <2> HIDE DEF f
  <2> QED BY <2>3, <2>4, <2>5 DEF Lists
<1> QED BY <1>2, <1>3

\* How many of n rows are left from one position on, at most as many as the limit.
SliceLength(n, from, size) == IF n < from THEN 0 ELSE Smaller(size, n - from)

\* OFFSET and LIMIT: the rows from one position on.
LEMMA SliceIsPart ==
    ASSUME NEW n \in Nat, NEW S, NEW q, Lists(q, n, S),
           NEW from \in Nat, NEW size \in Nat \ {0}
    PROVE  /\ SliceLength(n, from, size) \in Nat
           /\ Lists(Slice(q, from, size), SliceLength(n, from, size), S)
           /\ \A i \in 1..SliceLength(n, from, size) :
                from + i \in 1..n /\ Slice(q, from, size)[i] = q[from + i]
<1>1. q \in Seq(S) /\ Len(q) = n
  BY LenProperties, SeqDef DEF Lists
<1> DEFINE to == IF n < from + size THEN n ELSE from + size
           len == SliceLength(n, from, size)
<1>2. Slice(q, from, size) = SubSeq(q, from + 1, to)
  BY <1>1 DEF Slice
<1>3. len \in Nat /\ (from + 1 <= to => len = to - from) /\ (~(from + 1 <= to) => len = 0)
  BY DEF Smaller, SliceLength
<1>4. SubSeq(q, from + 1, to) = [i \in 1..len |-> q[from + i]]
  BY <1>1, <1>3
<1>5. \A i \in 1..len : from + i \in 1..n
  BY <1>3
<1> QED BY <1>2, <1>3, <1>4, <1>5 DEF Lists

\* q shows each of the n elements of S once, those with a smaller key first.
Orders(q, n, S, key) ==
    /\ q \in [1..n -> S]
    /\ \A i, j \in 1..n : q[i] = q[j] => i = j
    /\ \A s \in S : \E i \in 1..n : q[i] = s
    /\ \A i, j \in 1..n : i < j => key[q[i]] <= key[q[j]]

KeysDiffer(S, key) ==
    (\A s \in S : key[s] \in Int) /\ \A s, t \in S : key[s] = key[t] => s = t

\* Rows whose keys differ have one order only.
LEMMA OneOrder ==
    ASSUME NEW n \in Nat, NEW S, NEW key, KeysDiffer(S, key),
           NEW p, Orders(p, n, S, key), NEW q, Orders(q, n, S, key)
    PROVE  p = q
<1> USE DEF Orders, KeysDiffer
<1> DEFINE T == {i \in 1..n : p[i] # q[i]}
<1>1. SUFFICES ASSUME T # {} PROVE FALSE
  <2>1. T = {} => \A i \in 1..n : p[i] = q[i]
    OBVIOUS
  <2>2. p = [i \in 1..n |-> p[i]] /\ q = [i \in 1..n |-> q[i]]
    OBVIOUS
  <2>3. T = {} => p = q
    <3> HIDE DEF T
    <3>1. SUFFICES ASSUME T = {} PROVE [i \in 1..n |-> p[i]] = [i \in 1..n |-> q[i]]
      BY <2>2
    <3> QED BY <2>1, <3>1
  <2> QED BY <2>3
<1>2. T \in SUBSET Nat
  OBVIOUS
<1>3. PICK i \in T : \A j \in T : i <= j
  <2> HIDE DEF T
  <2> QED BY <1>1, <1>2, Least
<1>4. i \in 1..n /\ p[i] # q[i] /\ \A j \in 1..n : j < i => p[j] = q[j]
  BY <1>3
<1>5. PICK j \in 1..n : q[j] = p[i]
  BY <1>4
<1>6. PICK k \in 1..n : p[k] = q[i]
  BY <1>4
<1>7. i < j /\ i < k
  <2>1. j # i /\ k # i
    BY <1>4, <1>5, <1>6
  <2>2. ~(j < i) /\ ~(k < i)
    <3>1. j < i => p[j] = p[i]
      BY <1>4, <1>5
    <3>2. k < i => q[k] = q[i]
      BY <1>4, <1>6
    <3> QED BY <1>4, <2>1, <3>1, <3>2
  <2> QED BY <1>4, <2>1, <2>2
<1>8. key[q[i]] <= key[q[j]] /\ key[p[i]] <= key[p[k]]
  BY <1>4, <1>7
<1>9. key[p[i]] = key[q[i]] /\ p[i] \in S /\ q[i] \in S
  BY <1>4, <1>5, <1>6, <1>8
<1> QED BY <1>4, <1>9

\* Turning the pages: one page ends before the next begins.
LEMMA PagesAreApart ==
    ASSUME NEW size \in Nat \ {0}, NEW p \in Nat \ {0}, NEW q \in Nat \ {0}, p < q
    PROVE  (p - 1) * size + size <= (q - 1) * size
<1>1. PICK d \in Nat : q = p + 1 + d
  <2>1. q - p - 1 \in Nat /\ q = p + 1 + (q - p - 1)
    OBVIOUS
  <2> QED BY <2>1
<1>2. (q - 1) * size = (p - 1) * size + size + d * size
  BY <1>1
<1>3. d * size \in Nat /\ (p - 1) * size \in Nat
  OBVIOUS
<1> QED BY <1>2, <1>3

\* Each row is on one of the pages there are.
LEMMA PagesCover ==
    ASSUME NEW size \in Nat \ {0}, NEW n \in Nat, NEW i \in 1..n
    PROVE  \E p \in 1..TotalPages(n, size) :
             (p - 1) * size < i /\ i <= (p - 1) * size + size
<1> DEFINE c == (i - 1) \div size
           t == (n + size - 1) \div size
<1>1. c \in Nat /\ c * size <= i - 1 /\ i - 1 < c * size + size
  OBVIOUS
<1>2. t \in Nat /\ t * size <= n + size - 1 /\ n + size - 1 < t * size + size
  OBVIOUS
<1>3. TotalPages(n, size) = t
  BY DEF TotalPages
<1> HIDE DEF c, t
<1>4. c * size < t * size
  BY <1>1, <1>2
<1>5. c < t
  BY <1>1, <1>2, <1>4
<1>6. c + 1 \in 1..t /\ (c + 1) - 1 = c
  BY <1>1, <1>2, <1>5
<1> QED BY <1>1, <1>3, <1>6

\* The greatest of some numbers up to n.
LEMMA Greatest ==
    ASSUME NEW n \in Nat, NEW T \in SUBSET (1..n), T # {}
    PROVE  Max(T) \in T /\ \A y \in T : y <= Max(T)
<1> DEFINE U == {u \in Nat : \E y \in T : u = n - y}
<1>1. U \in SUBSET Nat /\ U # {}
  <2>1. PICK y \in T : TRUE
    OBVIOUS
  <2>2. n - y \in U
    BY <2>1
  <2> QED BY <2>2
<1>2. PICK u \in U : \A w \in U : u <= w
  <2> HIDE DEF U
  <2> QED BY <1>1, Least
<1>3. PICK x \in T : u = n - x
  BY <1>2
<1>4. \A y \in T : y <= x
  <2> SUFFICES ASSUME NEW y \in T PROVE y <= x
    OBVIOUS
  <2>1. n - y \in U
    OBVIOUS
  <2> QED BY <1>2, <1>3, <2>1
<1>5. \E z \in T : \A y \in T : z >= y
  BY <1>4
<1> QED BY <1>5 DEF Max

\* What the loop shows of the rows so far: some of them in their order, each site
\* once, and no site of theirs is missing.
ShowsFirsts(shown, rows, k) ==
    \E m \in Nat : \E idx \in [1..m -> 1..k] :
        /\ shown = [i \in 1..m |-> rows[idx[i]]]
        /\ \A i, j \in 1..m : i < j => idx[i] < idx[j]
        /\ \A i, j \in 1..m : rows[idx[i]].site = rows[idx[j]].site => i = j
        /\ \A h \in 1..k : \E i \in 1..m : rows[idx[i]].site = rows[h].site

\* One round of the loop.
LEMMA ShowsNext ==
    ASSUME NEW n \in Nat, NEW V, NEW rows \in [1..n -> V], NEW k \in Nat, k + 1 <= n,
           NEW shown, ShowsFirsts(shown, rows, k)
    PROVE  ShowsFirsts(IF \E i \in DOMAIN shown : shown[i].site = rows[k + 1].site
                       THEN shown ELSE Append(shown, rows[k + 1]), rows, k + 1)
<1>0. PICK m \in Nat : \E idx \in [1..m -> 1..k] :
        /\ shown = [i \in 1..m |-> rows[idx[i]]]
        /\ \A i, j \in 1..m : i < j => idx[i] < idx[j]
        /\ \A i, j \in 1..m : rows[idx[i]].site = rows[idx[j]].site => i = j
        /\ \A h \in 1..k : \E i \in 1..m : rows[idx[i]].site = rows[h].site
  BY DEF ShowsFirsts
<1>1. PICK idx \in [1..m -> 1..k] :
        /\ shown = [i \in 1..m |-> rows[idx[i]]]
        /\ \A i, j \in 1..m : i < j => idx[i] < idx[j]
        /\ \A i, j \in 1..m : rows[idx[i]].site = rows[idx[j]].site => i = j
        /\ \A h \in 1..k : \E i \in 1..m : rows[idx[i]].site = rows[h].site
  BY <1>0
<1>2. 1..(k + 1) = (1..k) \cup {k + 1} /\ k + 1 \in 1..n /\ 1..k \subseteq 1..n
  OBVIOUS
<1>3. DOMAIN shown = 1..m /\ \A i \in 1..m : shown[i] = rows[idx[i]]
  BY <1>1
<1>4. CASE \E i \in 1..m : rows[idx[i]].site = rows[k + 1].site
  <2>1. idx \in [1..m -> 1..(k + 1)]
    BY <1>2
  <2>2. \A h \in 1..(k + 1) : \E i \in 1..m : rows[idx[i]].site = rows[h].site
    BY <1>1, <1>2, <1>4
  <2>3. ShowsFirsts(shown, rows, k + 1)
    <3>1. \E ix \in [1..m -> 1..(k + 1)] :
            /\ shown = [i \in 1..m |-> rows[ix[i]]]
            /\ \A i, j \in 1..m : i < j => ix[i] < ix[j]
            /\ \A i, j \in 1..m : rows[ix[i]].site = rows[ix[j]].site => i = j
            /\ \A h \in 1..(k + 1) : \E i \in 1..m : rows[ix[i]].site = rows[h].site
      BY <1>1, <2>1, <2>2, Zenon
    <3> QED BY <3>1 DEF ShowsFirsts
  <2> QED BY <1>3, <1>4, <2>3
<1>5. CASE ~ \E i \in 1..m : rows[idx[i]].site = rows[k + 1].site
  <2> DEFINE next == [i \in 1..(m + 1) |-> IF i = m + 1 THEN k + 1 ELSE idx[i]]
             more == Append(shown, rows[k + 1])
  <2>1. 1..(m + 1) = (1..m) \cup {m + 1} /\ m + 1 \in Nat
    OBVIOUS
  <2>2. next \in [1..(m + 1) -> 1..(k + 1)]
    BY <1>2, <2>1
  <2>3. next[m + 1] = k + 1 /\ \A i \in 1..m : next[i] = idx[i] /\ next[i] < k + 1
    BY <2>1
  <2>4. more = [i \in 1..(m + 1) |-> rows[next[i]]]
    <3>1. shown \in Seq(V) /\ Len(shown) = m /\ rows[k + 1] \in V
      <4>1. shown \in [1..m -> V]
        BY <1>1, <1>2
      <4> QED BY <1>2, <4>1, LenProperties, SeqDef
    <3>2. /\ more \in Seq(V) /\ Len(more) = m + 1 /\ more[m + 1] = rows[k + 1]
          /\ \A i \in 1..m : more[i] = shown[i]
      <4> HIDE DEF next
      <4> QED BY <3>1, AppendProperties
    <3>3. DOMAIN more = 1..(m + 1)
      <4> HIDE DEF more
      <4> QED BY <3>2, LenProperties
    <3>4. \A i \in 1..(m + 1) : more[i] = rows[next[i]]
      <4> HIDE DEF more, next
      <4> QED BY <1>3, <2>1, <2>3, <3>2
    <3>5. more = [i \in DOMAIN more |-> more[i]]
      <4> HIDE DEF more
      <4> QED BY <3>2
    <3> HIDE DEF more, next
    <3> QED BY <3>3, <3>4, <3>5
  <2> HIDE DEF next, more
  <2>5. \A i, j \in 1..(m + 1) : i < j => next[i] < next[j]
    <3> SUFFICES ASSUME NEW i \in 1..(m + 1), NEW j \in 1..(m + 1), i < j
                 PROVE  next[i] < next[j]
      OBVIOUS
    <3>1. i \in 1..m
      OBVIOUS
    <3>2. CASE j = m + 1
      BY <2>3, <3>1, <3>2
    <3>3. CASE j \in 1..m
      BY <1>1, <2>3, <3>1, <3>3
    <3> QED BY <2>1, <3>2, <3>3
  <2>6. \A i, j \in 1..(m + 1) : rows[next[i]].site = rows[next[j]].site => i = j
    BY <1>1, <1>5, <2>1, <2>3
  <2>7. \A h \in 1..(k + 1) : \E i \in 1..(m + 1) : rows[next[i]].site = rows[h].site
    <3>1. ASSUME NEW h \in 1..k
          PROVE  \E i \in 1..(m + 1) : rows[next[i]].site = rows[h].site
      <4>1. PICK i \in 1..m : rows[idx[i]].site = rows[h].site
        BY <1>1
      <4> QED BY <2>1, <2>3, <4>1
    <3>2. rows[next[m + 1]].site = rows[k + 1].site
      BY <2>3
    <3> QED BY <1>2, <2>1, <3>1, <3>2
  <2>8. ShowsFirsts(more, rows, k + 1)
    <3>1. \E ix \in [1..(m + 1) -> 1..(k + 1)] :
            /\ more = [i \in 1..(m + 1) |-> rows[ix[i]]]
            /\ \A i, j \in 1..(m + 1) : i < j => ix[i] < ix[j]
            /\ \A i, j \in 1..(m + 1) : rows[ix[i]].site = rows[ix[j]].site => i = j
            /\ \A h \in 1..(k + 1) : \E i \in 1..(m + 1) : rows[ix[i]].site = rows[h].site
      BY <2>2, <2>4, <2>5, <2>6, <2>7, Zenon
    <3> QED BY <2>1, <3>1 DEF ShowsFirsts
  <2> QED BY <1>3, <1>5, <2>8 DEF more
<1> QED BY <1>4, <1>5

\* The loop over the rows shows each site at its first row.
LEMMA LoopShowsFirsts ==
    ASSUME NEW n \in Nat, NEW V, NEW rows \in [1..n -> V]
    PROVE  ShowsFirsts(FirstPerSite(rows), rows, n)
<1> DEFINE D == 1..n
           Add(shown, j) == IF \E i \in DOMAIN shown : shown[i].site = j.site
                            THEN shown ELSE Append(shown, j)
           Eq(g) == g = [s \in SUBSET D |->
                           IF s = {} THEN <<>> ELSE Add(g[s \ {Max(s)}], rows[Max(s)])]
           pick == [s \in SUBSET D |-> Max(s)]
           G == [p \in D \X Seq(V) |-> Add(p[2], rows[p[1]])]
<1>1. DOMAIN rows = D
  OBVIOUS
<1>2. FirstPerSite(rows) = (CHOOSE g : Eq(g))[D]
  BY <1>1 DEF FirstPerSite, FoldLeft, MapThenFoldSet
<1>3. IsFiniteSet(D)
  BY FS_Interval
<1>4. \A s \in SUBSET D : s # {} => pick[s] \in s /\ pick[s] = Max(s)
  BY Greatest
<1>5. G \in [D \X Seq(V) -> Seq(V)]
  <2>1. ASSUME NEW shown \in Seq(V), NEW x \in D
        PROVE  Add(shown, rows[x]) \in Seq(V)
    BY AppendProperties
  <2> HIDE DEF Add
  <2> QED BY <2>1
<1>6. <<>> \in Seq(V)
  OBVIOUS
<1>7. PICK f \in [SUBSET D -> Seq(V)] : \A s \in SUBSET D :
        f[s] = IF s = {} THEN <<>> ELSE G[<<pick[s], f[s \ {pick[s]}]>>]
  <2>1. Picks(pick, D)
    BY <1>4 DEF Picks
  <2> DEFINE W == Seq(V)
             none == <<>>
  <2>2. none \in W /\ G \in [D \X W -> W]
    BY <1>5, <1>6
  <2> HIDE DEF pick, G, D, W, none
  <2>3. \E f \in [SUBSET D -> W] : IsFold(f, D, none, G, pick)
    BY <1>3, <2>1, <2>2, FoldExists
  <2> QED BY <2>3 DEF W, none, IsFold
<1>8. Eq(f)
  <2>1. ASSUME NEW s \in SUBSET D
        PROVE  f[s] = IF s = {} THEN <<>> ELSE Add(f[s \ {Max(s)}], rows[Max(s)])
    <3>1. CASE s = {}
      BY <1>7, <3>1
    <3>2. CASE s # {}
      <4>1. Max(s) \in D /\ s \ {Max(s)} \in SUBSET D /\ pick[s] = Max(s)
        BY <1>4, <3>2
      <4>2. f[s] = G[<<Max(s), f[s \ {Max(s)}]>>]
        <5> HIDE DEF G, pick, D
        <5> QED BY <1>7, <3>2, <4>1
      <4>3. G[<<Max(s), f[s \ {Max(s)}]>>] = Add(f[s \ {Max(s)}], rows[Max(s)])
        <5> HIDE DEF Add, D
        <5> QED BY <4>1
      <4> HIDE DEF Add, G
      <4> QED BY <3>2, <4>2, <4>3
    <3> QED BY <3>1, <3>2
  <2> HIDE DEF Add
  <2> QED BY <2>1
<1>9. PICK g : Eq(g) /\ FirstPerSite(rows) = g[D]
  <2> HIDE DEF Eq, D
  <2> QED BY <1>2, <1>8
<1> DEFINE T == {k \in Nat : k <= n => ShowsFirsts(g[1..k], rows, k)}
<1>10. 0 \in T
  <2>1. 1..0 = {} /\ g[{}] = <<>>
    <3> HIDE DEF Add
    <3> QED BY <1>9
  <2> DEFINE idx == [i \in 1..0 |-> i]
  <2>2. idx \in [1..0 -> 1..0] /\ <<>> = [i \in 1..0 |-> rows[idx[i]]]
    OBVIOUS
  <2>3. ShowsFirsts(<<>>, rows, 0)
    <3> HIDE DEF idx
    <3> QED BY <2>1, <2>2 DEF ShowsFirsts
  <2> QED BY <2>1, <2>3
<1>11. ASSUME NEW k \in T
       PROVE  k + 1 \in T
  <2>1. SUFFICES ASSUME k + 1 <= n
                 PROVE  ShowsFirsts(g[1..(k + 1)], rows, k + 1)
    BY <1>11
  <2> DEFINE s == 1..(k + 1)
  <2>2. k \in Nat /\ ShowsFirsts(g[1..k], rows, k)
    BY <1>11, <2>1
  <2>3. s \in SUBSET D /\ k + 1 \in s /\ \A y \in s : y <= k + 1 /\ y \in Nat
    BY <2>1, <2>2
  <2>4. Max(s) = k + 1
    <3>1. Max(s) \in s /\ k + 1 <= Max(s)
      BY <2>3, Greatest
    <3> HIDE DEF s
    <3>2. Max(s) <= k + 1 /\ Max(s) \in Nat
      BY <2>3, <3>1
    <3> QED BY <2>2, <3>1, <3>2
  <2>5. s \ {k + 1} = 1..k
    BY <2>2
  <2>6. g[s] = Add(g[1..k], rows[k + 1])
    <3> HIDE DEF Add, s
    <3> QED BY <1>9, <2>3, <2>4, <2>5
  <2>7. ShowsFirsts(Add(g[1..k], rows[k + 1]), rows, k + 1)
    BY <2>1, <2>2, ShowsNext
  <2> HIDE DEF Add
  <2> QED BY <2>6, <2>7
<1>12. T = Nat
  <2>1. T \in SUBSET Nat
    OBVIOUS
  <2> HIDE DEF T
  <2> QED BY <1>10, <1>11, <2>1, Counting
<1>13. ShowsFirsts(g[1..n], rows, n)
  <2> HIDE DEF Eq
  <2> QED BY <1>12
<1> QED BY <1>9, <1>13
-----------------------------------------------------------------------------
(* The invariant *)

TablesSound ==
    /\ DOMAIN sites \subseteq Sites /\ sites \in [DOMAIN sites -> Row]
    /\ DOMAIN govs \subseteq Governorates
    /\ IsFiniteSet(warnings) /\ \A w \in warnings : w.loc \in DOMAIN sites
    /\ writes \in 0..MaxWrites

\* The parts of a reply.
Parts == {"total", "page", "warnings", "row", "total_locations", "tourist_places",
          "active_warnings", "by_category", "warnings_by_severity", "nearby",
          "governorate", "inside", "found",
          "sites", "boundaries", "restricted_zones", "audit_logs"}

RequestsTyped ==
    /\ ask \in [Readers -> Asks \cup {NoAsk}]
    /\ todo \in [Readers -> Seq(Parts)]
    /\ DOMAIN got = Readers
    /\ aborted \in [Readers -> BOOLEAN]
    /\ outcome \in [Readers -> {"none", "ok", "missing", "error"}]
    /\ since \in [Readers -> Nat] /\ \A r \in Readers : since[r] <= writes

\* The statements after the first k, and the parts of the reply the first k give.
After(all, k) == SubSeq(all, k + 1, Len(all))
FirstParts(all, k) == {all[i] : i \in 1..k}

\* A request has run the first of its statements and has the others to run,
\* unless it ended early.
Underway(r) ==
    \/ ask[r] = NoAsk /\ todo[r] = <<>> /\ DOMAIN got[r] = {} /\ outcome[r] = "none"
    \/ /\ ask[r] \in Asks
       /\ \E k \in 0..Len(Statements(ask[r].op)) :
            /\ DOMAIN got[r] = FirstParts(Statements(ask[r].op), k)
            /\ todo[r] # <<>> => todo[r] = After(Statements(ask[r].op), k)
                                 /\ outcome[r] = "none"
            /\ outcome[r] = "ok" => k = Len(Statements(ask[r].op))

FigureParts == {"total_locations", "tourist_places", "active_warnings",
                "by_category", "warnings_by_severity"}

\* A part of the reply is what its statement returns for the tables as they are.
Answers(r, p) ==
    LET a == ask[r]
        v == got[r][p]
    IN  /\ p = "total" =>
             v = [rows |-> Cardinality(Counted(a)),
                  pages |-> TotalPages(Cardinality(Counted(a)), a.limit)]
        /\ p = "page" => v \in Pages(a)
        /\ p = "row" => v \in DOMAIN sites
        /\ p = "warnings" => v = {w \in warnings : w.loc \in Shown(r)}
        /\ p \in FigureParts => v = Figure(p)
        /\ p = "nearby" => v \in Nearby(a)
        /\ p = "governorate" => \E g \in GovernoratesLike(a.governorate) : v = govs[g]
        /\ p = "inside" => v \in AnyOf(Inside(got[r].governorate.area, a), a.limit)
        /\ p = "found" => \E area \in Areas(a) : \E q \in Ranked(Found(a, area), a.term) :
                            v = AtMost(q, a.limit)

\* As long as nothing was written since the request began, every part it has is.
AllAnswer(r) == since[r] = writes => \A p \in DOMAIN got[r] : Answers(r, p)

HasPages(r) == "total" \in DOMAIN got[r] => got[r].total.pages >= 1

RequestSound(r) == Underway(r) /\ AllAnswer(r) /\ HasPages(r)

IInv == TablesSound /\ RequestsTyped /\ \A r \in Readers : RequestSound(r)

\* What a request asks has the fields of its kind.
LEMMA AsksTyped ==
    ASSUME NEW a \in Asks
    PROVE  /\ a.op \in {"list", "get", "analytics", "health", "nearby",
                        "by_governorate", "search"}
           /\ a.op = "list" =>
                /\ a \in [op : {"list"}, page : Nat \ {0}, limit : Nat \ {0},
                          category : Maybe(Categories), hasWarnings : Maybe(BOOLEAN),
                          sortBy : {"name", "updated"}, descending : BOOLEAN]
           /\ a.op = "nearby" => a.radius \in Nat /\ a.limit \in Maybe(Nat \ {0})
           /\ a.op = "by_governorate" => a.limit \in Maybe(Nat \ {0})
           /\ a.op = "search" => a.limit \in Maybe(Nat \ {0})
           /\ a # NoAsk
<1>1. a \in Ask
  BY ReadsAssumption
<1> QED BY <1>1 DEF Ask, NoAsk, Maybe

\* The statements of a request are different from each other.
LEMMA StatementsDiffer ==
    ASSUME NEW a \in Asks
    PROVE  /\ Statements(a.op) \in Seq(Parts)
           /\ Len(Statements(a.op)) \in Nat \ {0}
           /\ \A i, j \in 1..Len(Statements(a.op)) :
                Statements(a.op)[i] = Statements(a.op)[j] => i = j
<1>1. a.op \in {"list", "get", "analytics", "health", "nearby", "by_governorate", "search"}
  BY AsksTyped
<1> DEFINE Differ(q) == /\ q \in Seq(Parts) /\ Len(q) \in Nat \ {0}
                        /\ \A i, j \in 1..Len(q) : q[i] = q[j] => i = j
<1>2. /\ Differ(<<"row", "warnings">>) /\ Differ(<<"nearby">>)
      /\ Differ(<<"governorate", "inside">>) /\ Differ(<<"found">>)
  BY DEF Parts
<1>3. Differ(<<"total", "page", "warnings">>)
  <2> DEFINE q == <<"total", "page", "warnings">>
  <2>1. q \in Seq(Parts) /\ Len(q) = 3 /\ 1..3 = {1, 2, 3}
    BY DEF Parts
  <2>2. /\ q[1] = "total" /\ q[2] = "page"
        /\ q[3] = "warnings"
    BY DEF Parts
  <2> HIDE DEF q
  <2>3. Differ(q)
    BY <2>1, <2>2
  <2> QED BY <2>3 DEF q
<1>4. Differ(<<"total_locations", "tourist_places", "active_warnings",
               "by_category", "warnings_by_severity">>)
  <2> DEFINE q == <<"total_locations", "tourist_places", "active_warnings",
                   "by_category", "warnings_by_severity">>
  <2>1. q \in Seq(Parts) /\ Len(q) = 5 /\ 1..5 = {1, 2, 3, 4, 5}
    BY DEF Parts
  <2>2. /\ q[1] = "total_locations" /\ q[2] = "tourist_places"
        /\ q[3] = "active_warnings" /\ q[4] = "by_category"
        /\ q[5] = "warnings_by_severity"
    BY DEF Parts
  <2> HIDE DEF q
  <2>3. Differ(q)
    BY <2>1, <2>2
  <2> QED BY <2>3 DEF q
<1>5. Differ(HealthTables)
  <2> DEFINE q == HealthTables
  <2>1. q \in Seq(Parts) /\ Len(q) = 4 /\ 1..4 = {1, 2, 3, 4}
    BY DEF HealthTables, Parts
  <2>2. /\ q[1] = "sites" /\ q[2] = "boundaries"
        /\ q[3] = "restricted_zones" /\ q[4] = "audit_logs"
    BY DEF HealthTables, Parts
  <2> HIDE DEF q
  <2>3. Differ(q)
    BY <2>1, <2>2
  <2> QED BY <2>3 DEF q
<1> HIDE DEF Differ
<1>6. Differ(Statements(a.op))
  BY <1>1, <1>2, <1>3, <1>4, <1>5 DEF Statements
<1> QED BY <1>6 DEF Differ

\* The statement a request runs next, and what it leaves.
LEMMA NextStatement ==
    ASSUME NEW r \in Readers, RequestsTyped, Underway(r), todo[r] # <<>>
    PROVE  /\ ask[r] \in Asks /\ outcome[r] = "none"
           /\ \E k \in Nat :
                /\ k + 1 <= Len(Statements(ask[r].op))
                /\ DOMAIN got[r] = FirstParts(Statements(ask[r].op), k)
                /\ Head(todo[r]) = Statements(ask[r].op)[k + 1]
                /\ Tail(todo[r]) = After(Statements(ask[r].op), k + 1)
                /\ Tail(todo[r]) = <<>> <=> k + 1 = Len(Statements(ask[r].op))
<1> DEFINE all == Statements(ask[r].op)
<1>1. ask[r] \in Asks /\ outcome[r] = "none"
  BY DEF Underway
<1>2. PICK k \in 0..Len(all) :
        DOMAIN got[r] = FirstParts(all, k) /\ todo[r] = After(all, k)
  BY DEF Underway
<1>3. all \in Seq(Parts) /\ Len(all) \in Nat
  BY <1>1, StatementsDiffer
<1> HIDE DEF all
<1>4. After(all, k) = [i \in 1..(Len(all) - k) |-> all[i + k]] /\ Len(all) - k \in Nat
  <2>1. k + 1 \in Nat /\ Len(all) - (k + 1) + 1 = Len(all) - k
    BY <1>2, <1>3
  <2> QED BY <1>2, <1>3, <2>1, SubSeqProperties DEF After
<1>5. k \in Nat /\ k + 1 <= Len(all)
  <2>1. k = Len(all) => After(all, k) = <<>>
    BY <1>4
  <2> QED BY <1>2, <1>3, <2>1
<1>6. Head(todo[r]) = all[k + 1]
  BY <1>2, <1>3, <1>4, <1>5
<1>7. Tail(todo[r]) = After(all, k + 1)
  BY <1>2, <1>3, <1>4, <1>5 DEF After
<1>8. Tail(todo[r]) = <<>> <=> k + 1 = Len(all)
  <2>1. CASE k + 1 = Len(all)
    <3>1. After(all, k + 1) = <<>>
      BY <1>3, <1>5, <2>1, SubSeqEmpty DEF After
    <3> QED BY <1>7, <2>1, <3>1
  <2>2. CASE k + 1 # Len(all)
    <3>1. /\ k + 1 + 1 \in Int /\ Len(all) \in Int /\ k + 1 + 1 <= Len(all)
          /\ \A i \in (k + 1 + 1)..Len(all) : all[i] \in Parts
      BY <1>3, <1>5, <2>2
    <3>2. Len(After(all, k + 1)) = Len(all) - (k + 1 + 1) + 1
      BY <3>1, SubSeqProperties DEF After
    <3>3. After(all, k + 1) # <<>>
      BY <1>3, <1>5, <2>2, <3>2
    <3> QED BY <1>7, <2>2, <3>3
  <2> QED BY <2>1, <2>2
<1> QED BY <1>1, <1>2, <1>5, <1>6, <1>7, <1>8 DEF all

\* What a statement that returned v does to the request.
LEMMA ReturnEffect ==
    ASSUME RequestsTyped, NEW r \in Readers, Underway(r), todo[r] # <<>>,
           NEW v, Return(r, v)
    PROVE  /\ Head(todo[r]) \notin DOMAIN got[r]
           /\ DOMAIN got'[r] = DOMAIN got[r] \cup {Head(todo[r])}
           /\ got'[r][Head(todo[r])] = v
           /\ \A p \in DOMAIN got[r] : got'[r][p] = got[r][p]
           /\ Underway(r)' /\ outcome'[r] \in {"none", "ok"}
           /\ todo' \in [Readers -> Seq(Parts)] /\ DOMAIN got' = Readers
<1> DEFINE all == Statements(ask[r].op)
<1>1. ask[r] \in Asks /\ outcome[r] = "none"
  BY NextStatement
<1>2. PICK k \in Nat :
        /\ k + 1 <= Len(all)
        /\ DOMAIN got[r] = FirstParts(all, k)
        /\ Head(todo[r]) = all[k + 1]
        /\ Tail(todo[r]) = After(all, k + 1)
        /\ Tail(todo[r]) = <<>> <=> k + 1 = Len(all)
  BY NextStatement
<1>3. /\ all \in Seq(Parts) /\ Len(all) \in Nat \ {0}
      /\ \A i, j \in 1..Len(all) : all[i] = all[j] => i = j
  BY <1>1, StatementsDiffer
<1>4. /\ ask'[r] = ask[r] /\ todo'[r] = Tail(todo[r])
      /\ got'[r] = WithPart(got[r], Head(todo[r]), v)
      /\ outcome'[r] = IF Tail(todo[r]) = <<>> THEN "ok" ELSE outcome[r]
  BY DEF Return, RequestsTyped
<1>5. /\ DOMAIN got'[r] = DOMAIN got[r] \cup {Head(todo[r])}
      /\ got'[r][Head(todo[r])] = v
      /\ \A p \in DOMAIN got[r] : p # Head(todo[r]) => got'[r][p] = got[r][p]
  BY <1>4 DEF WithPart
<1>6. Head(todo[r]) \notin DOMAIN got[r]
  <2> HIDE DEF all
  <2> QED BY <1>2, <1>3 DEF FirstParts
<1>7. DOMAIN got'[r] = FirstParts(all, k + 1)
  <2>1. 1..(k + 1) = (1..k) \cup {k + 1}
    BY <1>2
  <2> HIDE DEF all
  <2> QED BY <1>2, <1>5, <2>1 DEF FirstParts
<1>8. Underway(r)'
  <2>1. ask'[r] \in Asks /\ Statements(ask'[r].op) = all /\ k + 1 \in 0..Len(all)
    BY <1>1, <1>2, <1>3, <1>4
  <2>2. /\ DOMAIN got'[r] = FirstParts(all, k + 1)
        /\ todo'[r] # <<>> => todo'[r] = After(all, k + 1) /\ outcome'[r] = "none"
        /\ outcome'[r] = "ok" => k + 1 = Len(all)
    BY <1>1, <1>2, <1>4, <1>7
  <2> HIDE DEF all
  <2> QED BY <2>1, <2>2 DEF Underway
<1>9. todo' \in [Readers -> Seq(Parts)]
  <2>1. Tail(todo[r]) \in Seq(Parts)
    BY DEF RequestsTyped
  <2> QED BY <2>1 DEF Return, RequestsTyped
<1>10. DOMAIN got' = Readers
  BY DEF Return, RequestsTyped
<1> QED BY <1>1, <1>4, <1>5, <1>6, <1>8, <1>9, <1>10

\* Parts that depend on another come after it.
LEMMA PartsInOrder ==
    ASSUME NEW r \in Readers, Underway(r)
    PROVE  /\ "warnings" \in DOMAIN got[r] /\ ask[r].op = "list" => "page" \in DOMAIN got[r]
           /\ "warnings" \in DOMAIN got[r] /\ ask[r].op # "list" => "row" \in DOMAIN got[r]
           /\ "inside" \in DOMAIN got[r] => "governorate" \in DOMAIN got[r]
<1> DEFINE all == Statements(ask[r].op)
<1>1. CASE DOMAIN got[r] = {}
  BY <1>1
<1>2. CASE ask[r] \in Asks
  <2>1. PICK k \in 0..Len(all) : DOMAIN got[r] = FirstParts(all, k)
    BY <1>2, AsksTyped DEF Underway
  <2>2. all \in Seq(Parts) /\ Len(all) \in Nat
    BY <1>2, StatementsDiffer
  <2>3. \A i, j \in 1..Len(all) : all[j] \in DOMAIN got[r] /\ i < j => all[i] \in DOMAIN got[r]
    <3>1. \A i, j \in 1..Len(all) : all[i] = all[j] => i = j
      BY <1>2, StatementsDiffer
    <3> HIDE DEF all
    <3> SUFFICES ASSUME NEW i \in 1..Len(all), NEW j \in 1..Len(all),
                        all[j] \in DOMAIN got[r], i < j
                 PROVE  all[i] \in DOMAIN got[r]
      OBVIOUS
    <3>2. j \in 1..k
      BY <2>1, <2>2, <3>1 DEF FirstParts
    <3>3. i \in 1..k
      BY <3>2
    <3> QED BY <2>1, <3>3 DEF FirstParts
  <2>4. DOMAIN got[r] \subseteq {all[i] : i \in 1..Len(all)}
    <3> HIDE DEF all
    <3> QED BY <2>1, <2>2 DEF FirstParts
  <2>5. ask[r].op \in {"list", "get", "analytics", "health", "nearby", "by_governorate", "search"}
    BY <1>2, AsksTyped
  <2>6. CASE ask[r].op = "list"
    <3>1. all = <<"total", "page", "warnings">>
      BY <2>6 DEF Statements
    <3>2. /\ Len(all) = 3 /\ all[1] = "total" /\ all[2] = "page" /\ all[3] = "warnings"
          /\ 1..3 = {1, 2, 3}
      BY <3>1
    <3> HIDE DEF all
    <3> QED BY <2>3, <2>4, <2>6, <3>2
  <2>7. CASE ask[r].op = "get"
    <3>1. all = <<"row", "warnings">>
      BY <2>7 DEF Statements
    <3>2. Len(all) = 2 /\ all[1] = "row" /\ all[2] = "warnings" /\ 1..2 = {1, 2}
      BY <3>1
    <3> HIDE DEF all
    <3> QED BY <2>3, <2>4, <2>7, <3>2
  <2>8. CASE ask[r].op = "by_governorate"
    <3>1. all = <<"governorate", "inside">>
      BY <2>8 DEF Statements
    <3>2. Len(all) = 2 /\ all[1] = "governorate" /\ all[2] = "inside" /\ 1..2 = {1, 2}
      BY <3>1
    <3> HIDE DEF all
    <3> QED BY <2>3, <2>4, <2>8, <3>2
  <2>9. CASE ask[r].op \in {"analytics", "health", "nearby", "search"}
    <3>1. \A i \in 1..Len(all) : all[i] \notin {"warnings", "inside"}
      <4>1. CASE ask[r].op = "analytics"
        <5>1. all = <<"total_locations", "tourist_places", "active_warnings",
                      "by_category", "warnings_by_severity">>
          BY <4>1 DEF Statements
        <5> QED BY <5>1
      <4>2. CASE ask[r].op = "health"
        BY <4>2 DEF Statements, HealthTables
      <4>3. CASE ask[r].op \in {"nearby", "search"}
        BY <4>3 DEF Statements
      <4> QED BY <2>9, <4>1, <4>2, <4>3
    <3> HIDE DEF all
    <3> QED BY <2>4, <3>1
  <2> QED BY <2>5, <2>6, <2>7, <2>8, <2>9
<1> QED BY <1>1, <1>2 DEF Underway

\* The statements of each kind of request.
LEMMA StatementNames ==
    ASSUME RequestsTyped, NEW r \in Readers, Underway(r), todo[r] # <<>>
    PROVE  /\ ask[r] \in Asks
           /\ ask[r].op = "list" => Head(todo[r]) \in {"total", "page", "warnings"}
           /\ ask[r].op = "get" => Head(todo[r]) \in {"row", "warnings"}
           /\ ask[r].op = "analytics" => Head(todo[r]) \in FigureParts
           /\ ask[r].op = "nearby" => Head(todo[r]) = "nearby"
           /\ ask[r].op = "by_governorate" => Head(todo[r]) \in {"governorate", "inside"}
           /\ ask[r].op = "search" => Head(todo[r]) = "found"
           /\ ask[r].op = "health" =>
                \E j \in 1..4 : Head(todo[r]) = HealthTables[j]
<1> DEFINE all == Statements(ask[r].op)
<1>1. ask[r] \in Asks
  BY NextStatement
<1>2. PICK k \in Nat : /\ k + 1 <= Len(all) /\ Head(todo[r]) = all[k + 1]
                       /\ DOMAIN got[r] = FirstParts(all, k)
  BY NextStatement
<1>3. k + 1 \in 1..Len(all)
  BY <1>1, <1>2, StatementsDiffer
<1> HIDE DEF all
<1>4. ask[r].op = "list" => Head(todo[r]) \in {"total", "page", "warnings"}
  BY <1>2, <1>3 DEF all, Statements
<1>5. ask[r].op = "get" => Head(todo[r]) \in {"row", "warnings"}
  BY <1>2, <1>3 DEF all, Statements
<1>6. ask[r].op = "analytics" => Head(todo[r]) \in FigureParts
  BY <1>2, <1>3 DEF all, Statements, FigureParts
<1>7. ask[r].op \in {"nearby", "search"} =>
        Head(todo[r]) = IF ask[r].op = "nearby" THEN "nearby" ELSE "found"
  BY <1>2, <1>3 DEF all, Statements
<1>8. ask[r].op = "by_governorate" => Head(todo[r]) \in {"governorate", "inside"}
  BY <1>2, <1>3 DEF all, Statements
<1>9. ASSUME ask[r].op = "health"
      PROVE  \E j \in 1..4 : Head(todo[r]) = HealthTables[j]
  <2>1. all = HealthTables /\ Len(HealthTables) = 4
    BY <1>9 DEF all, Statements, HealthTables
  <2> QED BY <1>2, <1>3, <2>1
<1> QED BY <1>1, <1>4, <1>5, <1>6, <1>7, <1>8, <1>9

\* What the statements return depends on the tables alone.
LEMMA SameTables ==
    ASSUME UNCHANGED <<sites, warnings, govs>>, NEW a, NEW part, NEW S, NEW t
    PROVE  /\ Counted(a)' = Counted(a)
           /\ Pages(a)' = Pages(a)
           /\ Figure(part)' = Figure(part)
           /\ Nearby(a)' = Nearby(a)
           /\ GovernoratesLike(t)' = GovernoratesLike(t)
           /\ Inside(S, a)' = Inside(S, a)
           /\ Found(a, S)' = Found(a, S)
           /\ Areas(a)' = Areas(a)
           /\ Ranked(S, t)' = Ranked(S, t)
<1>1. \A b : Matching(b)' = Matching(b)
  BY DEF Matching, HasWarning, Chosen
<1>2. Counted(a)' = Counted(a)
  BY <1>1 DEF Counted
<1>3. Pages(a)' = Pages(a)
  BY <1>1 DEF Pages, SortKey, OrderedBy
<1>4. Figure(part)' = Figure(part)
  BY DEF Figure, ByCategory, BySeverity
<1>6. Nearby(a)' = Nearby(a)
  BY DEF Nearby, Joined, Within, InCategory, Covering, OrderedBy
<1>7. GovernoratesLike(t)' = GovernoratesLike(t)
  BY DEF GovernoratesLike
<1>8. Inside(S, a)' = Inside(S, a)
  BY DEF Inside, InCategory
<1>9. Found(a, S)' = Found(a, S)
  BY DEF Found, InCategory
<1>10. Areas(a)' = Areas(a)
  BY DEF Areas, GovernoratesLike
<1>11. Ranked(S, t)' = Ranked(S, t)
  BY DEF Ranked, Relevance, OrderedBy
<1> QED BY <1>2, <1>3, <1>4, <1>6, <1>7, <1>8, <1>9, <1>10, <1>11

\* A part that answers goes on answering while the tables are the same.
LEMMA AnswersStay ==
    ASSUME UNCHANGED <<sites, warnings, govs>>, NEW r \in Readers, ask'[r] = ask[r],
           NEW p, Answers(r, p), got'[r][p] = got[r][p],
           p = "warnings" => Shown(r)' = Shown(r),
           p = "inside" => got'[r].governorate = got[r].governorate
    PROVE  Answers(r, p)'
<1>1. p = "total" => got'[r][p] = [rows |-> Cardinality(Counted(ask[r])'),
                      pages |-> TotalPages(Cardinality(Counted(ask[r])'), ask'[r].limit)]
  BY SameTables DEF Answers
<1>2. p = "page" => got'[r][p] \in Pages(ask[r])'
  BY SameTables DEF Answers
<1>3. p = "row" => got'[r][p] \in DOMAIN sites'
  BY DEF Answers
<1>4. p = "warnings" => got'[r][p] = {w \in warnings' : w.loc \in Shown(r)'}
  BY DEF Answers
<1>5. p \in FigureParts => got'[r][p] = Figure(p)'
  BY SameTables DEF Answers
<1>6. p = "nearby" => got'[r][p] \in Nearby(ask[r])'
  BY SameTables DEF Answers
<1>7. p = "governorate" =>
        \E g \in GovernoratesLike(ask[r].governorate)' : got'[r][p] = govs'[g]
  BY SameTables DEF Answers
<1>8. p = "inside" =>
        got'[r][p] \in AnyOf(Inside(got[r].governorate.area, ask[r])', ask'[r].limit)
  BY SameTables DEF Answers
<1>9. p = "found" =>
        \E area \in Areas(ask[r])' : \E q \in Ranked(Found(ask[r], area), ask[r].term)' :
          got'[r][p] = AtMost(q, ask'[r].limit)
  <2>1. p = "found" => \E area \in Areas(ask[r]) :
          \E q \in Ranked(Found(ask[r], area), ask[r].term) : got[r][p] = AtMost(q, ask[r].limit)
    BY DEF Answers
  <2>2. Areas(ask[r])' = Areas(ask[r])
    BY SameTables
  <2>3. \A area : Found(ask[r], area)' = Found(ask[r], area)
    BY SameTables
  <2>4. \A S, t : Ranked(S, t)' = Ranked(S, t)
    BY SameTables
  <2> QED BY <2>1, <2>2, <2>3, <2>4
<1> QED BY <1>1, <1>2, <1>3, <1>4, <1>5, <1>6, <1>7, <1>8, <1>9 DEF Answers
-----------------------------------------------------------------------------
(* The steps of the requests *)

\* A step of one request leaves the others as they are.
LEMMA OthersSound ==
    ASSUME NEW q \in Readers, RequestSound(q), UNCHANGED tables,
           ask'[q] = ask[q], todo'[q] = todo[q], got'[q] = got[q],
           outcome'[q] = outcome[q], since'[q] = since[q]
    PROVE  RequestSound(q)'
<1>1. Underway(q)' /\ HasPages(q)'
  BY DEF RequestSound, Underway, HasPages
<1>2. AllAnswer(q)'
  <2>1. Shown(q)' = Shown(q)
    BY DEF Shown
  <2> QED BY <2>1, AnswersStay DEF RequestSound, AllAnswer, tables
<1> QED BY <1>1, <1>2 DEF RequestSound

\* A statement that returns what the tables give keeps the invariant.
LEMMA ReturnSound ==
    ASSUME IInv, NEW r \in Readers, todo[r] # <<>>, NEW v, Return(r, v),
           NEW part, part = Head(todo[r]),
           aborted' \in [Readers -> BOOLEAN],
           since[r] = writes => Answers(r, part)',
           part = "total" => v.pages >= 1
    PROVE  IInv'
<1>1. RequestsTyped /\ Underway(r) /\ RequestSound(r)
  BY DEF IInv, RequestSound
<1>2. /\ Head(todo[r]) \notin DOMAIN got[r]
      /\ DOMAIN got'[r] = DOMAIN got[r] \cup {Head(todo[r])}
      /\ got'[r][Head(todo[r])] = v
      /\ \A p \in DOMAIN got[r] : got'[r][p] = got[r][p]
      /\ Underway(r)' /\ outcome'[r] \in {"none", "ok"}
      /\ todo' \in [Readers -> Seq(Parts)] /\ DOMAIN got' = Readers
  BY <1>1, ReturnEffect
<1>3. UNCHANGED tables /\ ask' = ask /\ since' = since
  BY DEF Return
<1>4. outcome' \in [Readers -> {"none", "ok", "missing", "error"}]
  BY <1>1, <1>2 DEF Return, RequestsTyped
<1>5. TablesSound' /\ RequestsTyped'
  <2>1. TablesSound'
    BY <1>3 DEF IInv, TablesSound, tables
  <2> QED BY <1>1, <1>2, <1>3, <1>4, <2>1 DEF RequestsTyped, tables
<1>6. ASSUME NEW q \in Readers \ {r}
      PROVE  RequestSound(q)'
  <2>1. todo'[q] = todo[q] /\ got'[q] = got[q] /\ outcome'[q] = outcome[q]
    BY <1>1 DEF Return, RequestsTyped
  <2> QED BY <1>3, <2>1, OthersSound DEF IInv
<1>7. HasPages(r)'
  BY <1>1, <1>2 DEF RequestSound, HasPages
<1>8. AllAnswer(r)'
  <2>1. ASSUME since[r] = writes, NEW p \in DOMAIN got[r]
        PROVE  Answers(r, p)'
    <3>1. Answers(r, p)
      BY <1>1, <2>1 DEF RequestSound, AllAnswer
    <3>2. p = "warnings" => Shown(r)' = Shown(r)
      BY <1>1, <1>2, <1>3, PartsInOrder DEF Shown
    <3>3. p = "inside" => got'[r].governorate = got[r].governorate
      BY <1>1, <1>2, PartsInOrder
    <3>4. got'[r][p] = got[r][p] /\ ask'[r] = ask[r]
      BY <1>2, <1>3
    <3> QED BY <1>3, <3>1, <3>2, <3>3, <3>4, AnswersStay DEF tables
  <2>2. since'[r] = writes' => since[r] = writes
    BY <1>3 DEF tables
  <2>3. ASSUME since[r] = writes, NEW p \in DOMAIN got'[r]
        PROVE  Answers(r, p)'
    <3>1. CASE p \in DOMAIN got[r]
      BY <2>1, <2>3, <3>1
    <3>2. CASE p = Head(todo[r])
      BY <2>3, <3>2
    <3> QED BY <1>2, <2>3, <3>1, <3>2
  <2> QED BY <2>2, <2>3 DEF AllAnswer
<1> QED BY <1>2, <1>5, <1>6, <1>7, <1>8 DEF IInv, RequestSound

\* A request that ends early keeps what it has.
LEMMA UnansweredSound ==
    ASSUME IInv, NEW r \in Readers, todo[r] # <<>>,
           NEW how \in {"missing", "error"}, Unanswered(r, how)
    PROVE  IInv'
<1>1. UNCHANGED tables /\ ask' = ask /\ got' = got /\ aborted' = aborted /\ since' = since
  BY DEF Unanswered
<1>2. /\ \A q \in Readers \ {r} : todo'[q] = todo[q] /\ outcome'[q] = outcome[q]
      /\ todo'[r] = <<>> /\ outcome'[r] = how
      /\ todo' \in [Readers -> Seq(Parts)]
      /\ outcome' \in [Readers -> {"none", "ok", "missing", "error"}]
  BY DEF Unanswered, IInv, RequestsTyped
<1>3. TablesSound' /\ RequestsTyped'
  BY <1>1, <1>2 DEF IInv, TablesSound, RequestsTyped, tables
<1>4. \A q \in Readers \ {r} : RequestSound(q)'
  BY <1>1, <1>2, OthersSound DEF IInv
<1>5. Underway(r)' /\ HasPages(r)'
  BY <1>1, <1>2 DEF IInv, RequestSound, Underway, HasPages
<1>6. AllAnswer(r)'
  <2>1. Shown(r)' = Shown(r)
    BY <1>1 DEF Shown
  <2> QED BY <1>1, <2>1, AnswersStay DEF IInv, RequestSound, AllAnswer, tables
<1> QED BY <1>3, <1>4, <1>5, <1>6 DEF IInv, RequestSound

\* A request begins with all its statements to run.
LEMMA BeginSound ==
    ASSUME IInv, NEW r \in Readers, NEW a \in Asks, Begin(r, a)
    PROVE  IInv'
<1> DEFINE all == Statements(a.op)
<1>1. /\ UNCHANGED <<tables, got, aborted, outcome>>
      /\ ask'[r] = a /\ todo'[r] = all /\ since'[r] = writes
      /\ \A q \in Readers \ {r} : ask'[q] = ask[q] /\ todo'[q] = todo[q] /\ since'[q] = since[q]
  BY DEF Begin, IInv, RequestsTyped
<1>2. all \in Seq(Parts) /\ Len(all) \in Nat \ {0}
  BY StatementsDiffer
<1>3. TablesSound' /\ RequestsTyped'
  <2>1. TablesSound'
    BY <1>1 DEF IInv, TablesSound, tables
  <2>2. writes \in Nat
    BY ReadsAssumption DEF IInv, TablesSound
  <2> HIDE DEF all
  <2>3. /\ ask' \in [Readers -> Asks \cup {NoAsk}]
        /\ todo' \in [Readers -> Seq(Parts)]
        /\ since' \in [Readers -> Nat]
    BY <1>2, <2>2 DEF Begin, IInv, RequestsTyped, all
  <2>4. ASSUME NEW q \in Readers PROVE since'[q] <= writes'
    <3>1. writes' = writes /\ (since'[q] = writes \/ since'[q] = since[q])
      BY <1>1 DEF tables
    <3>2. since[q] <= writes
      BY DEF IInv, RequestsTyped
    <3> QED BY <2>2, <3>1, <3>2
  <2> QED BY <1>1, <2>1, <2>3, <2>4 DEF IInv, RequestsTyped
<1>4. \A q \in Readers \ {r} : RequestSound(q)'
  BY <1>1, OthersSound DEF IInv
<1>5. DOMAIN got[r] = {} /\ outcome[r] = "none"
  BY AsksTyped DEF Begin, IInv, RequestSound, Underway
<1>6. Underway(r)'
  <2>1. After(all, 0) = all
    BY <1>2 DEF After
  <2>2. FirstParts(all, 0) = {} /\ 0 \in 0..Len(all)
    BY <1>2 DEF FirstParts
  <2>3. Statements(ask'[r].op) = all
    BY <1>1
  <2> HIDE DEF all
  <2> QED BY <1>1, <1>5, <2>1, <2>2, <2>3 DEF Underway
<1>7. AllAnswer(r)' /\ HasPages(r)'
  <2>1. DOMAIN got'[r] = {}
    BY <1>1, <1>5
  <2> QED BY <2>1 DEF AllAnswer, HasPages
<1> QED BY <1>3, <1>4, <1>6, <1>7 DEF IInv, RequestSound

\* A statement that depends on a part of the reply comes after the one for it.
LEMMA NeededParts ==
    ASSUME RequestsTyped, NEW r \in Readers, Underway(r), todo[r] # <<>>
    PROVE  /\ Head(todo[r]) = "warnings" /\ ask[r].op = "list" => "page" \in DOMAIN got[r]
           /\ Head(todo[r]) = "warnings" /\ ask[r].op # "list" => "row" \in DOMAIN got[r]
           /\ Head(todo[r]) = "inside" => "governorate" \in DOMAIN got[r]
<1> DEFINE all == Statements(ask[r].op)
<1>1. ask[r] \in Asks
  BY NextStatement
<1>2. PICK k \in Nat : /\ k + 1 <= Len(all) /\ Head(todo[r]) = all[k + 1]
                       /\ DOMAIN got[r] = FirstParts(all, k)
  BY NextStatement
<1>3. \A i \in 1..k : all[i] \in DOMAIN got[r]
  <2> HIDE DEF all
  <2> QED BY <1>2 DEF FirstParts
<1>4. k + 1 \in 1..Len(all)
  BY <1>1, <1>2, StatementsDiffer
<1>5. CASE ask[r].op = "list"
  <2>1. all = <<"total", "page", "warnings">>
    BY <1>5 DEF Statements
  <2>2. Len(all) = 3 /\ all[1] = "total" /\ all[2] = "page" /\ all[3] = "warnings"
    BY <2>1
  <2> HIDE DEF all
  <2>3. Head(todo[r]) = "warnings" => 2 \in 1..k
    BY <1>2, <1>4, <2>2
  <2>4. Head(todo[r]) # "inside"
    BY <1>2, <1>4, <2>2
  <2> QED BY <1>3, <1>5, <2>2, <2>3, <2>4
<1>6. CASE ask[r].op = "get"
  <2>1. all = <<"row", "warnings">>
    BY <1>6 DEF Statements
  <2>2. Len(all) = 2 /\ all[1] = "row" /\ all[2] = "warnings"
    BY <2>1
  <2> HIDE DEF all
  <2>3. Head(todo[r]) = "warnings" => 1 \in 1..k
    BY <1>2, <1>4, <2>2
  <2>4. Head(todo[r]) # "inside"
    BY <1>2, <1>4, <2>2
  <2> QED BY <1>3, <1>6, <2>2, <2>3, <2>4
<1>7. CASE ask[r].op = "by_governorate"
  <2>1. all = <<"governorate", "inside">>
    BY <1>7 DEF Statements
  <2>2. Len(all) = 2 /\ all[1] = "governorate" /\ all[2] = "inside"
    BY <2>1
  <2> HIDE DEF all
  <2>3. Head(todo[r]) = "inside" => 1 \in 1..k
    BY <1>2, <1>4, <2>2
  <2>4. Head(todo[r]) # "warnings"
    BY <1>2, <1>4, <2>2
  <2> QED BY <1>3, <1>7, <2>2, <2>3, <2>4
<1>8. CASE ask[r].op \in {"analytics", "health", "nearby", "search"}
  BY <1>8, StatementNames DEF FigureParts, HealthTables
<1> QED BY <1>1, <1>5, <1>6, <1>7, <1>8, AsksTyped

\* A part that answers keeps the invariant.
LEMMA PartSound ==
    ASSUME IInv, NEW r \in Readers, todo[r] # <<>>, NEW v, Return(r, v), UNCHANGED aborted,
           NEW part, part = Head(todo[r]), ask[r].op # "health",
           since[r] = writes => Answers(r, part)',
           part = "total" => v.pages >= 1
    PROVE  IInv'
<1>1. aborted' \in [Readers -> BOOLEAN]
  BY DEF IInv, RequestsTyped
<1> QED BY <1>1, ReturnSound

\* The part that a statement returned, in the reply that now has it.
LEMMA NewPart ==
    ASSUME IInv, NEW r \in Readers, todo[r] # <<>>, NEW v, Return(r, v),
           NEW part, part = Head(todo[r])
    PROVE  /\ got'[r][part] = v /\ ask'[r] = ask[r]
           /\ UNCHANGED <<sites, warnings, govs>>
           /\ part = "warnings" => Shown(r)' = Shown(r)
           /\ part = "inside" => got'[r].governorate = got[r].governorate
           /\ ask[r] \in Asks
<1>1. RequestsTyped /\ Underway(r)
  BY DEF IInv, RequestSound
<1>2. /\ Head(todo[r]) \notin DOMAIN got[r]
      /\ got'[r][Head(todo[r])] = v
      /\ \A p \in DOMAIN got[r] : got'[r][p] = got[r][p]
  BY <1>1, ReturnEffect
<1>3. ask' = ask /\ UNCHANGED <<sites, warnings, govs>>
  BY DEF Return, tables
<1>4. part = "warnings" => Shown(r)' = Shown(r)
  BY <1>1, <1>2, <1>3, NeededParts DEF Shown
<1>5. part = "inside" => got'[r].governorate = got[r].governorate
  BY <1>1, <1>2, NeededParts
<1>6. ask[r] \in Asks
  BY <1>1, NextStatement
<1> QED BY <1>2, <1>3, <1>4, <1>5, <1>6

\* There is always a first page.
LEMMA AFirstPage ==
    ASSUME NEW total \in Nat, NEW limit \in Nat \ {0}
    PROVE  TotalPages(total, limit) >= 1
BY DEF TotalPages

\* list_locations counts the rows before it reads a page of them.
LEMMA CountSound ==
    ASSUME IInv, NEW r \in Readers, CountLocations(r)
    PROVE  IInv'
<1> DEFINE total == Cardinality(Counted(ask[r]))
           v == [rows |-> total, pages |-> TotalPages(total, ask[r].limit)]
<1>1. /\ todo[r] # <<>> /\ "total" = Head(todo[r])
      /\ Return(r, v) /\ UNCHANGED aborted
  BY DEF CountLocations, Runs
<1>2. ask[r] \in Asks /\ ask[r].op = "list"
  BY <1>1, StatementNames, AsksTyped DEF IInv, RequestSound, FigureParts, HealthTables
<1>3. total \in Nat
  <2>1. Counted(ask[r]) \subseteq Sites
    BY DEF Counted, Matching, IInv, TablesSound
  <2> QED BY <2>1, ReadsAssumption, FS_Subset, FS_CardinalityType
<1>4. v.pages >= 1
  <2>1. ask[r].limit \in Nat \ {0}
    BY <1>2, AsksTyped
  <2> HIDE DEF total
  <2> QED BY <1>3, <2>1, AFirstPage
<1> DEFINE part == "total"
<1>5. Answers(r, part)'
  <2>1. /\ got'[r][part] = v /\ ask'[r] = ask[r]
        /\ Counted(ask[r])' = Counted(ask[r])
    <3> HIDE DEF v
    <3> QED BY <1>1, NewPart, SameTables
  <2> QED BY <2>1 DEF Answers, FigureParts
<1> HIDE DEF v
<1> QED BY <1>1, <1>2, <1>4, <1>5, PartSound

\* The page is one of those the order allows.
LEMMA PageSound ==
    ASSUME IInv, NEW r \in Readers, PageOfLocations(r)
    PROVE  IInv'
<1>1. PICK v \in Pages(ask[r]) : Return(r, v)
  BY DEF PageOfLocations
<1> DEFINE part == "page"
<1>2. todo[r] # <<>> /\ part = Head(todo[r]) /\ UNCHANGED aborted
  BY DEF PageOfLocations, Runs
<1>3. ask[r].op # "health"
  BY <1>2, StatementNames DEF IInv, RequestSound, HealthTables
<1>4. Answers(r, part)'
  <2>1. /\ got'[r][part] = v /\ ask'[r] = ask[r] /\ Pages(ask[r])' = Pages(ask[r])
    BY <1>1, <1>2, NewPart, SameTables
  <2> QED BY <2>1 DEF Answers, FigureParts
<1> QED BY <1>1, <1>2, <1>3, <1>4, PartSound

\* get_location answers with the row, or not at all.
LEMMA LocationSound ==
    ASSUME IInv, NEW r \in Readers, Location(r)
    PROVE  IInv'
<1> DEFINE part == "row"
<1>1. todo[r] # <<>> /\ part = Head(todo[r])
  BY DEF Location, Runs
<1>2. CASE ask[r].site \notin DOMAIN sites
  BY <1>1, <1>2, UnansweredSound DEF Location
<1>3. CASE ask[r].site \in DOMAIN sites
  <2>1. Return(r, ask[r].site) /\ UNCHANGED aborted
    BY <1>3 DEF Location
  <2>2. ask[r].op # "health"
    BY <1>1, StatementNames DEF IInv, RequestSound, HealthTables
  <2>3. Answers(r, part)'
    <3>1. got'[r][part] = ask[r].site /\ UNCHANGED sites
      BY <1>1, <2>1, NewPart
    <3> QED BY <1>3, <3>1 DEF Answers, FigureParts
  <2>4. part # "total"
    OBVIOUS
  <2> HIDE DEF part
  <2> QED BY <1>1, <2>1, <2>2, <2>3, <2>4, PartSound
<1> QED BY <1>2, <1>3

\* The warnings are those of the rows that were read before.
LEMMA WarningsSound ==
    ASSUME IInv, NEW r \in Readers, WarningsOfLocations(r)
    PROVE  IInv'
<1> DEFINE part == "warnings"
           v == {w \in warnings : w.loc \in Shown(r)}
<1>1. todo[r] # <<>> /\ part = Head(todo[r]) /\ Return(r, v) /\ UNCHANGED aborted
  BY DEF WarningsOfLocations, Runs
<1>2. ask[r].op # "health"
  BY <1>1, StatementNames DEF IInv, RequestSound, HealthTables
<1>3. Answers(r, part)'
  <2>1. got'[r][part] = v /\ Shown(r)' = Shown(r) /\ warnings' = warnings
    <3> HIDE DEF v
    <3> QED BY <1>1, NewPart
  <2> QED BY <2>1 DEF Answers, FigureParts
<1>4. part # "total"
  OBVIOUS
<1> HIDE DEF v, part
<1> QED BY <1>1, <1>2, <1>3, <1>4, PartSound

\* A figure of the dashboard is that of the tables.
LEMMA FigureSound ==
    ASSUME IInv, NEW r \in Readers, Analytics(r)
    PROVE  IInv'
<1>1. PICK part : part = Head(todo[r])
  OBVIOUS
<1>2. todo[r] # <<>> /\ Return(r, Figure(part)) /\ UNCHANGED aborted
      /\ ask[r].op = "analytics"
  BY <1>1 DEF Analytics
<1>3. part \in FigureParts
  BY <1>1, <1>2, StatementNames DEF IInv, RequestSound
<1>4. Answers(r, part)'
  <2>1. got'[r][part] = Figure(part) /\ Figure(part)' = Figure(part)
    BY <1>1, <1>2, NewPart, SameTables
  <2> QED BY <1>3, <2>1 DEF Answers, FigureParts
<1>5. part # "total"
  BY <1>3 DEF FigureParts
<1> QED BY <1>1, <1>2, <1>4, <1>5, PartSound

\* The rows of nearby are some the database may return.
LEMMA NearbySound ==
    ASSUME IInv, NEW r \in Readers, NearbySites(r)
    PROVE  IInv'
<1>1. PICK v \in Nearby(ask[r]) : Return(r, v)
  BY DEF NearbySites
<1> DEFINE part == "nearby"
<1>2. todo[r] # <<>> /\ part = Head(todo[r]) /\ UNCHANGED aborted
  BY DEF NearbySites, Runs
<1>3. ask[r].op # "health"
  BY <1>2, StatementNames DEF IInv, RequestSound, HealthTables
<1>4. Answers(r, part)'
  <2>1. /\ got'[r][part] = v /\ ask'[r] = ask[r] /\ Nearby(ask[r])' = Nearby(ask[r])
    BY <1>1, <1>2, NewPart, SameTables
  <2> QED BY <2>1 DEF Answers, FigureParts
<1> QED BY <1>1, <1>2, <1>3, <1>4, PartSound

\* The governorate is one whose name contains the one asked for.
LEMMA GovernorateSound ==
    ASSUME IInv, NEW r \in Readers, MatchGovernorate(r)
    PROVE  IInv'
<1> DEFINE part == "governorate"
           like == GovernoratesLike(ask[r].governorate)
<1>1. todo[r] # <<>> /\ part = Head(todo[r])
  BY DEF MatchGovernorate, Runs
<1>2. CASE like = {}
  BY <1>1, <1>2, UnansweredSound DEF MatchGovernorate
<1>3. CASE like # {}
  <2>1. PICK g \in like : Return(r, govs[g])
    BY <1>3 DEF MatchGovernorate
  <2>2. ask[r].op # "health" /\ UNCHANGED aborted
    BY <1>1, <1>3, StatementNames DEF IInv, RequestSound, HealthTables, MatchGovernorate
  <2>3. Answers(r, part)'
    <3>1. got'[r][part] = govs[g] /\ ask'[r] = ask[r] /\ UNCHANGED <<sites, warnings, govs>>
      <4> HIDE DEF like
      <4> QED BY <1>1, <2>1, NewPart
    <3>2. GovernoratesLike(ask[r].governorate)' = GovernoratesLike(ask[r].governorate)
      BY <3>1, SameTables
    <3> QED BY <2>1, <3>1, <3>2 DEF Answers, FigureParts
  <2>4. part # "total"
    OBVIOUS
  <2> HIDE DEF part, like
  <2> QED BY <1>1, <2>1, <2>2, <2>3, <2>4, PartSound
<1> QED BY <1>2, <1>3

\* The sites listed are in the area that was read before.
LEMMA InsideSound ==
    ASSUME IInv, NEW r \in Readers, SitesInside(r)
    PROVE  IInv'
<1> DEFINE area == got[r].governorate.area
           part == "inside"
<1>1. PICK v \in AnyOf(Inside(area, ask[r]), ask[r].limit) : Return(r, v)
  BY DEF SitesInside
<1>2. todo[r] # <<>> /\ part = Head(todo[r]) /\ UNCHANGED aborted
  BY DEF SitesInside, Runs
<1>3. ask[r].op # "health"
  BY <1>2, StatementNames DEF IInv, RequestSound, HealthTables
<1>4. Answers(r, part)'
  <2>1. /\ got'[r][part] = v /\ ask'[r] = ask[r]
        /\ got'[r].governorate = got[r].governorate
        /\ UNCHANGED <<sites, warnings, govs>>
    BY <1>1, <1>2, NewPart
  <2>2. Inside(got[r].governorate.area, ask[r])' = Inside(got[r].governorate.area, ask[r])
    BY <2>1, SameTables
  <2> QED BY <1>1, <2>1, <2>2 DEF Answers, FigureParts
<1> QED BY <1>1, <1>2, <1>3, <1>4, PartSound

\* The rows of a search are the first in an order the database may choose.
LEMMA FoundSound ==
    ASSUME IInv, NEW r \in Readers, SearchSites(r)
    PROVE  IInv'
<1>1. PICK area \in Areas(ask[r]) : \E q \in Ranked(Found(ask[r], area), ask[r].term) :
        Return(r, AtMost(q, ask[r].limit))
  BY DEF SearchSites
<1>2. PICK q \in Ranked(Found(ask[r], area), ask[r].term) :
        Return(r, AtMost(q, ask[r].limit))
  BY <1>1
<1> DEFINE part == "found"
<1>3. todo[r] # <<>> /\ part = Head(todo[r]) /\ UNCHANGED aborted
  BY DEF SearchSites, Runs
<1>4. ask[r].op # "health"
  BY <1>3, StatementNames DEF IInv, RequestSound, HealthTables
<1>5. Answers(r, part)'
  <2>1. /\ got'[r][part] = AtMost(q, ask[r].limit) /\ ask'[r] = ask[r]
        /\ UNCHANGED <<sites, warnings, govs>>
    BY <1>2, <1>3, NewPart
  <2>2. Areas(ask[r])' = Areas(ask[r])
    BY <2>1, SameTables
  <2>3. Found(ask[r], area)' = Found(ask[r], area)
    BY <2>1, SameTables
  <2>4. \A S, t : Ranked(S, t)' = Ranked(S, t)
    BY <2>1, SameTables
  <2> QED BY <1>1, <1>2, <2>1, <2>2, <2>3, <2>4 DEF Answers, FigureParts
<1> QED BY <1>2, <1>3, <1>4, <1>5, PartSound

\* A count of the health page answers nothing but the name of its table.
LEMMA HealthSound ==
    ASSUME IInv, NEW r \in Readers, CountTable(r) \/ CountFails(r)
    PROVE  IInv'
<1>1. PICK part : part = Head(todo[r])
  OBVIOUS
<1>2. PICK v : Return(r, v)
  BY DEF CountTable, CountFails
<1>3. /\ todo[r] # <<>> /\ ask[r].op = "health"
      /\ aborted' = aborted \/ aborted' = [aborted EXCEPT ![r] = TRUE]
  BY DEF CountTable, CountFails
<1>4. aborted' \in [Readers -> BOOLEAN]
  BY <1>3 DEF IInv, RequestsTyped
<1>5. PICK n \in 1..4 : part = HealthTables[n]
  BY <1>1, <1>3, StatementNames DEF IInv, RequestSound
<1>6. part # "total"
  BY <1>5 DEF HealthTables
<1>7. Answers(r, part)'
  BY <1>5 DEF Answers, HealthTables, FigureParts
<1> QED BY <1>1, <1>2, <1>3, <1>4, <1>6, <1>7, ReturnSound

-----------------------------------------------------------------------------
(* The steps of the writers *)

\* After a change no request is without one since it began, so nothing is said of
\* the parts it has.
LEMMA WriteSound ==
    ASSUME IInv, Committed,
           DOMAIN sites' \subseteq Sites, sites' \in [DOMAIN sites' -> Row],
           DOMAIN govs' = DOMAIN govs,
           IsFiniteSet(warnings'), \A w \in warnings' : w.loc \in DOMAIN sites'
    PROVE  IInv'
<1>1. /\ UNCHANGED <<ask, todo, got, aborted, outcome, since>>
      /\ writes \in Nat /\ writes' = writes + 1 /\ writes' \in 0..MaxWrites
  BY ReadsAssumption DEF Committed, IInv, TablesSound
<1>2. TablesSound'
  BY <1>1 DEF IInv, TablesSound
<1>3. \A r \in Readers : since'[r] <= writes' /\ since'[r] # writes'
  BY <1>1 DEF IInv, RequestsTyped
<1>4. RequestsTyped'
  BY <1>1, <1>3 DEF IInv, RequestsTyped
<1>5. ASSUME NEW r \in Readers
      PROVE  RequestSound(r)'
  BY <1>1, <1>3 DEF IInv, RequestSound, Underway, AllAnswer, HasPages
<1> QED BY <1>2, <1>4, <1>5 DEF IInv

\* The writers keep the rows and their references.
LEMMA WritersSound ==
    ASSUME IInv, Write
    PROVE  IInv'
<1>1. /\ Committed /\ writes \in Nat
      /\ DOMAIN sites \subseteq Sites /\ sites \in [DOMAIN sites -> Row]
      /\ IsFiniteSet(warnings) /\ \A w \in warnings : w.loc \in DOMAIN sites
      /\ \A row \in NewRows : row \in Row
  BY ReadsAssumption DEF Write, IInv, TablesSound
<1>2. Cardinality(Sites) \in Nat /\ Now \in Nat
  <2>1. Cardinality(Sites) \in Nat
    BY ReadsAssumption, FS_CardinalityType
  <2>2. writes * Cardinality(Sites) \in Nat
    BY <1>1, <2>1
  <2> QED BY <2>1, <2>2 DEF Now
<1>3. \A row \in Row, at \in Nat : [row EXCEPT !.updated = at] \in Row
  BY DEF Row
<1>4. CASE AddSites
  <2>1. PICK S \in SUBSET (Sites \ DOMAIN sites), row \in NewRows :
          \E at \in [S -> Now .. Now + Cardinality(S) - 1] :
             sites' = [s \in DOMAIN sites \cup S |->
                         IF s \in S THEN [row EXCEPT !.updated = at[s]] ELSE sites[s]]
    BY <1>4 DEF AddSites
  <2>2. PICK at \in [S -> Now .. Now + Cardinality(S) - 1] :
             sites' = [s \in DOMAIN sites \cup S |->
                         IF s \in S THEN [row EXCEPT !.updated = at[s]] ELSE sites[s]]
    BY <2>1
  <2>3. \A s \in S : at[s] \in Nat
    BY <1>2
  <2>4. \A s \in DOMAIN sites \cup S :
          (IF s \in S THEN [row EXCEPT !.updated = at[s]] ELSE sites[s]) \in Row
    BY <1>1, <1>3, <2>3
  <2>5. DOMAIN sites' = DOMAIN sites \cup S /\ sites' \in [DOMAIN sites' -> Row]
    BY <2>2, <2>4
  <2> QED BY <1>1, <1>4, <2>5, WriteSound DEF AddSites
<1>5. CASE EditSite
  <2>1. PICK s \in DOMAIN sites, row \in NewRows :
          sites' = [sites EXCEPT ![s] = [row EXCEPT !.updated = Now]]
    BY <1>5 DEF EditSite
  <2>2. DOMAIN sites' = DOMAIN sites /\ sites' \in [DOMAIN sites' -> Row]
    BY <1>1, <1>2, <1>3, <2>1
  <2> QED BY <1>1, <1>5, <2>2, WriteSound DEF EditSite
<1>6. CASE TouchSites
  <2>1. PICK S \in SUBSET DOMAIN sites :
          sites' = [s \in DOMAIN sites |->
                     IF s \in S THEN [sites[s] EXCEPT !.updated = Now] ELSE sites[s]]
    BY <1>6 DEF TouchSites
  <2>2. \A s \in DOMAIN sites :
          (IF s \in S THEN [sites[s] EXCEPT !.updated = Now] ELSE sites[s]) \in Row
    BY <1>1, <1>2, <1>3
  <2>3. DOMAIN sites' = DOMAIN sites /\ sites' \in [DOMAIN sites' -> Row]
    BY <2>1, <2>2
  <2> QED BY <1>1, <1>6, <2>3, WriteSound DEF TouchSites
<1>7. CASE RemoveSite
  <2>1. PICK gone \in DOMAIN sites :
          /\ sites' = [s \in DOMAIN sites \ {gone} |-> sites[s]]
          /\ warnings' = {w \in warnings : w.loc # gone}
    BY <1>7 DEF RemoveSite
  <2>2. DOMAIN sites' = DOMAIN sites \ {gone} /\ sites' \in [DOMAIN sites' -> Row]
    BY <1>1, <2>1
  <2>3. warnings' \subseteq warnings /\ IsFiniteSet(warnings')
    <3>1. warnings' \subseteq warnings
      BY <2>1
    <3> QED BY <1>1, <3>1, FS_Subset
  <2> QED BY <1>1, <1>7, <2>1, <2>2, <2>3, WriteSound DEF RemoveSite
<1>8. CASE AddWarning
  <2>1. PICK w : w.loc \in DOMAIN sites /\ warnings' = warnings \cup {w}
    BY <1>8 DEF AddWarning
  <2>2. IsFiniteSet(warnings')
    BY <1>1, <2>1, FS_AddElement
  <2> QED BY <1>1, <1>8, <2>1, <2>2, WriteSound DEF AddWarning
<1>9. CASE RemoveWarning
  <2>1. warnings' \subseteq warnings
    BY <1>9 DEF RemoveWarning
  <2>2. IsFiniteSet(warnings')
    BY <1>1, <2>1, FS_Subset
  <2> QED BY <1>1, <1>9, <2>1, <2>2, WriteSound DEF RemoveWarning
<1>10. CASE Redraw
  <2>1. DOMAIN govs' = DOMAIN govs
    BY <1>10 DEF Redraw
  <2> QED BY <1>1, <1>10, <2>1, WriteSound DEF Redraw
<1> QED BY <1>4, <1>5, <1>6, <1>7, <1>8, <1>9, <1>10 DEF Write

-----------------------------------------------------------------------------

\* Nothing changes when no request or writer moves.
LEMMA StayingSound ==
    ASSUME IInv, UNCHANGED vars
    PROVE  IInv'
<1>1. TablesSound' /\ RequestsTyped'
  BY DEF IInv, TablesSound, RequestsTyped, vars, tables
<1>2. ASSUME NEW q \in Readers
      PROVE  RequestSound(q)'
  BY OthersSound DEF IInv, vars
<1> QED BY <1>1, <1>2 DEF IInv

\* Every step keeps the invariant.
LEMMA Step == IInv /\ [Next]_vars => IInv'
<1> SUFFICES ASSUME IInv, [Next]_vars PROVE IInv'
  OBVIOUS
<1>1. ASSUME NEW r \in Readers, NEW a \in Asks, Begin(r, a)
      PROVE  IInv'
  BY <1>1, BeginSound
<1>2. ASSUME NEW r \in Readers, Advance(r)
      PROVE  IInv'
  BY <1>2, CountSound, PageSound, LocationSound, WarningsSound, FigureSound, HealthSound,
     NearbySound, GovernorateSound, InsideSound, FoundSound DEF Advance
<1>3. ASSUME NEW r \in Readers, Fail(r)
      PROVE  IInv'
  BY <1>3, UnansweredSound DEF Fail
<1>4. CASE Write
  BY <1>4, WritersSound
<1>5. CASE UNCHANGED vars
  BY <1>5, StayingSound
<1> QED BY <1>1, <1>2, <1>3, <1>4, <1>5 DEF Next, Finished

\* It holds at the start, when nobody has asked for anything.
LEMMA Start == Init => IInv
<1> SUFFICES ASSUME Init PROVE IInv
  OBVIOUS
<1>1. PICK t \in StartTables : sites = t.sites /\ warnings = t.warnings /\ govs = t.govs
  BY DEF Init
<1>2. TablesSound
  BY <1>1, ReadsAssumption DEF Init, TablesSound
<1>3. RequestsTyped
  BY DEF Init, RequestsTyped
<1>4. ASSUME NEW r \in Readers
      PROVE  RequestSound(r)
  <2>1. ask[r] = NoAsk /\ todo[r] = <<>> /\ outcome[r] = "none" /\ got[r] = <<>>
    BY DEF Init
  <2>2. DOMAIN got[r] = {}
    BY <2>1
  <2> QED BY <2>1, <2>2 DEF RequestSound, Underway, AllAnswer, HasPages, NoAsk
<1> QED BY <1>2, <1>3, <1>4 DEF IInv

\* So it holds in every state.
LEMMA Invariance == Spec => []IInv
BY Start, Step, PTL DEF Spec
-----------------------------------------------------------------------------
(* The theorems *)

\* A finished request has all parts, and those of a quiet one answer.
LEMMA FinishedReply ==
    ASSUME IInv, NEW r \in Readers, outcome[r] = "ok"
    PROVE  ask[r] \in Asks /\ DOMAIN got[r] = ToSet(Statements(ask[r].op))
<1> DEFINE all == Statements(ask[r].op)
<1>1. ask[r] \in Asks /\ DOMAIN got[r] = FirstParts(all, Len(all))
  BY DEF IInv, RequestSound, Underway
<1>2. all \in Seq(Parts)
  BY <1>1, StatementsDiffer
<1> HIDE DEF all
<1>3. ToSet(all) = FirstParts(all, Len(all))
  BY <1>2 DEF ToSet, FirstParts
<1> QED BY <1>1, <1>3 DEF all

\* Every part of the reply to a quiet request answers.
LEMMA QuietReply ==
    ASSUME IInv, NEW r \in Readers, NEW op, Quiet(r, op)
    PROVE  /\ ask[r] \in Asks /\ ask[r].op = op
           /\ \A p \in ToSet(Statements(op)) : p \in DOMAIN got[r] /\ Answers(r, p)
BY FinishedReply DEF Quiet, IInv, RequestSound, AllAnswer

\* The variables have their types, an answered request all its parts, and a list
\* at least one page.
THEOREM TypeCorrect == Spec => []TypeOK
<1>1. ASSUME IInv PROVE TypeOK
  <2>1. \A r \in Readers : outcome[r] = "ok" => DOMAIN got[r] = ToSet(Statements(ask[r].op))
    BY <1>1, FinishedReply
  <2>2. since \in [Readers -> 0..MaxWrites]
    <3>1. \A r \in Readers : since[r] \in 0..MaxWrites
      BY <1>1, ReadsAssumption DEF IInv, TablesSound, RequestsTyped
    <3> QED BY <1>1, <3>1 DEF IInv, RequestsTyped
  <2> QED BY <1>1, <2>1, <2>2 DEF TypeOK, IInv, TablesSound, RequestsTyped, RequestSound, HasPages
<1> QED BY <1>1, Invariance, PTL

\* A site that is listed for a governorate lies in the one it is labelled with.
LEMMA InsideIsInside ==
    ASSUME IInv
    PROVE  SitesLieInGovernorate
<1> SUFFICES ASSUME NEW r \in Readers, Quiet(r, "by_governorate")
             PROVE  /\ got[r].governorate \in {govs[g] : g \in DOMAIN govs}
                    /\ Mentions(ask[r].governorate, got[r].governorate.name_en)
                    /\ \A s \in got[r].inside : sites[s].place \in got[r].governorate.area
  BY DEF SitesLieInGovernorate
<1>1. "governorate" \in ToSet(Statements("by_governorate"))
      /\ "inside" \in ToSet(Statements("by_governorate"))
  <2>1. Statements("by_governorate") = <<"governorate", "inside">>
    BY DEF Statements
  <2>2. DOMAIN <<"governorate", "inside">> = {1, 2}
    OBVIOUS
  <2> QED BY <2>1, <2>2 DEF ToSet
<1>2. Answers(r, "governorate") /\ Answers(r, "inside")
  BY <1>1, QuietReply
<1>3. PICK g \in GovernoratesLike(ask[r].governorate) : got[r].governorate = govs[g]
  BY <1>2 DEF Answers
<1>4. got[r].inside \subseteq Inside(got[r].governorate.area, ask[r])
  BY <1>2 DEF Answers, AnyOf
<1> QED BY <1>3, <1>4 DEF GovernoratesLike, Inside

\* The order of a list.
Precedes(s, t, a) == IF a.descending THEN SortKey(s, a) > SortKey(t, a)
                     ELSE SortKey(s, a) < SortKey(t, a)

PageStart(a) == (a.page - 1) * a.limit
PageLength(a) == SliceLength(Cardinality(Matching(a)), PageStart(a), a.limit)

\* The reply of a list, nothing written since it began: some of the rows that
\* match, in the order asked for, and the warnings of those.
LEMMA ListReply ==
    ASSUME IInv, NEW r \in Readers, Quiet(r, "list")
    PROVE  /\ ask[r] \in Asks /\ ask[r].op = "list"
           /\ Cardinality(Matching(ask[r])) \in Nat /\ IsFiniteSet(Matching(ask[r]))
           /\ PageStart(ask[r]) \in Nat /\ PageLength(ask[r]) \in Nat
           /\ got[r].total.rows = Cardinality(Matching(ask[r]))
           /\ got[r].total.pages =
                TotalPages(Cardinality(Matching(ask[r])), ask[r].limit)
           /\ \E q \in SetToSeqs(Matching(ask[r])) :
                /\ \A i, j \in 1..Cardinality(Matching(ask[r])) :
                     i < j => ~Precedes(q[j], q[i], ask[r])
                /\ got[r].page \in [1..PageLength(ask[r]) -> Matching(ask[r])]
                /\ \A i \in 1..PageLength(ask[r]) :
                     /\ PageStart(ask[r]) + i \in 1..Cardinality(Matching(ask[r]))
                     /\ got[r].page[i] = q[PageStart(ask[r]) + i]
           /\ got[r].warnings = {w \in warnings : w.loc \in ToSet(got[r].page)}
<1> DEFINE a == ask[r]
           S == Matching(a)
           n == Cardinality(S)
<1>1. a \in Asks /\ a.op = "list"
  BY QuietReply
<1>2. a.page \in Nat \ {0} /\ a.limit \in Nat \ {0}
  BY <1>1, AsksTyped
<1>3. "total" \in ToSet(Statements("list")) /\ "page" \in ToSet(Statements("list"))
      /\ "warnings" \in ToSet(Statements("list"))
  <2>1. Statements("list") = <<"total", "page", "warnings">>
    BY DEF Statements
  <2>2. DOMAIN <<"total", "page", "warnings">> = {1, 2, 3}
    OBVIOUS
  <2> QED BY <2>1, <2>2 DEF ToSet
<1>4. Answers(r, "total") /\ Answers(r, "page") /\ Answers(r, "warnings")
  BY <1>3, QuietReply
<1>5. IsFiniteSet(S) /\ n \in Nat
  <2>1. S \subseteq Sites
    BY DEF Matching, IInv, TablesSound
  <2> HIDE DEF S
  <2> QED BY <2>1, ReadsAssumption, FS_Subset, FS_CardinalityType
<1>6. PageStart(a) \in Nat
  BY <1>2 DEF PageStart
<1>7. got[r].total = [rows |-> n, pages |-> TotalPages(n, a.limit)]
  BY <1>4 DEF Answers, Counted
<1>8. PICK q \in SetToSeqs(S) : /\ \A i, j \in DOMAIN q : i < j => ~Precedes(q[j], q[i], a)
                                /\ got[r].page = Slice(q, PageStart(a), a.limit)
  <2>1. got[r].page \in Pages(a)
    BY <1>4 DEF Answers
  <2> QED BY <2>1 DEF Pages, OrderedBy, Precedes, Offset, PageStart
<1>9. q \in [1..n -> S]
  BY <1>5, SequencesShowAll
<1>10. /\ PageLength(a) \in Nat
       /\ got[r].page \in [1..PageLength(a) -> S]
       /\ \A i \in 1..PageLength(a) : /\ PageStart(a) + i \in 1..n
                                      /\ got[r].page[i] = q[PageStart(a) + i]
  <2> DEFINE from == PageStart(a)
             size == a.limit
  <2>1. PageLength(a) = SliceLength(n, from, size)
    BY DEF PageLength
  <2>2. n \in Nat /\ Lists(q, n, S) /\ from \in Nat /\ size \in Nat \ {0}
    BY <1>2, <1>5, <1>6, <1>9 DEF Lists
  <2>3. got[r].page = Slice(q, from, size)
    BY <1>8
  <2> HIDE DEF n, S, from, size
  <2>4. /\ SliceLength(n, from, size) \in Nat
        /\ Lists(Slice(q, from, size), SliceLength(n, from, size), S)
        /\ \A i \in 1..SliceLength(n, from, size) :
             from + i \in 1..n /\ Slice(q, from, size)[i] = q[from + i]
    BY <2>2, SliceIsPart
  <2> QED BY <2>1, <2>3, <2>4 DEF from, Lists
<1>12. got[r].warnings = {w \in warnings : w.loc \in ToSet(got[r].page)}
  BY <1>1, <1>4 DEF Answers, Shown
<1>13. /\ got[r].total.rows = n /\ got[r].total.pages = TotalPages(n, a.limit)
  BY <1>7
<1> HIDE DEF n, S, a
<1>14. \E p \in SetToSeqs(S) :
         /\ \A i, j \in 1..n : i < j => ~Precedes(p[j], p[i], a)
         /\ got[r].page \in [1..PageLength(a) -> S]
         /\ \A i \in 1..PageLength(a) : /\ PageStart(a) + i \in 1..n
                                        /\ got[r].page[i] = p[PageStart(a) + i]
  <2>1. DOMAIN q = 1..n
    BY <1>9
  <2> QED BY <1>8, <1>10, <2>1
<1> QED BY <1>1, <1>5, <1>6, <1>10, <1>12, <1>13, <1>14 DEF a, S, n

\* The total of a list agrees with the length of its page, and what it was filtered
\* for with the warnings it shows.
LEMMA ListsAgree ==
    ASSUME IInv
    PROVE  ListsAndRowsAgree
<1>1. ASSUME NEW r \in Readers, Quiet(r, "list")
      PROVE  LET a == ask[r]
                 before == (a.page - 1) * a.limit
                 total == got[r].total.rows
             IN  /\ Len(got[r].page) = IF total < before THEN 0
                                       ELSE Smaller(a.limit, total - before)
                 /\ a.hasWarnings # NULL =>
                      \A s \in ToSet(got[r].page) :
                        a.hasWarnings <=> \E w \in got[r].warnings :
                                             w.loc = s /\ w.active
                 /\ \A w \in got[r].warnings : w.loc \in Shown(r)
  <2>1. /\ got[r].page \in [1..PageLength(ask[r]) -> Matching(ask[r])]
        /\ PageLength(ask[r]) \in Nat
        /\ got[r].total.rows = Cardinality(Matching(ask[r]))
        /\ got[r].warnings = {w \in warnings : w.loc \in ToSet(got[r].page)}
        /\ ask[r].op = "list"
    BY <1>1, ListReply
  <2>2. Len(got[r].page) = PageLength(ask[r])
    BY <2>1, LenProperties, SeqDef
  <2>3. \A s \in ToSet(got[r].page) : s \in Matching(ask[r])
    BY <2>1 DEF ToSet
  <2>4. ASSUME ask[r].hasWarnings # NULL, NEW s \in ToSet(got[r].page)
        PROVE  ask[r].hasWarnings <=> \E w \in got[r].warnings : w.loc = s /\ w.active
    <3>1. ask[r].hasWarnings <=> HasWarning(s)
      BY <2>3, <2>4 DEF Matching
    <3>2. HasWarning(s) <=> \E w \in got[r].warnings : w.loc = s /\ w.active
      BY <2>1, <2>4 DEF HasWarning
    <3> QED BY <3>1, <3>2
  <2>5. \A w \in got[r].warnings : w.loc \in Shown(r)
    BY <2>1 DEF Shown
  <2>6. Len(got[r].page) = IF got[r].total.rows < (ask[r].page - 1) * ask[r].limit THEN 0
                 ELSE Smaller(ask[r].limit, got[r].total.rows - (ask[r].page - 1) * ask[r].limit)
    BY <2>1, <2>2 DEF PageLength, PageStart, SliceLength
  <2> QED BY <2>4, <2>5, <2>6
<1>2. ASSUME NEW r \in Readers, Quiet(r, "get")
      PROVE  \A w \in got[r].warnings : w.loc \in Shown(r)
  <2>1. "warnings" \in ToSet(Statements("get"))
    BY DEF ToSet, Statements
  <2>2. Answers(r, "warnings")
    BY <1>2, <2>1, QuietReply
  <2> QED BY <2>2 DEF Answers
<1> QED BY <1>1, <1>2 DEF ListsAndRowsAgree

\* The figures of a quiet dashboard are those of the tables.
LEMMA FiguresOfTables ==
    ASSUME IInv, NEW r \in Readers, Quiet(r, "analytics")
    PROVE  /\ got[r].total_locations = Cardinality(DOMAIN sites)
           /\ got[r].tourist_places = Cardinality({s \in DOMAIN sites : sites[s].tourist})
           /\ got[r].active_warnings = Cardinality({w \in warnings : w.active})
           /\ got[r].by_category = ByCategory
           /\ got[r].warnings_by_severity = BySeverity
<1>1. FigureParts \subseteq ToSet(Statements("analytics"))
  <2> DEFINE q == <<"total_locations", "tourist_places", "active_warnings",
                    "by_category", "warnings_by_severity">>
  <2>1. Statements("analytics") = q
    BY DEF Statements
  <2>2. /\ q[1] = "total_locations" /\ q[2] = "tourist_places"
        /\ q[3] = "active_warnings" /\ q[4] = "by_category"
        /\ q[5] = "warnings_by_severity"
    OBVIOUS
  <2>3. 1 \in DOMAIN q /\ 2 \in DOMAIN q /\ 3 \in DOMAIN q /\ 4 \in DOMAIN q /\ 5 \in DOMAIN q
    OBVIOUS
  <2> HIDE DEF q
  <2> QED BY <2>1, <2>2, <2>3 DEF FigureParts, ToSet
<1>2. \A p \in FigureParts : got[r][p] = Figure(p)
  <2>1. \A p \in FigureParts : Answers(r, p)
    BY <1>1, QuietReply
  <2> QED BY <2>1 DEF Answers
<1>3. /\ "total_locations" \in FigureParts /\ "tourist_places" \in FigureParts
      /\ "active_warnings" \in FigureParts /\ "by_category" \in FigureParts
      /\ "warnings_by_severity" \in FigureParts
  BY DEF FigureParts
<1>4. /\ Figure("total_locations") = Cardinality(DOMAIN sites)
      /\ Figure("tourist_places") = Cardinality({s \in DOMAIN sites : sites[s].tourist})
      /\ Figure("active_warnings") = Cardinality({w \in warnings : w.active})
      /\ Figure("by_category") = ByCategory
      /\ Figure("warnings_by_severity") = BySeverity
  BY DEF Figure
<1> QED BY <1>2, <1>3, <1>4

\* A finite set of two parts.
LEMMA TwoParts ==
    ASSUME NEW S, IsFiniteSet(S), NEW A, NEW B, S = A \cup B, A \cap B = {}
    PROVE  Cardinality(S) = Cardinality(A) + Cardinality(B)
<1>1. IsFiniteSet(A) /\ IsFiniteSet(B)
  <2>1. A \subseteq S /\ B \subseteq S
    OBVIOUS
  <2> QED BY <2>1, FS_Subset
<1>2. Cardinality(A) \in Nat /\ Cardinality(B) \in Nat /\ Cardinality(A \cap B) = 0
  BY <1>1, FS_CardinalityType, FS_EmptySet
<1>3. Cardinality(A \cup B) = Cardinality(A) + Cardinality(B) - Cardinality(A \cap B)
  BY <1>1, FS_Union
<1> QED BY <1>2, <1>3

\* The counts by category are those of the sites whose category is shown.
LEMMA CategoriesAddUp ==
    ASSUME TablesSound
    PROVE  SumOf(ByCategory)
             = Cardinality({s \in DOMAIN sites : sites[s].category \notin {NULL, Blank}})
<1> DEFINE S == {s \in DOMAIN sites : sites[s].category \notin {NULL, Blank}}
           key == [s \in DOMAIN sites |-> sites[s].category]
           D == {sites[s].category : s \in DOMAIN sites} \ {NULL, Blank}
           Group(c) == {s \in S : key[s] = c}
<1>1. IsFiniteSet(S)
  <2>1. S \subseteq Sites
    BY DEF TablesSound
  <2> HIDE DEF S
  <2> QED BY <2>1, ReadsAssumption, FS_Subset
<1>2. D = {key[s] : s \in S}
  OBVIOUS
<1>3. \A c \in D : {s \in DOMAIN sites : sites[s].category = c} = Group(c)
  OBVIOUS
<1>4. ByCategory = [c \in D |-> Cardinality(Group(c))]
  <2>1. ByCategory = [c \in D |-> Cardinality({s \in DOMAIN sites : sites[s].category = c})]
    BY DEF ByCategory
  <2> HIDE DEF D, Group
  <2> QED BY <1>3, <2>1
<1> HIDE DEF D, key
<1>5. SumOf([c \in D |-> Cardinality({s \in S : key[s] = c})]) = Cardinality(S)
  <2> HIDE DEF S
  <2> QED BY <1>1, <1>2, GroupsAddUp
<1> QED BY <1>4, <1>5

\* The counts by severity are those of the active warnings whose severity is shown.
LEMMA SeveritiesAddUp ==
    ASSUME TablesSound
    PROVE  SumOf(BySeverity)
             = Cardinality({w \in warnings : w.active /\ w.severity # Blank})
<1> DEFINE S == {w \in warnings : w.active /\ w.severity # Blank}
           key == [w \in S |-> w.severity]
           D == {w.severity : w \in {x \in warnings : x.active}} \ {Blank}
           Group(v) == {w \in S : key[w] = v}
<1>1. IsFiniteSet(S)
  <2>1. S \subseteq warnings /\ IsFiniteSet(warnings)
    BY DEF TablesSound
  <2> HIDE DEF S
  <2> QED BY <2>1, FS_Subset
<1>2. D = {key[w] : w \in S}
  OBVIOUS
<1>3. \A v \in D : {w \in warnings : w.active /\ w.severity = v} = Group(v)
  OBVIOUS
<1>4. BySeverity = [v \in D |-> Cardinality(Group(v))]
  <2>1. BySeverity
          = [v \in D |-> Cardinality({w \in warnings : w.active /\ w.severity = v})]
    BY DEF BySeverity
  <2> HIDE DEF D, Group
  <2> QED BY <1>3, <2>1
<1> HIDE DEF D, key
<1>5. SumOf([v \in D |-> Cardinality({w \in S : key[w] = v})]) = Cardinality(S)
  <2> HIDE DEF S
  <2> QED BY <1>1, <1>2, GroupsAddUp
<1> QED BY <1>4, <1>5

\* The figures of a quiet dashboard add up, with the groups that are not shown.
LEMMA FiguresAgree ==
    ASSUME IInv
    PROVE  AnalyticsAddUp
<1> DEFINE all == DOMAIN sites
           with == {s \in all : sites[s].category \notin {NULL, Blank}}
           without == {s \in all : sites[s].category \in {NULL, Blank}}
           tourist == {s \in all : sites[s].tourist}
           active == {w \in warnings : w.active}
           graded == {w \in warnings : w.active /\ w.severity # Blank}
           ungraded == {w \in warnings : w.active /\ w.severity = Blank}
<1> SUFFICES ASSUME NEW r \in Readers, Quiet(r, "analytics")
             PROVE  /\ got[r].total_locations =
                         SumOf(got[r].by_category) + Cardinality(without)
                    /\ got[r].active_warnings =
                         SumOf(got[r].warnings_by_severity) + Cardinality(ungraded)
                    /\ got[r].tourist_places <= got[r].total_locations
  BY DEF AnalyticsAddUp
<1>1. TablesSound
  BY DEF IInv
<1>2. IsFiniteSet(all) /\ IsFiniteSet(warnings)
  BY <1>1, ReadsAssumption, FS_Subset DEF TablesSound
<1>3. /\ all = with \cup without /\ with \cap without = {} /\ tourist \subseteq all
      /\ active = graded \cup ungraded /\ graded \cap ungraded = {}
      /\ active \subseteq warnings
  OBVIOUS
<1>4. /\ got[r].total_locations = Cardinality(all)
      /\ got[r].tourist_places = Cardinality(tourist)
      /\ got[r].active_warnings = Cardinality(active)
      /\ SumOf(got[r].by_category) = Cardinality(with)
      /\ SumOf(got[r].warnings_by_severity) = Cardinality(graded)
  BY <1>1, FiguresOfTables, CategoriesAddUp, SeveritiesAddUp
<1> HIDE DEF all, with, without, tourist, active, graded, ungraded
<1>5. Cardinality(tourist) <= Cardinality(all) /\ IsFiniteSet(active)
  BY <1>2, <1>3, FS_Subset
<1>6. Cardinality(all) = Cardinality(with) + Cardinality(without)
  BY <1>2, <1>3, TwoParts
<1>7. Cardinality(active) = Cardinality(graded) + Cardinality(ungraded)
  BY <1>3, <1>5, TwoParts
<1> QED BY <1>4, <1>5, <1>6, <1>7

\* The parts of a reply to which nothing was written in between agree: a list, a
\* location, the sites of a governorate, and the figures of the dashboard when the
\* sites and warnings of the groups that are not shown are added.
THEOREM QuietRepliesAreOne == Spec => []QuietRepliesAgree
<1>1. IInv => QuietRepliesAgree
  BY ListsAgree, FiguresAgree, InsideIsInside DEF QuietRepliesAgree
<1> QED BY <1>1, Invariance, PTL

\* How a site fits the term, and when it fits better than another.
FitOf(s, term) == {Fits(term, sites[s].name), Fits(term, sites[s].name_en)}
FitsBetter(s, t, term) ==
    \/ "whole" \in FitOf(s, term) /\ "whole" \notin FitOf(t, term)
    \/ /\ term \in LowerTerms /\ "start" \in FitOf(s, term)
       /\ FitOf(t, term) \cap {"whole", "start"} = {}

\* What fits better has the smaller relevance.
LEMMA BetterRanksFirst ==
    ASSUME NEW s, NEW t, NEW term, FitsBetter(s, t, term)
    PROVE  Relevance(s, term) < Relevance(t, term)
<1>1. \A u : Relevance(u, term) =
               CASE "whole" \in FitOf(u, term) -> 0
                 [] "whole" \notin FitOf(u, term) /\ "start" \in FitOf(u, term)
                    /\ term \in LowerTerms -> 1
                 [] OTHER -> 2
  BY DEF Relevance, FitOf
<1>2. CASE "whole" \in FitOf(s, term) /\ "whole" \notin FitOf(t, term)
  <2>1. Relevance(s, term) = 0
    BY <1>1, <1>2
  <2>2. Relevance(t, term) = 1 \/ Relevance(t, term) = 2
    BY <1>1, <1>2
  <2> QED BY <2>1, <2>2
<1>3. CASE /\ term \in LowerTerms /\ "start" \in FitOf(s, term)
           /\ FitOf(t, term) \cap {"whole", "start"} = {}
  <2>1. Relevance(s, term) = 0 \/ Relevance(s, term) = 1
    BY <1>1, <1>3
  <2>2. Relevance(t, term) = 2
    <3>1. "whole" \notin FitOf(t, term) /\ "start" \notin FitOf(t, term)
      BY <1>3
    <3> QED BY <1>1, <3>1
  <2> QED BY <2>1, <2>2
<1> QED BY <1>2, <1>3 DEF FitsBetter

\* The reply of a search: the first of the sites that were found, as they are ranked.
LEMMA SearchReply ==
    ASSUME IInv, NEW r \in Readers, Quiet(r, "search")
    PROVE  \E area \in Areas(ask[r]), n \in Nat : \E m \in 0..n :
             \E q \in [1..n -> Found(ask[r], area)] :
               /\ \A s \in Found(ask[r], area) : \E i \in 1..n : q[i] = s
               /\ \A i, j \in 1..n : i < j =>
                    ~(Relevance(q[j], ask[r].term) < Relevance(q[i], ask[r].term))
               /\ got[r].found \in [1..m -> Found(ask[r], area)]
               /\ \A i \in 1..m : got[r].found[i] = q[i]
<1> DEFINE a == ask[r]
<1>1. "found" \in ToSet(Statements("search"))
  BY DEF ToSet, Statements
<1>2. a \in Asks /\ a.op = "search" /\ Answers(r, "found")
  BY <1>1, QuietReply
<1>3. a.limit \in Maybe(Nat \ {0})
  BY <1>2, AsksTyped
<1>4. PICK area \in Areas(a) : \E q \in Ranked(Found(a, area), a.term) :
                                 got[r].found = AtMost(q, a.limit)
  BY <1>2 DEF Answers
<1> DEFINE S == Found(a, area)
           n == Cardinality(S)
<1>5. PICK q \in Ranked(S, a.term) : got[r].found = AtMost(q, a.limit)
  BY <1>4
<1>6. IsFiniteSet(S)
  <2>1. S \subseteq Sites
    BY DEF Found, IInv, TablesSound
  <2> HIDE DEF S
  <2> QED BY <2>1, ReadsAssumption, FS_Subset
<1>7. /\ q \in SetToSeqs(S)
      /\ \A i, j \in DOMAIN q : i < j => ~(Relevance(q[j], a.term) < Relevance(q[i], a.term))
  <2> HIDE DEF S
  <2> QED BY <1>5 DEF Ranked, OrderedBy
<1> DEFINE limit == a.limit
<1> HIDE DEF S, n, limit
<1>8. n \in Nat /\ q \in [1..n -> S] /\ \A s \in S : \E i \in 1..n : q[i] = s
  BY <1>6, <1>7, SequencesShowAll DEF n
<1>9. PICK m \in 0..n : /\ Lists(AtMost(q, limit), m, S)
                        /\ \A i \in 1..m : AtMost(q, limit)[i] = q[i]
  <2>1. Lists(q, n, S) /\ n \in Nat /\ limit \in Maybe(Nat \ {0})
    BY <1>3, <1>8 DEF Lists, limit
  <2> QED BY <2>1, AtMostIsFirst
<1>10. got[r].found \in [1..m -> S] /\ \A i \in 1..m : got[r].found[i] = q[i]
  BY <1>5, <1>9 DEF Lists, limit
<1>11. \A i, j \in 1..n : i < j => ~(Relevance(q[j], a.term) < Relevance(q[i], a.term))
  BY <1>7, <1>8
<1> HIDE DEF a
<1> QED BY <1>4, <1>8, <1>9, <1>10, <1>11 DEF S, a

\* A search puts no site before one that fits better, and leaves out none that does.
LEMMA BestFirst ==
    ASSUME IInv
    PROVE  BestMatchesFirst
<1> SUFFICES ASSUME NEW r \in Readers, Quiet(r, "search"),
                    ~Chosen(ask[r].category), ~Chosen(ask[r].governorate)
             PROVE  /\ \A i, j \in DOMAIN got[r].found :
                         i < j => ~FitsBetter(got[r].found[j], got[r].found[i], ask[r].term)
                    /\ \A s \in DOMAIN sites \ ToSet(got[r].found), t \in ToSet(got[r].found) :
                         ~FitsBetter(s, t, ask[r].term)
  BY DEF BestMatchesFirst, FitsBetter, FitOf
<1> DEFINE a == ask[r]
           found == got[r].found
<1>1. PICK area \in Areas(a), n \in Nat : \E m \in 0..n : \E q \in [1..n -> Found(a, area)] :
               /\ \A s \in Found(a, area) : \E i \in 1..n : q[i] = s
               /\ \A i, j \in 1..n : i < j =>
                    ~(Relevance(q[j], a.term) < Relevance(q[i], a.term))
               /\ found \in [1..m -> Found(a, area)]
               /\ \A i \in 1..m : found[i] = q[i]
  BY SearchReply
<1>2. PICK m \in 0..n : \E q \in [1..n -> Found(a, area)] :
               /\ \A s \in Found(a, area) : \E i \in 1..n : q[i] = s
               /\ \A i, j \in 1..n : i < j =>
                    ~(Relevance(q[j], a.term) < Relevance(q[i], a.term))
               /\ found \in [1..m -> Found(a, area)]
               /\ \A i \in 1..m : found[i] = q[i]
  BY <1>1
<1>3. PICK q \in [1..n -> Found(a, area)] :
               /\ \A s \in Found(a, area) : \E i \in 1..n : q[i] = s
               /\ \A i, j \in 1..n : i < j =>
                    ~(Relevance(q[j], a.term) < Relevance(q[i], a.term))
               /\ found \in [1..m -> Found(a, area)]
               /\ \A i \in 1..m : found[i] = q[i]
  BY <1>2
<1>4. \A s \in DOMAIN sites : \A t : FitsBetter(s, t, a.term) => s \in Found(a, area)
  BY DEF FitsBetter, FitOf, Found, Mentions, InCategory
<1>5. DOMAIN found = 1..m /\ \A i \in 1..m : i \in 1..n /\ found[i] = q[i]
  BY <1>3
<1> HIDE DEF found, a
<1>6. ASSUME NEW i \in 1..n, NEW j \in 1..n, i < j
      PROVE  ~FitsBetter(q[j], q[i], a.term)
  BY <1>3, <1>6, BetterRanksFirst
<1>7. \A i, j \in DOMAIN found : i < j => ~FitsBetter(found[j], found[i], a.term)
  BY <1>5, <1>6
<1>8. ASSUME NEW s \in DOMAIN sites \ ToSet(found), NEW t \in ToSet(found),
             FitsBetter(s, t, a.term)
      PROVE  FALSE
  <2>1. PICK j \in 1..n : q[j] = s
    BY <1>3, <1>4, <1>8
  <2>2. PICK i \in 1..m : found[i] = t
    BY <1>5 DEF ToSet
  <2>3. ~(j \in 1..m)
    BY <1>5, <1>8, <2>1 DEF ToSet
  <2>4. i < j /\ i \in 1..n
    BY <1>5, <2>2, <2>3
  <2> QED BY <1>5, <1>6, <1>8, <2>1, <2>2, <2>4
<1> QED BY <1>7, <1>8 DEF found, a

\* In a search without filters, a site whose primary or English name is the term
\* is neither dropped nor postponed for one without such a name; nor, when the
\* term has no capitals, one where either begins with it for one that contains it.
THEOREM BestMatchesComeFirst == Spec => []BestMatchesFirst
<1>1. IInv => BestMatchesFirst
  BY BestFirst
<1> QED BY <1>1, Invariance, PTL

\* Two requests for the same list, each for a page of it.
SameList(a, b) == b = [a EXCEPT !.page = b.page]
Distinct(a) == \A s, t \in Matching(a) : SortKey(s, a) = SortKey(t, a) => s = t
Key(a) == [s \in Matching(a) |-> IF a.descending THEN 0 - SortKey(s, a) ELSE SortKey(s, a)]
OnPage(a, k) == PageStart(a) < k /\ k <= PageStart(a) + a.limit

\* They read the same rows in the same order.
LEMMA SameRows ==
    ASSUME NEW a \in Asks, NEW b \in Asks, a.op = "list", SameList(a, b)
    PROVE  /\ b.op = "list" /\ b.limit = a.limit
           /\ Matching(b) = Matching(a) /\ Key(b) = Key(a)
<1>1. a \in [op : {"list"}, page : Nat \ {0}, limit : Nat \ {0},
             category : Maybe(Categories), hasWarnings : Maybe(BOOLEAN),
             sortBy : {"name", "updated"}, descending : BOOLEAN]
  BY AsksTyped
<1>2. /\ b.op = a.op /\ b.limit = a.limit /\ b.category = a.category
      /\ b.hasWarnings = a.hasWarnings /\ b.sortBy = a.sortBy
      /\ b.descending = a.descending
  BY <1>1 DEF SameList
<1>3. Matching(b) = Matching(a)
  BY <1>2 DEF Matching
<1>4. \A s : SortKey(s, b) = SortKey(s, a)
  BY <1>2 DEF SortKey
<1> QED BY <1>2, <1>3, <1>4 DEF Key

\* The keys of rows are numbers, different ones when the rows have no ties.
LEMMA KeysAreNumbers ==
    ASSUME TablesSound, NEW a \in Asks, a.op = "list"
    PROVE  /\ \A s \in Matching(a) : SortKey(s, a) \in Nat /\ Key(a)[s] \in Int
           /\ Distinct(a) => KeysDiffer(Matching(a), Key(a))
<1>1. a.sortBy \in {"name", "updated"} /\ a.descending \in BOOLEAN
  BY AsksTyped
<1>2. ASSUME NEW s \in Matching(a) PROVE SortKey(s, a) \in Nat
  <2>1. sites[s] \in Row
    BY DEF TablesSound, Matching
  <2>2. sites[s].name \in Names /\ sites[s].updated \in Nat
    BY <2>1 DEF Row
  <2> QED BY <2>2, ReadsAssumption DEF SortKey
<1>3. \A s \in Matching(a) :
        Key(a)[s] = IF a.descending THEN 0 - SortKey(s, a) ELSE SortKey(s, a)
  BY DEF Key
<1>4. \A s \in Matching(a) : Key(a)[s] \in Int
  BY <1>1, <1>2, <1>3
<1>5. ASSUME NEW s \in Matching(a), NEW t \in Matching(a), Key(a)[s] = Key(a)[t]
      PROVE  SortKey(s, a) = SortKey(t, a)
  BY <1>1, <1>2, <1>3, <1>5
<1> QED BY <1>2, <1>4, <1>5 DEF Distinct, KeysDiffer

\* The rows of a list whose keys differ have one order, and its page shows those
\* that are on it.
LEMMA PageOfList ==
    ASSUME IInv, NEW r \in Readers, Quiet(r, "list")
    PROVE  \E q : /\ Orders(q, Cardinality(Matching(ask[r])), Matching(ask[r]), Key(ask[r]))
                  /\ ToSet(got[r].page) =
                       {q[k] : k \in {i \in 1..Cardinality(Matching(ask[r])) :
                                        OnPage(ask[r], i)}}
<1> DEFINE a == ask[r]
           S == Matching(a)
           n == Cardinality(S)
           start == PageStart(a)
           len == PageLength(a)
           page == got[r].page
<1>1. /\ a \in Asks /\ a.op = "list" /\ n \in Nat /\ IsFiniteSet(S)
      /\ start \in Nat /\ len \in Nat
  BY ListReply
<1>2. PICK q \in SetToSeqs(S) :
        /\ \A i, j \in 1..n : i < j => ~Precedes(q[j], q[i], a)
        /\ page \in [1..len -> S]
        /\ \A i \in 1..len : start + i \in 1..n /\ page[i] = q[start + i]
  BY ListReply
<1>3. a.limit \in Nat \ {0} /\ a.descending \in BOOLEAN
  BY <1>1, AsksTyped
<1>4. len = SliceLength(n, start, a.limit)
  BY DEF PageLength
<1>5. \A s \in S : SortKey(s, a) \in Nat /\ Key(a)[s] = IF a.descending THEN 0 - SortKey(s, a)
                                                        ELSE SortKey(s, a)
  BY <1>1, KeysAreNumbers DEF IInv, Key
<1> HIDE DEF a, S, n, start, len, page
<1>6. /\ q \in [1..n -> S] /\ \A i, j \in 1..n : q[i] = q[j] => i = j
      /\ \A s \in S : \E i \in 1..n : q[i] = s
  BY <1>1, SequencesShowAll DEF n
<1>7. ASSUME NEW i \in 1..n, NEW j \in 1..n, i < j
      PROVE  Key(a)[q[i]] <= Key(a)[q[j]]
  <2>1. q[i] \in S /\ q[j] \in S /\ ~Precedes(q[j], q[i], a)
    BY <1>2, <1>6, <1>7
  <2>2. /\ SortKey(q[i], a) \in Nat /\ SortKey(q[j], a) \in Nat
        /\ Key(a)[q[i]] = IF a.descending THEN 0 - SortKey(q[i], a) ELSE SortKey(q[i], a)
        /\ Key(a)[q[j]] = IF a.descending THEN 0 - SortKey(q[j], a) ELSE SortKey(q[j], a)
    BY <1>5, <2>1
  <2> QED BY <1>3, <2>1, <2>2 DEF Precedes
<1>8. Orders(q, n, S, Key(a))
  BY <1>6, <1>7 DEF Orders
<1>9. DOMAIN page = 1..len
  BY <1>2
<1>10. ASSUME NEW k \in 1..n, start < k, k <= start + a.limit
       PROVE  k - start \in 1..len /\ start + (k - start) = k
  BY <1>1, <1>3, <1>4, <1>10 DEF SliceLength, Smaller
<1>11. ASSUME NEW i \in 1..len
       PROVE  start < start + i /\ start + i <= start + a.limit
  BY <1>1, <1>3, <1>4 DEF SliceLength, Smaller
<1>12. ToSet(page) = {q[k] : k \in {i \in 1..n : start < i /\ i <= start + a.limit}}
  <2>1. ASSUME NEW x \in ToSet(page)
        PROVE  \E k \in 1..n : start < k /\ k <= start + a.limit /\ x = q[k]
    <3>1. PICK i \in 1..len : x = page[i]
      BY <1>9, <2>1 DEF ToSet
    <3> QED BY <1>2, <1>11, <3>1
  <2>2. ASSUME NEW k \in 1..n, start < k, k <= start + a.limit
        PROVE  q[k] \in ToSet(page)
    <3>1. k - start \in 1..len /\ page[k - start] = q[k]
      BY <1>2, <1>10, <2>2
    <3> QED BY <1>9, <3>1 DEF ToSet
  <2> QED BY <2>1, <2>2
<1> QED BY <1>8, <1>12 DEF a, S, n, start, page, OnPage

\* All requests for pages of a list without ties show the rows of one order.
LEMMA TurnedPages ==
    ASSUME IInv, NEW r \in Readers, Quiet(r, "list"), Distinct(ask[r])
    PROVE  \E q : /\ Orders(q, Cardinality(Matching(ask[r])), Matching(ask[r]), Key(ask[r]))
                  /\ \A b \in Readers : Quiet(b, "list") /\ SameList(ask[r], ask[b]) =>
                       ToSet(got[b].page) =
                         {q[k] : k \in {i \in 1..Cardinality(Matching(ask[r])) :
                                          OnPage(ask[b], i)}}
<1> DEFINE a == ask[r]
           S == Matching(a)
           n == Cardinality(S)
<1>1. a \in Asks /\ a.op = "list" /\ n \in Nat
  BY ListReply
<1>2. KeysDiffer(S, Key(a))
  BY <1>1, KeysAreNumbers DEF IInv
<1>3. PICK q : Orders(q, n, S, Key(a))
  BY PageOfList
<1>4. ASSUME NEW b \in Readers, Quiet(b, "list"), SameList(a, ask[b])
      PROVE  ToSet(got[b].page) = {q[k] : k \in {i \in 1..n : OnPage(ask[b], i)}}
  <2>1. ask[b] \in Asks
    BY <1>4, ListReply
  <2>2. Matching(ask[b]) = S /\ Key(ask[b]) = Key(a)
    BY <1>1, <1>4, <2>1, SameRows
  <2>3. PICK p : /\ Orders(p, n, S, Key(a))
                 /\ ToSet(got[b].page) = {p[k] : k \in {i \in 1..n : OnPage(ask[b], i)}}
    BY <1>4, <2>2, PageOfList
  <2> HIDE DEF n, S, a
  <2>4. p = q
    BY <1>1, <1>2, <1>3, <2>3, OneOrder
  <2> QED BY <2>3, <2>4
<1> QED BY <1>3, <1>4

\* The pages of a list without ties share no row and together show all of them.
LEMMA EachRowOnce ==
    ASSUME IInv
    PROVE  PagesShowEachOnce
<1> SUFFICES ASSUME NEW r \in Readers, Quiet(r, "list"), Distinct(ask[r])
             PROVE  LET turned == {b \in Readers : Quiet(b, "list") /\ SameList(ask[r], ask[b])}
                    IN  /\ \A b \in turned : ask[b].page # ask[r].page =>
                             ToSet(got[b].page) \cap ToSet(got[r].page) = {}
                        /\ {ask[b].page : b \in turned} = 1..got[r].total.pages =>
                             UNION {ToSet(got[b].page) : b \in turned} = Matching(ask[r])
  BY DEF PagesShowEachOnce, SameList, Distinct
<1> DEFINE a == ask[r]
           S == Matching(a)
           n == Cardinality(S)
           turned == {b \in Readers : Quiet(b, "list") /\ SameList(a, ask[b])}
           Rows(b) == ToSet(got[b].page)
<1>1. /\ a \in Asks /\ a.op = "list" /\ n \in Nat
      /\ got[r].total.pages = TotalPages(n, a.limit)
  BY ListReply
<1>2. PICK q : /\ Orders(q, n, S, Key(a))
               /\ \A b \in Readers : Quiet(b, "list") /\ SameList(a, ask[b]) =>
                    ToSet(got[b].page) = {q[k] : k \in {i \in 1..n : OnPage(ask[b], i)}}
  BY TurnedPages
<1>3. \A b \in turned : /\ b \in Readers
                        /\ Rows(b) = {q[k] : k \in {i \in 1..n : OnPage(ask[b], i)}}
  BY <1>2
<1>4. r \in turned
  <2>1. a \in [op : {"list"}, page : Nat \ {0}, limit : Nat \ {0},
               category : Maybe(Categories), hasWarnings : Maybe(BOOLEAN),
               sortBy : {"name", "updated"}, descending : BOOLEAN]
    BY <1>1, AsksTyped
  <2>2. a = [a EXCEPT !.page = a.page]
    BY <2>1
  <2> QED BY <2>2 DEF SameList
<1>5. \A b \in turned : ask[b].page \in Nat \ {0} /\ ask[b].limit = a.limit
  <2> SUFFICES ASSUME NEW b \in turned
               PROVE  ask[b].page \in Nat \ {0} /\ ask[b].limit = a.limit
    OBVIOUS
  <2>1. ask[b] \in Asks /\ SameList(a, ask[b])
    BY ListReply
  <2>2. ask[b].op = "list" /\ ask[b].limit = a.limit
    BY <1>1, <2>1, SameRows
  <2> QED BY <2>1, <2>2, AsksTyped
<1>6. a.limit \in Nat \ {0}
  BY <1>1, AsksTyped
<1>7. \A i, j \in 1..n : q[i] = q[j] => i = j
  BY <1>2 DEF Orders
<1>8. \A x \in S : \E i \in 1..n : q[i] = x
  BY <1>2 DEF Orders
<1>9. \A i \in 1..n : q[i] \in S
  BY <1>2 DEF Orders
<1> HIDE DEF S, n, turned, Rows, a
<1>10. ASSUME NEW b \in turned, ask[b].page # a.page,
              NEW i \in 1..n, OnPage(a, i), OnPage(ask[b], i)
       PROVE  FALSE
  <2> DEFINE f == (a.page - 1) * a.limit
             g == (ask[b].page - 1) * a.limit
  <2>1. a.page \in Nat \ {0} /\ ask[b].page \in Nat \ {0}
    BY <1>4, <1>5 DEF a
  <2>2. f < i /\ i <= f + a.limit /\ g < i /\ i <= g + a.limit
    BY <1>5, <1>10 DEF OnPage, PageStart
  <2>3. f \in Int /\ g \in Int /\ a.limit \in Nat
    BY <1>6, <2>1
  <2>4. CASE a.page < ask[b].page
    <3>1. f + a.limit <= g
      BY <1>6, <2>1, <2>4, PagesAreApart
    <3> HIDE DEF f, g
    <3> QED BY <2>2, <2>3, <3>1
  <2>5. CASE ask[b].page < a.page
    <3>1. g + a.limit <= f
      BY <1>6, <2>1, <2>5, PagesAreApart
    <3> HIDE DEF f, g
    <3> QED BY <2>2, <2>3, <3>1
  <2> QED BY <1>10, <2>1, <2>4, <2>5
<1>11. ASSUME NEW b \in turned, ask[b].page # a.page
       PROVE  Rows(b) \cap Rows(r) = {}
  <2> SUFFICES ASSUME NEW x \in Rows(b), x \in Rows(r)
               PROVE  FALSE
    OBVIOUS
  <2>1. PICK i \in 1..n : OnPage(ask[b], i) /\ x = q[i]
    BY <1>3
  <2>2. PICK j \in 1..n : OnPage(a, j) /\ x = q[j]
    BY <1>3, <1>4 DEF a
  <2>3. i = j
    BY <1>7, <2>1, <2>2
  <2> QED BY <1>10, <1>11, <2>1, <2>2, <2>3
<1>12. ASSUME {ask[b].page : b \in turned} = 1..got[r].total.pages
       PROVE  UNION {Rows(b) : b \in turned} = S
  <2>1. ASSUME NEW b \in turned PROVE Rows(b) \subseteq S
    BY <1>3, <1>9
  <2>2. ASSUME NEW x \in S
        PROVE  \E b \in turned : x \in Rows(b)
    <3>1. PICK i \in 1..n : q[i] = x
      BY <1>8
    <3>2. PICK p \in 1..TotalPages(n, a.limit) :
            (p - 1) * a.limit < i /\ i <= (p - 1) * a.limit + a.limit
      BY <1>1, <1>6, PagesCover
    <3>3. PICK b \in turned : ask[b].page = p
      BY <1>1, <1>12, <3>2
    <3>4. OnPage(ask[b], i)
      BY <1>5, <3>2, <3>3 DEF OnPage, PageStart
    <3> QED BY <1>3, <3>1, <3>3, <3>4
  <2> QED BY <2>1, <2>2
<1> QED BY <1>11, <1>12 DEF a, S, turned, Rows

\* Turning the pages shows each row once.
THEOREM PagesShowAll == Spec => []PagesShowEachOnce
<1>1. IInv => PagesShowEachOnce
  BY EachRowOnce
<1> QED BY <1>1, Invariance, PTL

\* f shows each element of T at one of k positions.
OneToOne(f, k, T) ==
    /\ f \in [1..k -> T]
    /\ \A i, j \in 1..k : f[i] = f[j] => i = j
    /\ \A x \in T : \E i \in 1..k : f[i] = x

\* A set has as many elements as there are positions for them.
LEMMA SameSize ==
    ASSUME NEW k \in Nat, NEW T, NEW f, OneToOne(f, k, T)
    PROVE  IsFiniteSet(T) /\ Cardinality(T) = k
<1>1. IsFiniteSet(1..k) /\ Cardinality(1..k) = k
  BY FS_Interval
<1>2. f \in Surjection(1..k, T) /\ f \in Injection(1..k, T)
  BY DEF OneToOne, Surjection, Injection, IsInjective
<1> QED BY <1>1, <1>2, FS_Surjection

\* The rows of the join: finitely many, of the sites asked for, and all of those.
LEMMA JoinedRows ==
    ASSUME TablesSound, NEW S \in SUBSET DOMAIN sites
    PROVE  /\ IsFiniteSet(Joined(S))
           /\ \A j \in Joined(S) : j.site \in S
           /\ \A s \in S : \E j \in Joined(S) : j.site = s
           /\ (\A s \in S : Cardinality(Covering(sites[s].place)) <= 1) =>
                \A i, j \in Joined(S) : i.site = j.site => i = j
<1> DEFINE Govs(s) == IF Covering(sites[s].place) = {} THEN {NULL}
                      ELSE Covering(sites[s].place)
           All == Sites \X (Governorates \cup {NULL})
           row == [p \in All |-> [site |-> p[1], gov |-> p[2]]]
           Rows == {row[p] : p \in All}
<1>1. \A j : j \in Joined(S) <=>
               \E s \in S : \E g \in Govs(s) : j = [site |-> s, gov |-> g]
  BY DEF Joined
<1>2. \A s \in S : Govs(s) # {} /\ Govs(s) \subseteq Governorates \cup {NULL}
  BY DEF Covering, TablesSound
<1>3. IsFiniteSet(Joined(S))
  <2>1. IsFiniteSet(Governorates \cup {NULL})
    BY ReadsAssumption, FS_AddElement
  <2>2. IsFiniteSet(All)
    <3> DEFINE G == Governorates \cup {NULL}
    <3>1. IsFiniteSet(Sites) /\ IsFiniteSet(G)
      BY <2>1, ReadsAssumption
    <3> HIDE DEF G
    <3>2. IsFiniteSet(Sites \X G)
      BY <3>1, FS_Product
    <3> QED BY <3>2 DEF G
  <2>3. \A s \in Sites, g \in Governorates \cup {NULL} : [site |-> s, gov |-> g] \in Rows
    <3> SUFFICES ASSUME NEW s \in Sites, NEW g \in Governorates \cup {NULL}
                 PROVE  [site |-> s, gov |-> g] \in Rows
      OBVIOUS
    <3>1. <<s, g>> \in All /\ row[<<s, g>>] = [site |-> s, gov |-> g]
      OBVIOUS
    <3> QED BY <3>1
  <2>4. IsFiniteSet(Rows)
    <3>1. row \in Surjection(All, Rows)
      BY DEF Surjection
    <3> HIDE DEF row, All, Rows
    <3> QED BY <2>2, <3>1, FS_Surjection
  <2>5. Joined(S) \subseteq Rows
    <3>1. S \subseteq Sites
      BY DEF TablesSound
    <3> HIDE DEF Rows, Govs
    <3> QED BY <1>1, <1>2, <2>3, <3>1
  <2> HIDE DEF Rows
  <2> QED BY <2>4, <2>5, FS_Subset
<1>4. ASSUME NEW s \in S, Cardinality(Covering(sites[s].place)) <= 1,
             NEW g \in Govs(s), NEW h \in Govs(s)
      PROVE  g = h
  <2> DEFINE C == Covering(sites[s].place)
  <2>1. CASE C = {}
    BY <2>1
  <2>2. CASE C # {}
    <3>1. g \in C /\ h \in C
      BY <1>4, <2>2
    <3>2. IsFiniteSet(C)
      <4>1. C \subseteq Governorates
        BY DEF Covering, TablesSound
      <4> HIDE DEF C
      <4> QED BY <4>1, ReadsAssumption, FS_Subset
    <3>3. Cardinality(C) <= 1
      BY <1>4
    <3> HIDE DEF C
    <3>4. IsFiniteSet(C \ {g}) /\ Cardinality(C \ {g}) <= 0 /\ Cardinality(C \ {g}) \in Nat
      BY <3>1, <3>2, <3>3, OneLess
    <3>5. C \ {g} = {}
      BY <3>4, FS_EmptySet
    <3> QED BY <3>1, <3>5
  <2> QED BY <2>1, <2>2
<1>5. \A j \in Joined(S) : j.site \in S
  <2> HIDE DEF Govs
  <2> QED BY <1>1
<1>6. ASSUME NEW s \in S PROVE \E j \in Joined(S) : j.site = s
  <2>1. PICK g \in Govs(s) : TRUE
    BY <1>2
  <2>2. [site |-> s, gov |-> g] \in Joined(S)
    BY <1>1, <2>1
  <2> QED BY <2>2
<1>7. ASSUME \A s \in S : Cardinality(Covering(sites[s].place)) <= 1,
             NEW i \in Joined(S), NEW j \in Joined(S), i.site = j.site
      PROVE  i = j
  <2> HIDE DEF Govs
  <2>1. PICK s \in S : \E g \in Govs(s) : i = [site |-> s, gov |-> g]
    BY <1>1
  <2>2. PICK t \in S : \E h \in Govs(t) : j = [site |-> t, gov |-> h]
    BY <1>1
  <2>3. PICK g \in Govs(s) : i = [site |-> s, gov |-> g]
    BY <2>1
  <2>4. PICK h \in Govs(t) : j = [site |-> t, gov |-> h]
    BY <2>2
  <2>5. s = t
    BY <1>7, <2>3, <2>4
  <2> QED BY <1>4, <1>7, <2>3, <2>4, <2>5
<1> QED BY <1>3, <1>5, <1>6, <1>7

\* How far a site is from the coordinate.
DistanceOf(s) == Distance[sites[s].place]

\* The rows of the join that a reply to nearby is made from: the first of them in
\* the order of their distance, as many as the limit says.
LEMMA NearbyReply ==
    ASSUME IInv, NEW r \in Readers, Quiet(r, "nearby")
    PROVE  \E n \in Nat : \E m \in 0..n : \E q : \E rows :
             /\ OneToOne(q, n, Joined(Within(ask[r])))
             /\ \A i, j \in 1..n : i < j => DistanceOf(q[i].site) <= DistanceOf(q[j].site)
             /\ m = n \/ m = ask[r].limit
             /\ rows \in [1..m -> Joined(Within(ask[r]))]
             /\ \A i \in 1..m : rows[i] = q[i]
             /\ ShowsFirsts(got[r].nearby, rows, m)
<1> DEFINE a == ask[r]
           J == Joined(Within(a))
           n == Cardinality(J)
           limit == a.limit
<1>1. "nearby" \in ToSet(Statements("nearby"))
  BY DEF ToSet, Statements
<1>2. a \in Asks /\ a.op = "nearby" /\ Answers(r, "nearby")
  BY <1>1, QuietReply
<1>3. limit \in Maybe(Nat \ {0})
  BY <1>2, AsksTyped
<1>4. Within(a) \in SUBSET DOMAIN sites
  BY DEF Within
<1>5. IsFiniteSet(J) /\ \A j \in J : j.site \in Within(a)
  BY <1>4, JoinedRows DEF IInv
<1>6. got[r].nearby \in Nearby(a)
  BY <1>2 DEF Answers
<1>7. PICK q \in SetToSeqs(J) :
        /\ \A i, j \in DOMAIN q : i < j => ~(DistanceOf(q[j].site) < DistanceOf(q[i].site))
        /\ got[r].nearby = FirstPerSite(AtMost(q, limit))
  BY <1>6 DEF Nearby, OrderedBy, DistanceOf
<1>8. \A j \in J : DistanceOf(j.site) \in Nat
  <2>1. \A s \in DOMAIN sites : sites[s] \in Row
    BY DEF IInv, TablesSound
  <2>2. \A s \in DOMAIN sites : sites[s].place \in Places
    BY <2>1 DEF Row
  <2> HIDE DEF J
  <2> QED BY <1>4, <1>5, <2>2, ReadsAssumption DEF DistanceOf
<1> HIDE DEF J, n, limit
<1>9. n \in Nat /\ OneToOne(q, n, J)
  BY <1>5, SequencesShowAll DEF n, OneToOne
<1> DEFINE rows == AtMost(q, limit)
<1>10. PICK m \in 0..n : /\ m = n \/ m = limit
                         /\ Lists(rows, m, J)
                         /\ \A i \in 1..m : rows[i] = q[i]
  <2>1. Lists(q, n, J) /\ n \in Nat
    BY <1>9 DEF Lists, OneToOne
  <2> QED BY <1>3, <2>1, AtMostIsFirst
<1>11. \A i, j \in 1..n : i < j => DistanceOf(q[i].site) <= DistanceOf(q[j].site)
  <2> SUFFICES ASSUME NEW i \in 1..n, NEW j \in 1..n, i < j
               PROVE  DistanceOf(q[i].site) <= DistanceOf(q[j].site)
    OBVIOUS
  <2>1. q[i] \in J /\ q[j] \in J /\ DOMAIN q = 1..n
    BY <1>9 DEF OneToOne
  <2> QED BY <1>7, <1>8, <2>1
<1> HIDE DEF rows
<1>12. rows \in [1..m -> J]
  BY <1>10 DEF Lists
<1>13. ShowsFirsts(FirstPerSite(rows), rows, m)
  <2>1. m \in Nat
    BY <1>9, <1>10
  <2> QED BY <1>12, <2>1, LoopShowsFirsts
<1>14. ShowsFirsts(got[r].nearby, rows, m)
  BY <1>7, <1>13 DEF rows
<1>15. /\ OneToOne(q, n, J) /\ (m = n \/ m = limit)
       /\ rows \in [1..m -> J] /\ \A i \in 1..m : rows[i] = q[i]
  BY <1>9, <1>10, <1>12
<1> QED BY <1>9, <1>10, <1>11, <1>14, <1>15 DEF J, limit

\* A reply to nearby shows the nearest sites, each once.
LEMMA NearestFirst ==
    ASSUME IInv
    PROVE  NearestComeFirst
<1> SUFFICES ASSUME NEW r \in Readers, Quiet(r, "nearby")
             PROVE  LET shown == got[r].nearby
                        here == {shown[i].site : i \in DOMAIN shown}
                        reach == Within(ask[r])
                    IN  /\ Cardinality(here) = Len(shown)
                        /\ \A i, j \in DOMAIN shown :
                             i < j => DistanceOf(shown[i].site) <= DistanceOf(shown[j].site)
                        /\ \A s \in reach \ here, t \in here : DistanceOf(t) <= DistanceOf(s)
                        /\ (\A s \in reach : Cardinality(Covering(sites[s].place)) <= 1) =>
                             \/ here = reach
                             \/ Len(shown) = ask[r].limit
  BY DEF NearestComeFirst, DistanceOf
<1> DEFINE shown == got[r].nearby
           here == {shown[i].site : i \in DOMAIN shown}
           reach == Within(ask[r])
           J == Joined(reach)
           limit == ask[r].limit
           OneRowEach == \A s \in reach : Cardinality(Covering(sites[s].place)) <= 1
<1>1. PICK n \in Nat : \E m \in 0..n : \E q : \E rows :
        /\ OneToOne(q, n, J)
        /\ \A i, j \in 1..n : i < j => DistanceOf(q[i].site) <= DistanceOf(q[j].site)
        /\ m = n \/ m = limit
        /\ rows \in [1..m -> J]
        /\ \A i \in 1..m : rows[i] = q[i]
        /\ ShowsFirsts(shown, rows, m)
  BY NearbyReply
<1>2. PICK m \in 0..n : \E q : \E rows :
        /\ OneToOne(q, n, J)
        /\ \A i, j \in 1..n : i < j => DistanceOf(q[i].site) <= DistanceOf(q[j].site)
        /\ m = n \/ m = limit
        /\ rows \in [1..m -> J]
        /\ \A i \in 1..m : rows[i] = q[i]
        /\ ShowsFirsts(shown, rows, m)
  BY <1>1
<1>3. PICK q, rows :
        /\ OneToOne(q, n, J)
        /\ \A i, j \in 1..n : i < j => DistanceOf(q[i].site) <= DistanceOf(q[j].site)
        /\ m = n \/ m = limit
        /\ rows \in [1..m -> J]
        /\ \A i \in 1..m : rows[i] = q[i]
        /\ ShowsFirsts(shown, rows, m)
  BY <1>2
<1>4. /\ \A j \in J : j.site \in reach
      /\ \A s \in reach : \E j \in J : j.site = s
      /\ OneRowEach => \A i, j \in J : i.site = j.site => i = j
  <2>1. TablesSound /\ reach \in SUBSET DOMAIN sites
    BY DEF IInv, Within
  <2> HIDE DEF reach
  <2> QED BY <2>1, JoinedRows
<1> HIDE DEF shown, reach, J, limit, OneRowEach
<1>5. PICK k \in Nat : \E idx \in [1..k -> 1..m] :
        /\ shown = [i \in 1..k |-> rows[idx[i]]]
        /\ \A i, j \in 1..k : i < j => idx[i] < idx[j]
        /\ \A i, j \in 1..k : rows[idx[i]].site = rows[idx[j]].site => i = j
        /\ \A h \in 1..m : \E i \in 1..k : rows[idx[i]].site = rows[h].site
  BY <1>3 DEF ShowsFirsts
<1>6. PICK idx \in [1..k -> 1..m] :
        /\ shown = [i \in 1..k |-> rows[idx[i]]]
        /\ \A i, j \in 1..k : i < j => idx[i] < idx[j]
        /\ \A i, j \in 1..k : rows[idx[i]].site = rows[idx[j]].site => i = j
        /\ \A h \in 1..m : \E i \in 1..k : rows[idx[i]].site = rows[h].site
  BY <1>5
<1>7. /\ DOMAIN shown = 1..k /\ 1..m \subseteq 1..n
      /\ \A i \in 1..k : idx[i] \in 1..m /\ shown[i] = q[idx[i]] /\ shown[i] = rows[idx[i]]
  BY <1>3, <1>6
<1>8. Len(shown) = k
  <2>1. shown \in [1..k -> J]
    BY <1>3, <1>6
  <2> QED BY <2>1, LenProperties, SeqDef
<1>9. Cardinality(here) = Len(shown)
  <2> DEFINE f == [i \in 1..k |-> shown[i].site]
  <2>1. OneToOne(f, k, here)
    <3>1. \A i, j \in 1..k : f[i] = f[j] => i = j
      BY <1>6, <1>7
    <3>2. f \in [1..k -> here] /\ \A x \in here : \E i \in 1..k : f[i] = x
      BY <1>7
    <3> HIDE DEF f, here
    <3> QED BY <3>1, <3>2 DEF OneToOne
  <2> HIDE DEF f, here
  <2> QED BY <1>8, <2>1, SameSize
<1>10. ASSUME NEW i \in DOMAIN shown, NEW j \in DOMAIN shown, i < j
       PROVE  DistanceOf(shown[i].site) <= DistanceOf(shown[j].site)
  BY <1>3, <1>6, <1>7, <1>10
\* A site in reach that is not shown has only rows after the limit.
<1>11. ASSUME NEW s \in reach \ here
       PROVE  \E j \in 1..n : j > m /\ q[j].site = s
  <2>1. PICK j \in 1..n : q[j].site = s
    BY <1>3, <1>4 DEF OneToOne
  <2>2. ~(j \in 1..m)
    <3>1. SUFFICES ASSUME j \in 1..m PROVE FALSE
      OBVIOUS
    <3>2. PICK i \in 1..k : rows[idx[i]].site = rows[j].site
      BY <1>6, <3>1
    <3>3. shown[i].site = s
      BY <1>3, <1>7, <2>1, <3>1, <3>2
    <3> QED BY <1>7, <1>11, <3>3
  <2> QED BY <2>1, <2>2
<1>12. ASSUME NEW s \in reach \ here, NEW t \in here
       PROVE  DistanceOf(t) <= DistanceOf(s)
  <2>1. PICK j \in 1..n : j > m /\ q[j].site = s
    BY <1>11
  <2>2. PICK i \in 1..k : shown[i].site = t
    BY <1>7
  <2>3. idx[i] \in 1..n /\ idx[i] < j /\ q[idx[i]].site = t
    BY <1>7, <2>1, <2>2
  <2> QED BY <1>3, <2>1, <2>3
<1>13. ASSUME OneRowEach, here # reach
       PROVE  Len(shown) = limit
  <2>1. here \subseteq reach
    BY <1>3, <1>4, <1>7 DEF OneToOne
  <2>2. PICK s \in reach \ here : TRUE
    BY <1>13, <2>1
  <2>3. m = limit
    BY <1>3, <1>11, <2>2
  <2>4. OneToOne(idx, k, 1..m)
    <3>1. \A i, j \in 1..k : idx[i] = idx[j] => i = j
      BY <1>6
    <3>2. ASSUME NEW h \in 1..m PROVE \E i \in 1..k : idx[i] = h
      <4>1. PICK i \in 1..k : rows[idx[i]].site = rows[h].site
        BY <1>6
      <4>2. q[idx[i]] = q[h]
        BY <1>3, <1>4, <1>7, <1>13, <4>1
      <4> QED BY <1>3, <1>7, <4>2 DEF OneToOne
    <3> QED BY <1>6, <3>1, <3>2 DEF OneToOne
  <2>5. Cardinality(1..m) = k
    BY <2>4, SameSize
  <2>6. Cardinality(1..m) = m
    BY FS_Interval
  <2> QED BY <1>8, <2>3, <2>5, <2>6
<1> QED BY <1>9, <1>10, <1>12, <1>13 DEF shown, reach, limit, OneRowEach

\* The nearest sites come first, each once.
THEOREM NearestSitesComeFirst == Spec => []NearestComeFirst
<1>1. IInv => NearestComeFirst
  BY NearestFirst
<1> QED BY <1>1, Invariance, PTL
===============================================================================
