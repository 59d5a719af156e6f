--------------------------- MODULE FunctionsProofs ---------------------------
(****************************************************************************)
(* The functions of MCFunctions, for every input: what each computes is     *)
(* what is promised of it.  A function is a fold over a sequence, so each   *)
(* proof has an invariant of the fold, over the elements it has taken.      *)
(****************************************************************************)
EXTENDS MCFunctions, FiniteSetTheorems, WellFoundedInduction, NaturalsInduction, TLAPS

-----------------------------------------------------------------------------
(* Induction, over the least number that fails, and what FoldLeft computes *)

LEMMA Least ==
  ASSUME NEW L, L \subseteq Nat, L # {}
  PROVE  \E n \in L : \A m \in L : ~(m < n)
<1>1. PICK n \in L : \A m \in L : ~ (<<m, n>> \in OpToRel(<, Nat))
  BY NatLessThanWellFounded, WFMin
<1> QED BY <1>1 DEF OpToRel

\* A set of numbers with zero and every successor has all.
LEMMA NatsByInduction ==
  ASSUME NEW G, 0 \in G, \A n \in Nat : n \in G => n + 1 \in G
  PROVE  Nat \subseteq G
<1> SUFFICES ASSUME NEW k \in Nat, k \notin G PROVE FALSE
  OBVIOUS
<1> DEFINE L == {n \in Nat : n \notin G}
<1>1. PICK n \in L : \A m \in L : ~(m < n)
  <2>1. L \subseteq Nat /\ L # {}
    OBVIOUS
  <2> HIDE DEF L
  <2> QED BY <2>1, Least
<1>2. n # 0 /\ n - 1 \in Nat
  OBVIOUS
<1>3. n - 1 \in G
  BY <1>1, <1>2
<1>4. (n - 1) + 1 \in G
  BY <1>2, <1>3
<1> QED BY <1>4

\* The same up to a number.
LEMMA UpToByInduction ==
  ASSUME NEW n \in Nat, NEW G, 0 \in G, \A i \in 0 .. n - 1 : i \in G => i + 1 \in G
  PROVE  0 .. n \subseteq G
<1> DEFINE H == {i \in Nat : i <= n => i \in G}
<1>1. 0 \in H
  OBVIOUS
<1>2. ASSUME NEW i \in Nat, i \in H PROVE i + 1 \in H
  BY <1>2
<1>3. Nat \subseteq H
  <2> HIDE DEF H
  <2> QED BY <1>1, <1>2, NatsByInduction
<1> QED BY <1>3

LEMMA MaxIs ==
  ASSUME NEW n \in Nat, NEW S \in SUBSET (0 .. n), S # {}
  PROVE  Max(S) \in S /\ \A y \in S : y <= Max(S)
<1> DEFINE L == {m \in Nat : \E x \in S : m = n - x}
<1>1. PICK m \in L : \A k \in L : ~(k < m)
  <2>1. PICK x \in S : TRUE
    OBVIOUS
  <2>2. n - x \in L
    OBVIOUS
  <2>3. L \subseteq Nat /\ L # {}
    BY <2>2
  <2> HIDE DEF L
  <2> QED BY <2>3, Least
<1>2. PICK x \in S : m = n - x
  OBVIOUS
<1>3. ASSUME NEW y \in S PROVE x >= y
  <2>1. n - y \in L
    OBVIOUS
  <2> QED BY <1>1, <1>2, <2>1
<1>4. \E z \in S : \A y \in S : z >= y
  BY <1>3
<1>5. Max(S) \in S /\ \A y \in S : Max(S) >= y
  BY <1>4, Zenon DEF Max
<1> QED BY <1>5

LEMMA MinIs ==
  ASSUME NEW S \in SUBSET Nat, S # {}
  PROVE  Min(S) \in S /\ \A y \in S : Min(S) <= y
<1>1. PICK x \in S : \A y \in S : ~(y < x)
  BY Least
<1>2. \E z \in S : \A y \in S : z =< y
  BY <1>1
<1>3. Min(S) \in S /\ \A y \in S : Min(S) =< y
  BY <1>2, Zenon DEF Min
<1> QED BY <1>3

LEMMA MaxOfPrefix ==
  ASSUME NEW i \in Nat, NEW S \in SUBSET (1 .. i + 1), i + 1 \in S
  PROVE  Max(S) = i + 1 /\ S \ {Max(S)} \in SUBSET (1 .. i)
<1>1. S \in SUBSET (0 .. i + 1) /\ S # {} /\ i + 1 \in Nat
  OBVIOUS
<1>2. Max(S) \in S /\ \A y \in S : y <= Max(S)
  BY <1>1, MaxIs
<1> DEFINE x == Max(S)
<1>3. x \in 1 .. i + 1 /\ i + 1 <= x
  BY <1>2
<1> HIDE DEF x
<1>4. x = i + 1
  BY <1>3
<1> QED BY <1>4 DEF x

LEMMA PrefixIs ==
  ASSUME NEW n \in Nat, NEW i \in 1 .. n
  PROVE  1 .. i \in SUBSET (1 .. n) /\ 1 .. i # {} /\ Max(1 .. i) = i /\ (1 .. i) \ {i} = 1 .. i - 1
<1> DEFINE S == 1 .. i
<1>1. i - 1 \in Nat /\ S \in SUBSET (1 .. (i - 1) + 1) /\ (i - 1) + 1 \in S /\ (i - 1) + 1 = i
  OBVIOUS
<1>2. Max(S) = i
  <2> HIDE DEF S
  <2> QED BY <1>1, MaxOfPrefix
<1>3. S \in SUBSET (1 .. n) /\ S # {} /\ S \ {i} = 1 .. i - 1
  OBVIOUS
<1> QED BY <1>2, <1>3

\* The recursion of FoldLeft over n elements has a solution, for any step.
Folding(g, n, base, step) ==
  \A S \in SUBSET (1 .. n) : g[S] = IF S = {} THEN base ELSE step[Max(S)][g[S \ {Max(S)}]]

Foldable(n, V, base, step) == \E g \in [SUBSET (1 .. n) -> V] : Folding(g, n, base, step)

LEMMA FoldExists ==
  ASSUME NEW n \in Nat, NEW V, NEW base \in V, NEW step \in [1 .. n -> [V -> V]]
  PROVE  Foldable(n, V, base, step)
<1> DEFINE G == {m \in Nat : m <= n => Foldable(m, V, base, step)}
<1>1. 0 \in G
  <2> DEFINE g == [S \in SUBSET (1 .. 0) |-> base]
  <2>1. \A S \in SUBSET (1 .. 0) : S = {}
    OBVIOUS
  <2>2. g \in [SUBSET (1 .. 0) -> V] /\ Folding(g, 0, base, step)
    BY <2>1 DEF Folding
  <2> HIDE DEF g
  <2> QED BY <2>2 DEF Foldable
<1>2. ASSUME NEW m \in Nat, m \in G, m + 1 <= n PROVE m + 1 \in G
  <2>0. Foldable(m, V, base, step)
    BY <1>2
  <2>1. PICK g \in [SUBSET (1 .. m) -> V] : Folding(g, m, base, step)
    BY <2>0, Zenon DEF Foldable
  <2> DEFINE D == SUBSET (1 .. m + 1)
             h == [S \in D |-> IF m + 1 \in S THEN step[m + 1][g[S \ {m + 1}]] ELSE g[S]]
  <2>2. h \in [D -> V]
    <3>1. ASSUME NEW S \in D, m + 1 \in S PROVE step[m + 1][g[S \ {m + 1}]] \in V
      <4>1. S \ {m + 1} \in SUBSET (1 .. m) /\ m + 1 \in 1 .. n
        BY <1>2
      <4>2. g[S \ {m + 1}] \in V
        BY <4>1
      <4> QED BY <4>1, <4>2
    <3>2. ASSUME NEW S \in D, m + 1 \notin S PROVE g[S] \in V
      <4>1. S \in SUBSET (1 .. m)
        BY <3>2
      <4> QED BY <4>1
    <3> QED BY <3>1, <3>2
  <2>3. ASSUME NEW S \in D
        PROVE  h[S] = IF S = {} THEN base ELSE step[Max(S)][h[S \ {Max(S)}]]
    <3>1. CASE m + 1 \in S
      <4>1. Max(S) = m + 1 /\ S \ {m + 1} \in SUBSET (1 .. m) /\ S \ {m + 1} \in D
        BY <3>1, MaxOfPrefix
      <4>2. h[S \ {m + 1}] = g[S \ {m + 1}]
        BY <4>1
      <4> QED BY <3>1, <4>1, <4>2
    <3>2. CASE m + 1 \notin S
      <4>1. S \in SUBSET (1 .. m) /\ h[S] = g[S]
        BY <3>2
      <4>2. CASE S = {}
        BY <2>1, <4>1, <4>2 DEF Folding
      <4>3. CASE S # {}
        <5>1. S \ {Max(S)} \in D /\ m + 1 \notin S \ {Max(S)}
          BY <3>2
        <5>2. h[S \ {Max(S)}] = g[S \ {Max(S)}]
          BY <5>1
        <5>3. g[S] = step[Max(S)][g[S \ {Max(S)}]]
          BY <2>1, <4>1, <4>3 DEF Folding
        <5> QED BY <4>1, <4>3, <5>2, <5>3
      <4> QED BY <4>2, <4>3
    <3> QED BY <3>1, <3>2
  <2> HIDE DEF h
  <2>4. Folding(h, m + 1, base, step)
    BY <2>3 DEF Folding
  <2>5. Foldable(m + 1, V, base, step)
    BY <2>2, <2>4, Zenon DEF Foldable
  <2> QED BY <2>5
<1>3. Nat \subseteq G
  <2>1. \A m \in Nat : m \in G => m + 1 \in G
    BY <1>2
  <2> HIDE DEF G
  <2> QED BY <1>1, <2>1, NatsByInduction
<1> QED BY <1>3
-----------------------------------------------------------------------------
(* Sequences *)

\* r is s and t, one behind the other.
Joins(A, s, t, r) ==
  /\ r \in Seq(A) /\ Len(r) = Len(s) + Len(t)
  /\ \A j \in 1 .. Len(s) : r[j] = s[j]
  /\ \A j \in Len(s) + 1 .. Len(r) : r[j] = t[j - Len(s)]

LEMMA ConcatIs ==
  ASSUME NEW A, NEW s \in Seq(A), NEW t \in Seq(A)
  PROVE  Joins(A, s, t, s \o t)
<1> DEFINE r == s \o t
<1>1. /\ r \in Seq(A) /\ Len(r) = Len(s) + Len(t)
      /\ \A j \in 1 .. Len(s) : r[j] = s[j]
      /\ \A j \in Len(s) + 1 .. Len(r) : r[j] = t[j - Len(s)]
  OBVIOUS
<1> HIDE DEF r
<1>2. Joins(A, s, t, r)
  BY <1>1 DEF Joins
<1> QED BY <1>2 DEF r

\* r is m with e put in at i.
PutIn(A, m, i, e, r) ==
  /\ r \in Seq(A) /\ Len(r) = Len(m) + 1 /\ r[i] = e
  /\ \A j \in 1 .. i - 1 : r[j] = m[j]
  /\ \A j \in i + 1 .. Len(m) + 1 : r[j] = m[j - 1]

LEMMA InsertAtIs ==
  ASSUME NEW A, NEW m \in Seq(A), NEW i \in 1 .. Len(m) + 1, NEW e \in A, NEW r, r = InsertAt(m, i, e)
  PROVE  PutIn(A, m, i, e, r)
<1> DEFINE n == Len(m)
           s == SubSeq(m, 1, i - 1)
           t == SubSeq(m, i, n)
<1>0. n \in Nat /\ i \in 1 .. n + 1
  OBVIOUS
<1>1. s \in Seq(A) /\ Len(s) = i - 1 /\ \A j \in 1 .. i - 1 : s[j] = m[j]
  OBVIOUS
<1>2. t \in Seq(A) /\ Len(t) = n - i + 1 /\ \A j \in 1 .. n - i + 1 : t[j] = m[i + j - 1]
  OBVIOUS
<1>3. r = s \o <<e>> \o t
  BY DEF InsertAt
<1> HIDE DEF s, t, n
<1> DEFINE u == s \o <<e>>
<1>4. u \in Seq(A) /\ Len(u) = i /\ u[i] = e /\ \A j \in 1 .. i - 1 : u[j] = m[j]
  BY <1>0, <1>1
<1>5. r = u \o t
  BY <1>3
<1> HIDE DEF u
<1>6. /\ r \in Seq(A) /\ Len(r) = i + (n - i + 1)
      /\ (\A j \in 1 .. i : r[j] = u[j]) /\ \A k \in i + 1 .. Len(r) : r[k] = t[k - i]
  <2>1. /\ r \in Seq(A) /\ Len(r) = Len(u) + Len(t)
        /\ (\A j \in 1 .. Len(u) : r[j] = u[j]) /\ \A j \in Len(u) + 1 .. Len(r) : r[j] = t[j - Len(u)]
    <3>1. u \in Seq(A) /\ t \in Seq(A)
      BY <1>2, <1>4
    <3>2. Joins(A, u, t, r)
      BY <1>5, <3>1, ConcatIs
    <3> QED BY <3>2 DEF Joins
  <2> QED BY <1>2, <1>4, <2>1
<1>7. ASSUME NEW j \in i + 1 .. n + 1 PROVE r[j] = m[j - 1]
  <2>1. r[j] = t[j - i] /\ j - i \in 1 .. n - i + 1
    BY <1>0, <1>6
  <2>2. i + (j - i) - 1 = j - 1
    BY <1>0
  <2> QED BY <1>2, <2>1, <2>2
<1> QED BY <1>0, <1>4, <1>6, <1>7 DEF n, PutIn

-----------------------------------------------------------------------------
(* Asinfo: the entries, sorted *)

Entry == Entries(Nat, STRING)
Sorted(map) == \A k, l \in 1 .. Len(map) : k < l => map[k].start <= map[l].start

LEMMA EntryIs ==
  ASSUME NEW e \in Entry
  PROVE  e.start \in Nat /\ e.end \in Nat /\ e.name \in STRING /\ e.kids \in BOOLEAN /\ entry_size(e) \in Nat
BY DEF Entry, Entries, entry_size

LEMMA UpToSize ==
  ASSUME NEW n \in Nat
  PROVE  IsFiniteSet(1 .. n) /\ Cardinality(1 .. n) = n
BY FS_Interval

\* The upper bound is a place in the entries or behind them, and in sorted
\* ones what is before it starts no later, and what is behind it later.
LEMMA UpperBoundIs ==
  ASSUME NEW m \in Seq(Entry), NEW e \in Entry
  PROVE  /\ UpperBound(m, e) \in 1 .. Len(m) + 1
         /\ Sorted(m) => /\ \A k \in 1 .. UpperBound(m, e) - 1 : m[k].start <= e.start
                         /\ \A k \in UpperBound(m, e) .. Len(m) : e.start < m[k].start
<1> DEFINE n == Len(m)
           B == {k \in DOMAIN m : m[k].start <= e.start}
<1>1. n \in Nat /\ DOMAIN m = 1 .. n /\ e.start \in Nat /\ \A k \in 1 .. n : m[k].start \in Nat
  BY EntryIs
<1>2. IsFiniteSet(B) /\ Cardinality(B) \in 0 .. n
  <2>1. IsFiniteSet(1 .. n) /\ Cardinality(1 .. n) = n
    <3> HIDE DEF n, B
    <3> QED BY <1>1, UpToSize
  <2>2. B \subseteq 1 .. n
    BY <1>1
  <2> HIDE DEF B, n
  <2>3. IsFiniteSet(B) /\ Cardinality(B) <= n
    BY <2>1, <2>2, FS_Subset
  <2> QED BY <1>1, <2>3, FS_CardinalityType
<1>3. UpperBound(m, e) = Cardinality(B) + 1
  BY DEF UpperBound
<1>4. ASSUME Sorted(m) PROVE \E k \in 0 .. n : B = 1 .. k
  <2> DEFINE L == {k \in Nat \ {0} : k = n + 1 \/ (k <= n /\ e.start < m[k].start)}
  <2>1. PICK k \in L : \A j \in L : ~(j < k)
    <3>1. L \subseteq Nat /\ n + 1 \in L
      BY <1>1
    <3> HIDE DEF L
    <3> QED BY <3>1, Least
  <2>2. k - 1 \in 0 .. n
    BY <1>1
  <2>3. ASSUME NEW j \in B PROVE j \in 1 .. k - 1
    <3>1. j \in 1 .. n /\ m[j].start <= e.start
      BY <1>1
    <3>2. j < k
      BY <1>1, <1>4, <2>1, <3>1 DEF Sorted
    <3> QED BY <1>1, <3>1, <3>2
  <2>4. ASSUME NEW j \in 1 .. k - 1 PROVE j \in B
    <3>1. j \notin L /\ j \in 1 .. n
      BY <1>1, <2>1, <2>2
    <3> QED BY <1>1, <3>1
  <2> QED BY <2>2, <2>3, <2>4
<1>5. ASSUME Sorted(m)
      PROVE  /\ \A k \in 1 .. UpperBound(m, e) - 1 : m[k].start <= e.start
             /\ \A k \in UpperBound(m, e) .. Len(m) : e.start < m[k].start
  <2>1. PICK k \in 0 .. n : B = 1 .. k
    BY <1>4, <1>5
  <2>2. Cardinality(B) = k
    <3>1. k \in Nat
      BY <1>1
    <3> HIDE DEF B
    <3> QED BY <2>1, <3>1, UpToSize
  <2>3. UpperBound(m, e) = k + 1 /\ (k + 1) - 1 = k
    BY <1>3, <2>2
  <2>4. \A j \in 1 .. k : m[j].start <= e.start
    BY <2>1
  <2>5. ASSUME NEW j \in k + 1 .. n PROVE e.start < m[j].start
    <3>1. j \in 1 .. n /\ j \notin 1 .. k
      BY <1>1
    <3>2. ~(m[j].start <= e.start)
      BY <1>1, <2>1, <3>1
    <3> QED BY <1>1, <3>1, <3>2
  <2> QED BY <2>3, <2>4, <2>5
<1> QED BY <1>1, <1>2, <1>3, <1>5

LEMMA InsertedIs ==
  ASSUME NEW m \in Seq(Entry), NEW e \in Entry
  PROVE  /\ Inserted(m, e) \in Seq(Entry)
         /\ ~e.kids => PutIn(Entry, m, UpperBound(m, e), e, Inserted(m, e))
<1>1. CASE e.kids
  BY <1>1 DEF Inserted
<1>2. CASE ~e.kids
  <2>1. Inserted(m, e) = InsertAt(m, UpperBound(m, e), e)
    BY <1>2 DEF Inserted
  <2>2. UpperBound(m, e) \in 1 .. Len(m) + 1
    BY UpperBoundIs
  <2>3. PutIn(Entry, m, UpperBound(m, e), e, Inserted(m, e))
    BY <2>1, <2>2, InsertAtIs
  <2> QED BY <2>3 DEF PutIn
<1> QED BY <1>1, <1>2

\* What get_asinfo() has after i entries of the page.
InsertsOf(g, page, n) ==
  g = [S \in SUBSET (1 .. n) |-> IF S = {} THEN <<>> ELSE Inserted(g[S \ {Max(S)}], page[Max(S)])]
Inserts(h, page) ==
  /\ h[0] = <<>>
  /\ \A i \in 1 .. Len(page) : h[i] = Inserted(h[i - 1], page[i])

LEMMA InsertsExist ==
  ASSUME NEW page \in Seq(Entry), NEW n, n = Len(page)
  PROVE  \E g : InsertsOf(g, page, n)
<1> DEFINE V == Seq(Entry)
           step == [i \in 1 .. n |-> [m \in V |-> Inserted(m, page[i])]]
<1>1. n \in Nat /\ <<>> \in V
  OBVIOUS
<1>2. \A i \in 1 .. n, m \in V : Inserted(m, page[i]) \in V
  BY InsertedIs
<1>3. step \in [1 .. n -> [V -> V]]
  BY <1>2
<1>4. Foldable(n, V, <<>>, step)
  <2> HIDE DEF V, step
  <2> QED BY <1>1, <1>3, FoldExists
<1>5. PICK g \in [SUBSET (1 .. n) -> V] : Folding(g, n, <<>>, step)
  BY <1>4, Zenon DEF Foldable
<1>6. ASSUME NEW S \in SUBSET (1 .. n), S # {} PROVE g[S] = Inserted(g[S \ {Max(S)}], page[Max(S)])
  <2>1. Max(S) \in 1 .. n
    <3>1. S \in SUBSET (0 .. n)
      OBVIOUS
    <3> QED BY <1>1, <1>6, <3>1, MaxIs
  <2>2. g[S] = step[Max(S)][g[S \ {Max(S)}]]
    BY <1>5, <1>6 DEF Folding
  <2>3. g[S \ {Max(S)}] \in V
    OBVIOUS
  <2> QED BY <2>1, <2>2, <2>3
<1>7. \A S \in SUBSET (1 .. n) : g[S] = IF S = {} THEN <<>> ELSE Inserted(g[S \ {Max(S)}], page[Max(S)])
  BY <1>5, <1>6 DEF Folding
<1>8. InsertsOf(g, page, n)
  BY <1>7 DEF InsertsOf
<1> QED BY <1>8

LEMMA InsertsAre ==
  ASSUME NEW page \in Seq(Entry)
  PROVE  \E h : Inserts(h, page) /\ get_asinfo(page) = h[Len(page)]
<1> DEFINE n == Len(page)
           g == CHOOSE f : InsertsOf(f, page, n)
           h == [i \in 0 .. n |-> g[1 .. i]]
<1>1. n \in Nat /\ DOMAIN page = 1 .. n
  OBVIOUS
<1>2. get_asinfo(page) = g[1 .. n]
  BY <1>1 DEF get_asinfo, FoldLeft, MapThenFoldSet, InsertsOf
<1>3. InsertsOf(g, page, n)
  BY InsertsExist, Zenon
<1> HIDE DEF g
<1>4. h[0] = <<>>
  BY <1>1, <1>3 DEF InsertsOf
<1>5. ASSUME NEW i \in 1 .. n PROVE h[i] = Inserted(h[i - 1], page[i])
  <2> DEFINE S == 1 .. i
  <2>1. S \in SUBSET (1 .. n) /\ S # {} /\ Max(S) = i /\ S \ {i} = 1 .. i - 1
    BY <1>1, PrefixIs
  <2> HIDE DEF S
  <2>2. g[S] = Inserted(g[S \ {i}], page[i])
    BY <1>3, <2>1 DEF InsertsOf
  <2>3. h[i] = g[S] /\ h[i - 1] = g[1 .. i - 1]
    BY <1>1 DEF S
  <2> QED BY <2>1, <2>2, <2>3
<1>6. get_asinfo(page) = h[n]
  BY <1>1, <1>2
<1> HIDE DEF h
<1>7. Inserts(h, page)
  BY <1>4, <1>5 DEF Inserts
<1> QED BY <1>6, <1>7

\* Where each entry comes from: pos names for every one a leaf of the first i
\* entries of the page, each leaf once.
Tracks(page, i, map, pos) ==
  /\ pos \in [1 .. Len(map) -> 1 .. i]
  /\ \A k \in 1 .. Len(map) : ~page[pos[k]].kids /\ map[k] = page[pos[k]]
  /\ \A k, l \in 1 .. Len(map) : k # l => pos[k] # pos[l]
  /\ \A j \in 1 .. i : ~page[j].kids => \E k \in 1 .. Len(map) : pos[k] = j
IsMap(page, i, map) == map \in Seq(Entry) /\ Sorted(map) /\ \E pos : Tracks(page, i, map, pos)

LEMMA InsertedSorted ==
  ASSUME NEW m \in Seq(Entry), Sorted(m), NEW e \in Entry, ~e.kids
  PROVE  Sorted(Inserted(m, e))
<1> DEFINE u == UpperBound(m, e)
           r == Inserted(m, e)
           n == Len(m)
<1>1. n \in Nat /\ u \in 1 .. n + 1 /\ e.start \in Nat /\ \A k \in 1 .. n : m[k].start \in Nat
  BY UpperBoundIs, EntryIs
<1>2. (\A k \in 1 .. u - 1 : m[k].start <= e.start) /\ \A k \in u .. n : e.start < m[k].start
  BY UpperBoundIs
<1>3. /\ Len(r) = n + 1 /\ r[u] = e
      /\ \A j \in 1 .. u - 1 : r[j] = m[j]
      /\ \A j \in u + 1 .. n + 1 : r[j] = m[j - 1]
  BY InsertedIs DEF PutIn
<1>4. \A k, l \in 1 .. n : k < l => m[k].start <= m[l].start
  BY DEF Sorted
<1> HIDE DEF u, r, n
<1>5. ASSUME NEW k \in 1 .. n + 1, NEW l \in 1 .. n + 1, k < l PROVE r[k].start <= r[l].start
  <2>1. CASE l < u
    BY <1>1, <1>3, <1>4, <1>5, <2>1
  <2>2. CASE l = u
    BY <1>1, <1>2, <1>3, <1>5, <2>2
  <2>3. CASE k = u
    <3>1. r[l] = m[l - 1] /\ l - 1 \in u .. n
      BY <1>1, <1>3, <1>5, <2>3
    <3> QED BY <1>1, <1>2, <1>3, <2>3, <3>1
  <2>4. CASE k < u /\ u < l
    <3>1. r[l] = m[l - 1] /\ l - 1 \in u .. n /\ r[k] = m[k] /\ k \in 1 .. u - 1
      BY <1>1, <1>3, <2>4
    <3>2. k \in 1 .. n /\ l - 1 \in 1 .. n /\ k < l - 1
      BY <1>1, <2>4, <3>1
    <3>3. m[k].start <= m[l - 1].start
      BY <1>4, <3>2
    <3> QED BY <3>1, <3>3
  <2>5. CASE u < k
    <3>1. r[l] = m[l - 1] /\ l - 1 \in 1 .. n /\ r[k] = m[k - 1] /\ k - 1 \in 1 .. n /\ k - 1 < l - 1
      BY <1>1, <1>3, <1>5, <2>5
    <3> QED BY <1>4, <3>1
  <2> QED BY <1>1, <1>5, <2>1, <2>2, <2>3, <2>4, <2>5
<1> QED BY <1>3, <1>5 DEF Sorted, r

\* q is the numbers of pos with i put in at u, and each is there once.
NumberPut(pos, n, u, i, q) ==
  /\ q \in [1 .. n + 1 -> 1 .. i]
  /\ \A k \in 1 .. u - 1 : q[k] = pos[k]
  /\ q[u] = i
  /\ \A k \in u + 1 .. n + 1 : q[k] = pos[k - 1]
  /\ \A k, l \in 1 .. n + 1 : k < l => q[k] # q[l]

LEMMA PutAmong ==
  ASSUME NEW n \in Nat, NEW i \in Nat \ {0}, NEW u \in 1 .. n + 1, NEW pos \in [1 .. n -> 1 .. i - 1],
         \A k, l \in 1 .. n : k # l => pos[k] # pos[l]
  PROVE  \E q : NumberPut(pos, n, u, i, q)
<1> DEFINE q == [k \in 1 .. n + 1 |-> IF k < u THEN pos[k] ELSE IF k = u THEN i ELSE pos[k - 1]]
<1>1. \A k \in 1 .. u - 1 : q[k] = pos[k] /\ q[k] \in 1 .. i - 1 /\ k \in 1 .. n
  OBVIOUS
<1>2. q[u] = i
  OBVIOUS
<1>3. \A k \in u + 1 .. n + 1 : q[k] = pos[k - 1] /\ q[k] \in 1 .. i - 1 /\ k - 1 \in 1 .. n
  <2> SUFFICES ASSUME NEW k \in u + 1 .. n + 1
               PROVE  q[k] = pos[k - 1] /\ q[k] \in 1 .. i - 1 /\ k - 1 \in 1 .. n
    OBVIOUS
  <2>1. k - 1 \in 1 .. n /\ k \in 1 .. n + 1 /\ ~(k < u) /\ k # u
    OBVIOUS
  <2>2. q[k] = pos[k - 1]
    BY <2>1
  <2> QED BY <2>1, <2>2
<1>4. \A k \in 1 .. n + 1 : k \in 1 .. u - 1 \/ k = u \/ k \in u + 1 .. n + 1
  OBVIOUS
<1>5. q \in [1 .. n + 1 -> 1 .. i]
  <2>1. \A k \in 1 .. n + 1 : q[k] \in 1 .. i
    <3> HIDE DEF q
    <3>1. 1 .. i - 1 \subseteq 1 .. i /\ i \in 1 .. i
      OBVIOUS
    <3> QED BY <1>1, <1>2, <1>3, <1>4, <3>1
  <2> QED BY <2>1
<1> HIDE DEF q
<1>6. ASSUME NEW k \in 1 .. n + 1, NEW l \in 1 .. n + 1, k < l PROVE q[k] # q[l]
  <2>1. CASE l \in 1 .. u - 1
    <3>1. k \in 1 .. u - 1 /\ k # l
      BY <1>6, <2>1
    <3> QED BY <1>1, <2>1, <3>1
  <2>2. CASE l = u
    <3>1. k \in 1 .. u - 1
      BY <1>6, <2>2
    <3> QED BY <1>1, <1>2, <2>2, <3>1
  <2>3. CASE k = u
    <3>1. l \in u + 1 .. n + 1
      BY <1>6, <2>3
    <3> QED BY <1>2, <1>3, <2>3, <3>1
  <2>4. CASE k \in 1 .. u - 1 /\ l \in u + 1 .. n + 1
    <3>1. k # l - 1
      BY <2>4
    <3> QED BY <1>1, <1>3, <2>4, <3>1
  <2>5. CASE k \in u + 1 .. n + 1 /\ l \in u + 1 .. n + 1
    <3>1. k - 1 # l - 1
      BY <1>6, <2>5
    <3> QED BY <1>3, <2>5, <3>1
  <2>6. CASE k \in u + 1 .. n + 1 /\ l \in 1 .. u - 1
    BY <1>6, <2>6
  <2> QED BY <1>4, <2>1, <2>2, <2>3, <2>4, <2>5, <2>6
<1>7. NumberPut(pos, n, u, i, q)
  BY <1>1, <1>2, <1>3, <1>5, <1>6 DEF NumberPut
<1> QED BY <1>7

LEMMA InsertedTracks ==
  ASSUME NEW page \in Seq(Entry), NEW i \in 1 .. Len(page), NEW m \in Seq(Entry), ~page[i].kids,
         NEW pos, Tracks(page, i - 1, m, pos)
  PROVE  \E q : Tracks(page, i, Inserted(m, page[i]), q)
<1> DEFINE e == page[i]
           u == UpperBound(m, e)
           r == Inserted(m, e)
           n == Len(m)
<1>0. e \in Entry
  OBVIOUS
<1>1. i \in Nat \ {0} /\ n \in Nat /\ u \in 1 .. n + 1
  BY <1>0, UpperBoundIs
<1>2. /\ Len(r) = n + 1 /\ r[u] = e
      /\ \A j \in 1 .. u - 1 : r[j] = m[j]
      /\ \A j \in u + 1 .. n + 1 : r[j] = m[j - 1]
  BY <1>0, InsertedIs DEF PutIn
<1>3. /\ pos \in [1 .. n -> 1 .. i - 1]
      /\ \A k \in 1 .. n : ~page[pos[k]].kids /\ m[k] = page[pos[k]]
      /\ \A k, l \in 1 .. n : k # l => pos[k] # pos[l]
      /\ \A j \in 1 .. i - 1 : ~page[j].kids => \E k \in 1 .. n : pos[k] = j
  BY DEF Tracks
<1> HIDE DEF u, r, n, e
<1>4. PICK q : NumberPut(pos, n, u, i, q)
  <2>1. n \in Nat /\ i \in Nat \ {0} /\ u \in 1 .. n + 1 /\ pos \in [1 .. n -> 1 .. i - 1]
    BY <1>1, <1>3
  <2>2. \A k, l \in 1 .. n : k # l => pos[k] # pos[l]
    BY <1>3
  <2> QED BY <2>1, <2>2, PutAmong
<1>5. /\ q \in [1 .. n + 1 -> 1 .. i]
      /\ \A k \in 1 .. u - 1 : q[k] = pos[k]
      /\ q[u] = i
      /\ \A k \in u + 1 .. n + 1 : q[k] = pos[k - 1]
      /\ \A k, l \in 1 .. n + 1 : k < l => q[k] # q[l]
  BY <1>4 DEF NumberPut
<1>6. \A k \in 1 .. n + 1 : k \in 1 .. u - 1 \/ k = u \/ k \in u + 1 .. n + 1
  BY <1>1
<1>7. ASSUME NEW k \in 1 .. n + 1 PROVE ~page[q[k]].kids /\ r[k] = page[q[k]]
  <2>1. CASE k \in 1 .. u - 1
    <3>1. k \in 1 .. n /\ r[k] = m[k] /\ q[k] = pos[k]
      BY <1>1, <1>2, <1>5, <2>1
    <3> QED BY <1>3, <3>1
  <2>2. CASE k = u
    BY <1>2, <1>5, <2>2 DEF e
  <2>3. CASE k \in u + 1 .. n + 1
    <3>1. k - 1 \in 1 .. n
      BY <1>1, <2>3
    <3>2. r[k] = m[k - 1] /\ q[k] = pos[k - 1]
      BY <1>2, <1>5, <2>3
    <3> QED BY <1>3, <3>1, <3>2
  <2> QED BY <1>6, <2>1, <2>2, <2>3
<1>9. ASSUME NEW j \in 1 .. i, ~page[j].kids PROVE \E k \in 1 .. n + 1 : q[k] = j
  <2>1. CASE j = i
    BY <1>1, <1>5, <2>1
  <2>2. CASE j # i
    <3>1. j \in 1 .. i - 1
      BY <1>1, <2>2
    <3>2. PICK k \in 1 .. n : pos[k] = j
      BY <1>3, <1>9, <3>1
    <3>3. CASE k < u
      <4>1. k \in 1 .. u - 1 /\ k \in 1 .. n + 1
        BY <1>1, <3>3
      <4> QED BY <1>5, <3>2, <4>1
    <3>4. CASE ~(k < u)
      <4>1. k + 1 \in u + 1 .. n + 1 /\ k + 1 \in 1 .. n + 1 /\ (k + 1) - 1 = k
        BY <1>1, <3>4
      <4>2. q[k + 1] = pos[(k + 1) - 1]
        BY <1>5, <4>1
      <4> QED BY <3>2, <4>1, <4>2
    <3> QED BY <3>3, <3>4
  <2> QED BY <2>1, <2>2
<1>10. \A k, l \in 1 .. n + 1 : k # l => q[k] # q[l]
  <2>1. \A k, l \in 1 .. n + 1 : k # l => k < l \/ l < k
    BY <1>1
  <2> QED BY <1>5, <2>1
<1>11. Tracks(page, i, r, q)
  BY <1>2, <1>5, <1>7, <1>9, <1>10 DEF Tracks
<1> QED BY <1>11 DEF r, e

LEMMA AsinfoIsMap ==
  ASSUME NEW page \in Seq(Entry)
  PROVE  IsMap(page, Len(page), get_asinfo(page))
<1> DEFINE n == Len(page)
<1>1. n \in Nat
  OBVIOUS
<1>2. PICK h : Inserts(h, page) /\ get_asinfo(page) = h[n]
  BY InsertsAre
<1> HIDE DEF n
<1> DEFINE G == {i \in 0 .. n : IsMap(page, i, h[i])}
<1>3. 0 \in G
  <2>1. h[0] = <<>> /\ <<>> \in Seq(Entry) /\ Len(<<>>) = 0 /\ 1 .. 0 = {}
    BY <1>2 DEF Inserts
  <2>2. Sorted(h[0])
    BY <2>1 DEF Sorted
  <2>3. Tracks(page, 0, h[0], [k \in 1 .. 0 |-> 0])
    BY <2>1 DEF Tracks
  <2>4. IsMap(page, 0, h[0])
    BY <2>1, <2>2, <2>3 DEF IsMap
  <2> QED BY <1>1, <2>4
<1>4. ASSUME NEW j \in 0 .. n - 1, j \in G PROVE j + 1 \in G
  <2> DEFINE i == j + 1
             e == page[i]
             m == h[j]
  <2>0. i \in 1 .. n /\ i - 1 = j
    BY <1>1
  <2>1. e \in Entry /\ h[i] = Inserted(m, e)
    BY <1>2, <2>0 DEF n, Inserts
  <2>2. m \in Seq(Entry) /\ Sorted(m)
    BY <1>4 DEF IsMap
  <2>3. PICK pos : Tracks(page, j, m, pos)
    BY <1>4 DEF IsMap
  <2> HIDE DEF i, m
  <2>4. h[i] \in Seq(Entry)
    BY <2>1, <2>2, InsertedIs
  <2>5. CASE e.kids
    <3>1. h[i] = m
      BY <2>1, <2>5 DEF Inserted
    <3>2. Tracks(page, i, m, pos)
      <4>1. pos \in [1 .. Len(m) -> 1 .. j] /\ 1 .. j \subseteq 1 .. i
        BY <1>1, <2>0, <2>3 DEF Tracks, i
      <4>2. pos \in [1 .. Len(m) -> 1 .. i]
        BY <4>1
      <4>3. \A k \in 1 .. i : ~page[k].kids => k \in 1 .. j
        BY <1>1, <2>0, <2>5 DEF i
      <4> QED BY <2>3, <4>2, <4>3 DEF Tracks
    <3> QED BY <2>0, <2>2, <3>1, <3>2 DEF IsMap, i
  <2>6. CASE ~e.kids
    <3>1. Sorted(h[i])
      BY <2>1, <2>2, <2>6, InsertedSorted
    <3>2. \E q : Tracks(page, i, h[i], q)
      <4>1. Tracks(page, i - 1, m, pos) /\ i \in 1 .. Len(page)
        BY <2>0, <2>3 DEF n
      <4>2. \E q : Tracks(page, i, Inserted(m, page[i]), q)
        BY <2>2, <2>6, <4>1, InsertedTracks
      <4> QED BY <2>1, <4>2
    <3>3. IsMap(page, i, h[i])
      BY <2>4, <3>1, <3>2, Zenon DEF IsMap
    <3> QED BY <1>1, <2>0, <3>3 DEF i
  <2> QED BY <2>5, <2>6
<1>5. 0 .. n \subseteq G
  <2> HIDE DEF G
  <2> QED BY <1>1, <1>3, <1>4, UpToByInduction
<1> QED BY <1>1, <1>2, <1>5 DEF n

-----------------------------------------------------------------------------
(* Asinfo: entries that do not overlap, and their names *)

EndOf(e) == e.start + entry_size(e)

\* In sorted entries that do not overlap, one ends before the next starts.
Ordered(map) ==
  /\ map \in Seq(Entry)
  /\ \A k, l \in 1 .. Len(map) : k < l => EndOf(map[k]) <= map[l].start

LEMMA InRangeIs ==
  ASSUME NEW e \in Entry, NEW a \in Nat
  PROVE  /\ EndOf(e) \in Nat /\ e.start \in Nat /\ e.start <= EndOf(e)
         /\ in_range(e, a) <=> (e.start <= a /\ a < EndOf(e))
         /\ in_range(e, a) <=> a \in e.start .. e.end
<1>1. e.start \in Nat /\ e.end \in Nat
  BY EntryIs
<1> QED BY <1>1 DEF in_range, EndOf, entry_size

\* What holds of the leaves of the page holds of the entries.
LEMMA MapDisjoint ==
  ASSUME NEW page \in Seq(Entry), Disjoint(page), NEW map \in Seq(Entry), NEW pos, Tracks(page, Len(page), map, pos),
         NEW k \in 1 .. Len(map), NEW l \in 1 .. Len(map), k # l, NEW a \in {map[k].start} \cup (map[k].start .. map[k].end)
  PROVE  ~in_range(map[l], a)
<1>1. /\ pos[k] \in DOMAIN page /\ pos[l] \in DOMAIN page /\ pos[k] # pos[l]
      /\ ~page[pos[k]].kids /\ ~page[pos[l]].kids /\ map[k] = page[pos[k]] /\ map[l] = page[pos[l]]
  BY DEF Tracks
<1> QED BY <1>1 DEF Disjoint

LEMMA MapOrdered ==
  ASSUME NEW page \in Seq(Entry), Disjoint(page), NEW map \in Seq(Entry), Sorted(map),
         NEW pos, Tracks(page, Len(page), map, pos)
  PROVE  Ordered(map)
<1> SUFFICES ASSUME NEW k \in 1 .. Len(map), NEW l \in 1 .. Len(map), k < l
             PROVE  EndOf(map[k]) <= map[l].start
  BY DEF Ordered
<1> DEFINE a == map[l].start
<1>1. map[k] \in Entry /\ map[l] \in Entry
  OBVIOUS
<1>2. a \in Nat
  BY <1>1, EntryIs
<1>3. ~in_range(map[k], a)
  <2>1. a \in {map[l].start} \cup (map[l].start .. map[l].end)
    OBVIOUS
  <2>2. l # k
    OBVIOUS
  <2> QED BY <2>1, <2>2, MapDisjoint
<1>4. map[k].start <= a
  BY DEF Sorted
<1> HIDE DEF a
<1>5. EndOf(map[k]) \in Nat /\ EndOf(map[k]) <= a
  BY <1>1, <1>2, <1>3, <1>4, InRangeIs
<1> QED BY <1>5 DEF a

\* The name of an address is that of the entry it is in.
LEMMA NamedIs ==
  ASSUME NEW page \in Seq(Entry), Disjoint(page), NEW map \in Seq(Entry), NEW pos, Tracks(page, Len(page), map, pos),
         NEW a \in Nat
  PROVE  /\ \A k \in 1 .. Len(map) : in_range(map[k], a) => Named(page, a) = map[k].name
         /\ (\A k \in 1 .. Len(map) : ~in_range(map[k], a)) => Named(page, a) = "none"
         /\ \A k \in 1 .. Len(map) : a = EndOf(map[k]) => BehindEntry(page, a)
<1> DEFINE around == {i \in DOMAIN page : ~page[i].kids /\ in_range(page[i], a)}
<1>1. /\ \A k \in 1 .. Len(map) : pos[k] \in DOMAIN page /\ ~page[pos[k]].kids /\ map[k] = page[pos[k]]
      /\ \A j \in DOMAIN page : ~page[j].kids => \E k \in 1 .. Len(map) : pos[k] = j
  BY DEF Tracks
<1>2. Named(page, a) = IF around = {} THEN "none" ELSE page[CHOOSE i \in around : TRUE].name
  BY DEF Named
<1>3. ASSUME NEW k \in 1 .. Len(map), in_range(map[k], a) PROVE Named(page, a) = map[k].name
  <2>1. pos[k] \in around
    BY <1>1, <1>3
  <2>2. ASSUME NEW i \in around PROVE i = pos[k]
    <3>1. PICK l \in 1 .. Len(map) : pos[l] = i
      BY <1>1
    <3>2. in_range(map[l], a)
      BY <1>1, <3>1
    <3>3. a \in map[k].start .. map[k].end
      BY <1>3, InRangeIs
    <3>4. k = l
      BY <3>2, <3>3, MapDisjoint
    <3> QED BY <3>1, <3>4
  <2>3. (CHOOSE i \in around : TRUE) \in around
    <3> HIDE DEF around
    <3> QED BY <2>1
  <2>4. (CHOOSE i \in around : TRUE) = pos[k]
    <3> HIDE DEF around
    <3> QED BY <2>2, <2>3
  <2>5. Named(page, a) = page[pos[k]].name
    <3> HIDE DEF around
    <3> QED BY <1>2, <2>1, <2>4
  <2> QED BY <1>1, <2>5
<1>4. ASSUME \A k \in 1 .. Len(map) : ~in_range(map[k], a) PROVE Named(page, a) = "none"
  <2>1. ASSUME NEW i \in around PROVE FALSE
    <3>1. PICK k \in 1 .. Len(map) : pos[k] = i
      BY <1>1
    <3> QED BY <1>1, <1>4, <3>1
  <2>2. around = {}
    BY <2>1
  <2> HIDE DEF around
  <2> QED BY <1>2, <2>2
<1>5. ASSUME NEW k \in 1 .. Len(map), a = EndOf(map[k]) PROVE BehindEntry(page, a)
  BY <1>1, <1>5 DEF BehindEntry, EndOf
<1> QED BY <1>3, <1>4, <1>5

-----------------------------------------------------------------------------
(* Asinfo: the search *)

\* What the search may say: the name of the entry around a, nothing when there
\* is none, and the two wrong outcomes only behind an entry.
Behind(map, a) == \E k \in 1 .. Len(map) : a = EndOf(map[k])
Around(map, a) == \E k \in 1 .. Len(map) : in_range(map[k], a)
FoundIs(map, a, x) ==
  \/ \E k \in 1 .. Len(map) : in_range(map[k], a) /\ x = map[k].name
  \/ ~Around(map, a) /\ x = "none"
  \/ Behind(map, a) /\ x \in {"none", "undefined"}

\* A state of the search: what is left of it, unless there is a name.
Left(map, a, lower, upper) ==
  /\ lower <= upper + 1
  /\ lower > 0 => EndOf(map[lower]) < a
  /\ Behind(map, a) \/ \A k \in 1 .. Len(map) : in_range(map[k], a) => lower < k /\ k <= upper + 1
OneName(map, a, name) == \E x : name = {x} /\ FoundIs(map, a, x)
Outcomes == STRING \cup {"none", "undefined"}
States(map, a) ==
  {s \in [lower : 0 .. Len(map) - 1, upper : 0 .. Len(map) - 1, name : SUBSET Outcomes] :
      IF s.name = {} THEN Left(map, a, s.lower, s.upper) ELSE OneName(map, a, s.name)}

LEMMA StateIs ==
  ASSUME NEW map, NEW a, NEW s \in States(map, a), s.name = {}
  PROVE  /\ s \in [lower : 0 .. Len(map) - 1, upper : 0 .. Len(map) - 1, name : SUBSET Outcomes]
         /\ s.lower \in 0 .. Len(map) - 1 /\ s.upper \in 0 .. Len(map) - 1
         /\ Left(map, a, s.lower, s.upper)
BY DEF States

\* The three ways in which a turn changes the state.
LEMMA NameState ==
  ASSUME NEW map, NEW a, NEW s \in States(map, a), s.name = {}, NEW x \in Outcomes, FoundIs(map, a, x),
         NEW t, t = [s EXCEPT !.name = {x}]
  PROVE  t \in States(map, a) /\ t.name # {}
<1>1. t \in [lower : 0 .. Len(map) - 1, upper : 0 .. Len(map) - 1, name : SUBSET Outcomes] /\ t.name = {x}
  BY StateIs
<1>2. OneName(map, a, {x})
  BY DEF OneName
<1>3. t.name # {}
  BY <1>1
<1> QED BY <1>1, <1>2, <1>3 DEF States

LEMMA UpperState ==
  ASSUME NEW map, NEW a, NEW s \in States(map, a), s.name = {}, NEW i \in 0 .. Len(map) - 1, Left(map, a, s.lower, i),
         NEW t, t = [s EXCEPT !.upper = i]
  PROVE  t \in States(map, a) /\ t.lower = s.lower /\ t.upper = i
<1>1. t \in [lower : 0 .. Len(map) - 1, upper : 0 .. Len(map) - 1, name : SUBSET Outcomes]
  BY StateIs
<1>2. t.lower = s.lower /\ t.upper = i /\ t.name = {}
  BY StateIs
<1> QED BY <1>1, <1>2 DEF States

LEMMA LowerState ==
  ASSUME NEW map, NEW a, NEW s \in States(map, a), s.name = {}, NEW i \in 0 .. Len(map) - 1, Left(map, a, i, s.upper),
         NEW t, t = [s EXCEPT !.lower = i]
  PROVE  t \in States(map, a) /\ t.lower = i /\ t.upper = s.upper
<1>1. t \in [lower : 0 .. Len(map) - 1, upper : 0 .. Len(map) - 1, name : SUBSET Outcomes]
  BY StateIs
<1>2. t.lower = i /\ t.upper = s.upper /\ t.name = {}
  BY StateIs
<1> QED BY <1>1, <1>2 DEF States

\* A turn has a name that is right, or the next state has fewer entries left.
LEMMA SearchedIs ==
  ASSUME NEW map, Ordered(map), NEW a \in Nat, NEW s \in States(map, a), s.name = {},
         NEW t, t = Searched(map, a, s)
  PROVE  t \in States(map, a) /\ (t.name = {} => t.upper - t.lower < s.upper - s.lower)
<1> DEFINE n == Len(map)
           l == s.lower
           u == s.upper
           mid == (l + u) \div 2
           reaches(i) == a <= EndOf(map[i + 1])
<1>1. /\ n \in Nat /\ l \in 0 .. n - 1 /\ u \in 0 .. n - 1
      /\ l <= u + 1 /\ (l > 0 => EndOf(map[l]) < a)
      /\ Behind(map, a) \/ \A k \in 1 .. n : in_range(map[k], a) => l < k /\ k <= u + 1
  BY StateIs DEF Left, Ordered
<1>2. /\ mid \in 0 .. n - 1 /\ mid <= u
      /\ l <= u => l <= mid
      /\ l = u + 1 => mid = u
  <2>1. l \in Nat /\ u \in Nat /\ l <= u + 1
    BY <1>1
  <2> DEFINE i == mid
  <2>2. i = (l + u) \div 2
    OBVIOUS
  <2> HIDE DEF i, l, u
  <2>3. /\ i \in Nat /\ i <= u
        /\ l <= u => l <= i
        /\ l = u + 1 => i = u
    BY <2>1, <2>2
  <2> QED BY <1>1, <2>2, <2>3
<1>3. t = IF in_range(map[mid + 1], a) THEN [s EXCEPT !.name = {map[mid + 1].name}]
          ELSE IF a >= map[l + 1].start /\ reaches(mid)
               THEN IF mid = 0 THEN [s EXCEPT !.name = {"undefined"}] ELSE [s EXCEPT !.upper = mid - 1]
          ELSE IF a > map[mid + 1].start /\ reaches(u) THEN [s EXCEPT !.lower = mid + 1]
          ELSE [s EXCEPT !.name = {"none"}]
  BY DEF Searched, EndOf
<1>4. \A k \in 1 .. n : /\ map[k] \in Entry /\ map[k].start \in Nat /\ EndOf(map[k]) \in Nat
                        /\ map[k].start <= EndOf(map[k])
                        /\ in_range(map[k], a) <=> (map[k].start <= a /\ a < EndOf(map[k]))
  BY InRangeIs DEF Ordered
<1>5. \A k, j \in 1 .. n : k < j => EndOf(map[k]) <= map[j].start
  BY DEF Ordered
<1> HIDE DEF n, mid, l, u
<1> DEFINE c == mid + 1
<1>6. c \in 1 .. n /\ l + 1 \in 1 .. n /\ u + 1 \in 1 .. n /\ c <= u + 1
  BY <1>1, <1>2
<1>7. \A k \in 1 .. n : k = c \/ k < c \/ c < k
  BY <1>6
\* With nothing left, the address is behind the entry that is tried last.
<1>8. l = u + 1 => l = c /\ EndOf(map[c]) < a
  BY <1>1, <1>2
<1>9. l <= u => l + 1 <= c
  BY <1>1, <1>2
<1>10. map[l + 1].start <= map[c].start \/ l = u + 1
  <2>1. CASE l <= u
    <3>1. l + 1 = c \/ l + 1 < c
      BY <1>1, <1>6, <1>9, <2>1
    <3>2. CASE l + 1 = c
      BY <1>4, <1>6, <3>2
    <3>3. CASE l + 1 < c
      BY <1>4, <1>5, <1>6, <3>3
    <3> QED BY <3>1, <3>2, <3>3
  <2> QED BY <1>1, <2>1
<1> HIDE DEF c
<1>11. CASE in_range(map[c], a)
  <2>1. t = [s EXCEPT !.name = {map[c].name}]
    BY <1>3, <1>11 DEF c
  <2>2. FoundIs(map, a, map[c].name) /\ map[c].name \in Outcomes
    BY <1>4, <1>6, <1>11, EntryIs DEF FoundIs, Outcomes, n
  <2>3. t \in States(map, a) /\ t.name # {}
    BY <2>1, <2>2, NameState
  <2> QED BY <2>3
<1>12. CASE ~in_range(map[c], a) /\ a >= map[l + 1].start /\ a <= EndOf(map[c])
  <2>1. l <= u /\ l + 1 <= c
    BY <1>1, <1>4, <1>6, <1>8, <1>9, <1>12
  <2>2. \A k \in 1 .. n : c < k /\ in_range(map[k], a) => a = EndOf(map[c])
    BY <1>4, <1>5, <1>6, <1>12
  <2>3. CASE mid = 0
    <3>1. t = [s EXCEPT !.name = {"undefined"}]
      BY <1>3, <1>12, <2>3 DEF c
    <3>2. c = 1 /\ l + 1 = c
      BY <1>1, <2>1, <2>3 DEF c
    <3>3. a = EndOf(map[c])
      BY <1>4, <1>6, <1>12, <3>2
    <3>4. Behind(map, a)
      BY <1>6, <3>3 DEF Behind, n
    <3>5. FoundIs(map, a, "undefined")
      BY <3>4, Zenon DEF FoundIs
    <3>6. "undefined" \in Outcomes
      BY DEF Outcomes
    <3>7. t \in States(map, a) /\ t.name # {}
      BY <3>1, <3>5, <3>6, NameState
    <3> QED BY <3>7
  <2>4. CASE mid # 0
    <3> DEFINE i == mid - 1
    <3>1. t = [s EXCEPT !.upper = i]
      BY <1>3, <1>12, <2>4 DEF c
    <3>2. i \in 0 .. n - 1 /\ i + 1 < c /\ c = i + 2 /\ i < u
      BY <1>1, <1>2, <2>4 DEF c
    <3> HIDE DEF i
    <3>3. l <= i + 1
      BY <1>1, <2>1, <3>2
    <3>4. Behind(map, a) \/ \A k \in 1 .. n : in_range(map[k], a) => l < k /\ k <= i + 1
      <4>1. ASSUME NEW k \in 1 .. n, in_range(map[k], a), ~Behind(map, a) PROVE k <= i + 1
        <5>1. ~(c < k)
          BY <1>6, <2>2, <4>1 DEF Behind, n
        <5>2. k < c
          BY <1>7, <1>12, <4>1, <5>1
        <5> QED BY <3>2, <5>2
      <4> QED BY <1>1, <4>1
    <3>5. Left(map, a, s.lower, i)
      BY <1>1, <3>3, <3>4 DEF Left, l, n
    <3>6. i \in 0 .. Len(map) - 1
      BY <3>2 DEF n
    <3>7. t \in States(map, a) /\ t.lower = s.lower /\ t.upper = i
      BY <3>1, <3>5, <3>6, UpperState
    <3>8. i - l < u - l
      BY <1>1, <3>2
    <3> QED BY <3>7, <3>8 DEF l, u
  <2> QED BY <2>3, <2>4
<1>13. CASE /\ ~in_range(map[c], a) /\ ~(a >= map[l + 1].start /\ a <= EndOf(map[c]))
            /\ a > map[c].start /\ a <= EndOf(map[u + 1])
  <2>1. EndOf(map[c]) < a
    BY <1>1, <1>4, <1>6, <1>8, <1>10, <1>13
  <2>2. c <= u
    <3>1. c # u + 1
      BY <1>4, <1>6, <1>13, <2>1
    <3> QED BY <1>1, <1>6, <3>1
  <2>3. l <= u
    BY <1>1, <1>2, <2>2 DEF c
  <2>4. t = [s EXCEPT !.lower = c]
    BY <1>3, <1>13 DEF c
  <2>5. Behind(map, a) \/ \A k \in 1 .. n : in_range(map[k], a) => c < k /\ k <= u + 1
    <3>1. ASSUME NEW k \in 1 .. n, in_range(map[k], a) PROVE c < k
      <4>1. ~(k < c)
        BY <1>4, <1>5, <1>6, <1>13, <3>1
      <4> QED BY <1>7, <1>13, <3>1, <4>1
    <3> QED BY <1>1, <3>1
  <2>6. Left(map, a, c, s.upper)
    BY <1>1, <1>6, <2>1, <2>5 DEF Left, u, n
  <2>7. c \in 0 .. Len(map) - 1
    BY <1>1, <1>6, <2>2 DEF n
  <2>8. t \in States(map, a) /\ t.lower = c /\ t.upper = s.upper
    BY <2>4, <2>6, <2>7, LowerState
  <2>9. u - c < u - l
    BY <1>1, <1>6, <1>9, <2>3
  <2> QED BY <2>8, <2>9 DEF l, u
<1>14. CASE /\ ~in_range(map[c], a) /\ ~(a >= map[l + 1].start /\ a <= EndOf(map[c]))
            /\ ~(a > map[c].start /\ a <= EndOf(map[u + 1]))
  <2>1. t = [s EXCEPT !.name = {"none"}]
    BY <1>3, <1>14 DEF c
  <2>2. Behind(map, a) \/ ~Around(map, a)
    <3> SUFFICES ASSUME ~Behind(map, a), NEW k \in 1 .. n, in_range(map[k], a) PROVE FALSE
      BY DEF Around, n
    <3>1. l < k /\ k <= u + 1 /\ k # c
      BY <1>1, <1>14
    <3>2. a # EndOf(map[c])
      BY <1>6 DEF Behind, n
    <3>3. CASE k < c
      <4>1. a < map[c].start /\ a <= EndOf(map[c])
        BY <1>4, <1>5, <1>6, <3>3
      <4>2. map[l + 1].start <= map[k].start
        <5>1. l + 1 = k \/ l + 1 < k
          BY <1>1, <3>1
        <5> QED BY <1>4, <1>5, <1>6, <5>1
      <4>3. map[l + 1].start <= a
        BY <1>4, <1>6, <4>2
      <4> QED BY <1>14, <4>1, <4>3
    <3>4. CASE c < k
      <4>1. EndOf(map[c]) <= a
        BY <1>4, <1>5, <1>6, <3>4
      <4>2. map[c].start < a
        BY <1>4, <1>6, <3>2, <4>1
      <4>3. EndOf(map[k]) <= EndOf(map[u + 1])
        <5>1. k = u + 1 \/ k < u + 1
          BY <1>1, <3>1
        <5> QED BY <1>4, <1>5, <1>6, <5>1
      <4>4. a <= EndOf(map[u + 1])
        BY <1>4, <1>6, <4>3
      <4> QED BY <1>14, <4>2, <4>4
    <3> QED BY <1>7, <3>1, <3>3, <3>4
  <2>3. FoundIs(map, a, "none")
    BY <2>2, Zenon DEF FoundIs
  <2>4. "none" \in Outcomes
    BY DEF Outcomes
  <2>5. t \in States(map, a) /\ t.name # {}
    BY <2>1, <2>3, <2>4, NameState
  <2> QED BY <2>5
<1> QED BY <1>11, <1>12, <1>13, <1>14

\* What the search has after some turns.
FirstState(map) == [lower |-> 0, upper |-> Len(map) - 1, name |-> {}]
SearchesOf(g, map, a, n) ==
  g = [S \in SUBSET (1 .. n) |-> IF S = {} THEN FirstState(map) ELSE Searched(map, a, g[S \ {Max(S)}])]
Searches(h, map, a) ==
  /\ h[0] = FirstState(map)
  /\ \A i \in 1 .. Len(map) + 1 : h[i] = Searched(map, a, h[i - 1])

LEMMA SearchedType ==
  ASSUME NEW map, Ordered(map), NEW a \in Nat, NEW s \in States(map, a)
  PROVE  Searched(map, a, s) \in States(map, a)
<1>1. CASE s.name = {}
  BY <1>1, SearchedIs
<1>2. CASE s.name # {}
  BY <1>2 DEF Searched
<1> QED BY <1>1, <1>2

LEMMA FirstStateIs ==
  ASSUME NEW map, Ordered(map), map # <<>>, NEW a \in Nat
  PROVE  FirstState(map) \in States(map, a)
<1> DEFINE f == FirstState(map)
           n == Len(map)
<1>1. n \in Nat \ {0}
  BY DEF Ordered
<1>2. f.lower = 0 /\ f.upper = n - 1 /\ f.name = {}
  BY DEF FirstState
<1>3. f \in [lower : 0 .. n - 1, upper : 0 .. n - 1, name : SUBSET Outcomes]
  <2> HIDE DEF n
  <2>1. 0 \in 0 .. n - 1 /\ n - 1 \in 0 .. n - 1
    BY <1>1
  <2> QED BY <2>1 DEF FirstState, n
<1> HIDE DEF f
<1>4. Left(map, a, 0, n - 1)
  <2>1. 0 <= (n - 1) + 1 /\ ~(0 > 0)
    BY <1>1
  <2>2. \A k \in 1 .. Len(map) : 0 < k /\ k <= (n - 1) + 1
    BY <1>1
  <2> QED BY <2>1, <2>2 DEF Left
<1> QED BY <1>2, <1>3, <1>4 DEF States, n, f

LEMMA SearchesExist ==
  ASSUME NEW map, Ordered(map), map # <<>>, NEW a \in Nat, NEW n \in Nat
  PROVE  \E g : SearchesOf(g, map, a, n)
<1> DEFINE V == States(map, a)
           step == [i \in 1 .. n |-> [s \in V |-> Searched(map, a, s)]]
           base == FirstState(map)
<1>1. base \in V
  BY FirstStateIs
<1>2. \A s \in V : Searched(map, a, s) \in V
  BY SearchedType
<1>3. step \in [1 .. n -> [V -> V]]
  BY <1>2
<1>4. Foldable(n, V, base, step)
  <2> HIDE DEF V, step, base
  <2> QED BY <1>1, <1>3, FoldExists
<1>5. PICK g \in [SUBSET (1 .. n) -> V] : Folding(g, n, base, step)
  BY <1>4, Zenon DEF Foldable
<1>6. ASSUME NEW S \in SUBSET (1 .. n), S # {} PROVE g[S] = Searched(map, a, g[S \ {Max(S)}])
  <2>1. Max(S) \in 1 .. n
    <3>1. S \in SUBSET (0 .. n)
      OBVIOUS
    <3> QED BY <1>6, <3>1, MaxIs
  <2>2. g[S] = step[Max(S)][g[S \ {Max(S)}]]
    BY <1>5, <1>6 DEF Folding
  <2>3. g[S \ {Max(S)}] \in V
    OBVIOUS
  <2> HIDE DEF V
  <2> QED BY <2>1, <2>2, <2>3
<1>7. \A S \in SUBSET (1 .. n) : g[S] = IF S = {} THEN FirstState(map) ELSE Searched(map, a, g[S \ {Max(S)}])
  BY <1>5, <1>6 DEF Folding
<1>8. SearchesOf(g, map, a, n)
  <2> HIDE DEF V
  <2> QED BY <1>7 DEF SearchesOf
<1> QED BY <1>8

LEMMA SearchesAre ==
  ASSUME NEW map, Ordered(map), map # <<>>, NEW a \in Nat
  PROVE  \E h : /\ Searches(h, map, a)
                /\ get_tymem_name(map, a) = IF h[Len(map) + 1].name = {} THEN "endless"
                                            ELSE CHOOSE name \in h[Len(map) + 1].name : TRUE
<1> DEFINE n == Len(map) + 1
           turns == [turn \in 1 .. n |-> turn]
           g == CHOOSE f : SearchesOf(f, map, a, n)
           h == [i \in 0 .. n |-> g[1 .. i]]
<1>1. n \in Nat \ {0} /\ DOMAIN turns = 1 .. n
  BY DEF Ordered
<1>2. FoldLeft(LAMBDA s, turn : Searched(map, a, s), FirstState(map), turns) = g[1 .. n]
  BY <1>1 DEF FoldLeft, MapThenFoldSet, SearchesOf
<1>3. SearchesOf(g, map, a, n)
  BY <1>1, SearchesExist
<1> HIDE DEF g
<1>4. h[0] = FirstState(map)
  BY <1>1, <1>3 DEF SearchesOf
<1>5. ASSUME NEW i \in 1 .. n PROVE h[i] = Searched(map, a, h[i - 1])
  <2> DEFINE S == 1 .. i
  <2>1. S \in SUBSET (1 .. n) /\ S # {} /\ Max(S) = i /\ S \ {i} = 1 .. i - 1
    BY <1>1, PrefixIs
  <2> HIDE DEF S
  <2>2. g[S] = Searched(map, a, g[S \ {i}])
    BY <1>3, <2>1 DEF SearchesOf
  <2>3. h[i] = g[S] /\ h[i - 1] = g[1 .. i - 1]
    BY <1>1 DEF S
  <2> QED BY <2>1, <2>2, <2>3
<1>6. get_tymem_name(map, a) = IF g[1 .. n].name = {} THEN "endless" ELSE CHOOSE name \in g[1 .. n].name : TRUE
  <2> DEFINE last == FoldLeft(LAMBDA s, turn : Searched(map, a, s), [lower |-> 0, upper |-> Len(map) - 1, name |-> {}], turns)
  <2>1. get_tymem_name(map, a) = IF map = <<>> THEN "none"
                                 ELSE IF last.name = {} THEN "endless" ELSE CHOOSE name \in last.name : TRUE
    BY Zenon DEF get_tymem_name
  <2>2. last = g[1 .. n]
    BY <1>2, Zenon DEF FirstState
  <2> HIDE DEF last
  <2> QED BY <2>1, <2>2
<1>7. h[n] = g[1 .. n]
  BY <1>1
<1> HIDE DEF h
<1>8. Searches(h, map, a)
  BY <1>4, <1>5 DEF Searches
<1>9. get_tymem_name(map, a) = IF h[n].name = {} THEN "endless" ELSE CHOOSE name \in h[n].name : TRUE
  BY <1>6, <1>7, Zenon
<1> QED BY <1>8, <1>9, Zenon

LEMMA SearchIsRight ==
  ASSUME NEW map, Ordered(map), NEW a \in Nat
  PROVE  FoundIs(map, a, get_tymem_name(map, a))
<1>1. CASE map = <<>>
  <2>1. get_tymem_name(map, a) = "none"
    BY <1>1 DEF get_tymem_name
  <2>2. ~Around(map, a)
    BY <1>1 DEF Around
  <2> QED BY <2>1, <2>2 DEF FoundIs
<1>2. CASE map # <<>>
  <2> DEFINE n == Len(map)
  <2>1. n \in Nat \ {0}
    BY <1>2 DEF Ordered
  <2>2. PICK h : /\ Searches(h, map, a)
                 /\ get_tymem_name(map, a) = IF h[Len(map) + 1].name = {} THEN "endless"
                                             ELSE CHOOSE name \in h[Len(map) + 1].name : TRUE
    BY <1>2, SearchesAre
  <2>3. h[0] = FirstState(map) /\ \A i \in 1 .. n + 1 : h[i] = Searched(map, a, h[i - 1])
    BY <2>2 DEF Searches
  <2> HIDE DEF n
  <2> DEFINE Less(i) == h[i].name = {} => h[i].upper - h[i].lower <= n - 1 - i
             G == {i \in 0 .. n + 1 : h[i] \in States(map, a) /\ Less(i)}
  <2>4. 0 \in G
    <3>1. h[0] \in States(map, a)
      BY <1>2, <2>3, FirstStateIs
    <3>2. h[0].upper = n - 1 /\ h[0].lower = 0
      BY <2>3 DEF FirstState, n
    <3> QED BY <2>1, <3>1, <3>2
  <2>5. ASSUME NEW j \in 0 .. n, j \in G PROVE j + 1 \in G
    <3> DEFINE i == j + 1
               s == h[j]
               t == h[i]
    <3>1. i \in 1 .. n + 1 /\ i - 1 = j /\ i \in 0 .. n + 1
      BY <2>1
    <3>2. t = Searched(map, a, s) /\ s \in States(map, a)
      BY <2>3, <2>5, <3>1
    <3>3. t \in States(map, a)
      BY <3>2, SearchedType
    <3>4. CASE s.name = {}
      <4>1. s.upper - s.lower <= n - 1 - j
        BY <2>5, <3>4
      <4>2. t.name = {} => t.upper - t.lower < s.upper - s.lower
        <5> HIDE DEF s, t
        <5> QED BY <3>2, <3>4, SearchedIs
      <4>3. s.upper \in Int /\ s.lower \in Int
        <5>1. s.lower \in 0 .. Len(map) - 1 /\ s.upper \in 0 .. Len(map) - 1
          <6> HIDE DEF s
          <6> QED BY <3>2, <3>4, StateIs
        <5> QED BY <2>1, <5>1 DEF n
      <4>4. t.name = {} => t.upper \in Int /\ t.lower \in Int
        <5>1. t.name = {} => t.lower \in 0 .. Len(map) - 1 /\ t.upper \in 0 .. Len(map) - 1
          <6> HIDE DEF t
          <6> QED BY <3>3, StateIs
        <5> QED BY <2>1, <5>1 DEF n
      <4>5. Less(i)
        <5> HIDE DEF s, i
        <5>1. i = j + 1
          BY DEF i
        <5> QED BY <2>1, <4>1, <4>2, <4>3, <4>4, <5>1
      <4> QED BY <3>1, <3>3, <4>5
    <3>5. CASE s.name # {}
      <4>1. t = s
        BY <3>2, <3>5 DEF Searched
      <4> QED BY <3>1, <3>2, <3>5, <4>1
    <3> QED BY <3>4, <3>5
  <2>6. n + 1 \in G
    <3>1. 0 .. n + 1 \subseteq G
      <4>1. n + 1 \in Nat /\ \A j \in 0 .. (n + 1) - 1 : j \in G => j + 1 \in G
        BY <2>1, <2>5
      <4> HIDE DEF G
      <4> QED BY <2>4, <4>1, UpToByInduction
    <3> HIDE DEF G
    <3> QED BY <2>1, <3>1
  <2> DEFINE s == h[n + 1]
  <2>7. s \in States(map, a) /\ (s.name = {} => s.upper - s.lower <= -2)
    BY <2>1, <2>6
  <2> HIDE DEF s
  <2>8. s.name # {}
    <3> SUFFICES ASSUME s.name = {} PROVE FALSE
      OBVIOUS
    <3>1. s.lower \in 0 .. n - 1 /\ s.upper \in 0 .. n - 1 /\ s.lower <= s.upper + 1
      BY <2>7, StateIs DEF Left, n
    <3> QED BY <2>1, <2>7, <3>1
  <2>9. PICK x : s.name = {x} /\ FoundIs(map, a, x)
    BY <2>7, <2>8 DEF States, OneName
  <2>10. get_tymem_name(map, a) = CHOOSE name \in s.name : TRUE
    BY <2>2, <2>8 DEF s, n
  <2>11. (CHOOSE name \in s.name : TRUE) = x
    BY <2>9
  <2> QED BY <2>9, <2>10, <2>11
<1> QED BY <1>1, <1>2

-----------------------------------------------------------------------------
(* Asinfo: the amount of system memory *)

\* What get_sysram() has after some entries, and the addresses it counts.
Summed(sum, e) == IF e.name = "sysram" THEN sum + entry_size(e) ELSE sum
SumsOf(g, map, n) ==
  g = [S \in SUBSET (1 .. n) |-> IF S = {} THEN 0 ELSE Summed(g[S \ {Max(S)}], map[Max(S)])]
SysramIn(map, i, x) == \E k \in 1 .. i : in_range(map[k], x) /\ map[k].name = "sysram"
Sysram(map, i) == {x \in Nat : SysramIn(map, i, x)}

LEMMA SummedIs ==
  ASSUME NEW sum \in Nat, NEW e \in Entry
  PROVE  Summed(sum, e) \in Nat
BY EntryIs DEF Summed

LEMMA SumsExist ==
  ASSUME NEW map \in Seq(Entry), NEW n, n = Len(map)
  PROVE  \E g : SumsOf(g, map, n)
<1> DEFINE step == [i \in 1 .. n |-> [m \in Nat |-> Summed(m, map[i])]]
<1>1. n \in Nat /\ 0 \in Nat
  OBVIOUS
<1>2. \A i \in 1 .. n, m \in Nat : Summed(m, map[i]) \in Nat
  <2>1. \A i \in 1 .. n : map[i] \in Entry
    OBVIOUS
  <2> HIDE DEF step
  <2> QED BY <2>1, SummedIs
<1>3. step \in [1 .. n -> [Nat -> Nat]]
  BY <1>2
<1>4. Foldable(n, Nat, 0, step)
  <2> HIDE DEF step
  <2> QED BY <1>1, <1>3, FoldExists
<1>5. PICK g \in [SUBSET (1 .. n) -> Nat] : Folding(g, n, 0, step)
  BY <1>4, Zenon DEF Foldable
<1>6. ASSUME NEW S \in SUBSET (1 .. n), S # {} PROVE g[S] = Summed(g[S \ {Max(S)}], map[Max(S)])
  <2>1. Max(S) \in 1 .. n
    <3>1. S \in SUBSET (0 .. n)
      OBVIOUS
    <3> QED BY <1>1, <1>6, <3>1, MaxIs
  <2>2. g[S] = step[Max(S)][g[S \ {Max(S)}]]
    BY <1>5, <1>6 DEF Folding
  <2>3. g[S \ {Max(S)}] \in Nat
    OBVIOUS
  <2> QED BY <2>1, <2>2, <2>3
<1>7. \A S \in SUBSET (1 .. n) : g[S] = IF S = {} THEN 0 ELSE Summed(g[S \ {Max(S)}], map[Max(S)])
  BY <1>5, <1>6 DEF Folding
<1>8. SumsOf(g, map, n)
  BY <1>7 DEF SumsOf
<1> QED BY <1>8

LEMMA SumsAre ==
  ASSUME NEW map \in Seq(Entry)
  PROVE  \E h : /\ h[0] = 0 /\ get_sysram(map) = h[Len(map)]
                /\ \A i \in 1 .. Len(map) : h[i] = Summed(h[i - 1], map[i])
<1> DEFINE n == Len(map)
           g == CHOOSE f : SumsOf(f, map, n)
           h == [i \in 0 .. n |-> g[1 .. i]]
<1>1. n \in Nat /\ DOMAIN map = 1 .. n
  OBVIOUS
<1>2. get_sysram(map) = g[1 .. n]
  BY <1>1 DEF get_sysram, FoldLeft, MapThenFoldSet, SumsOf, Summed
<1>3. SumsOf(g, map, n)
  BY SumsExist, Zenon
<1> HIDE DEF g
<1>4. h[0] = 0
  BY <1>1, <1>3 DEF SumsOf
<1>5. ASSUME NEW i \in 1 .. n PROVE h[i] = Summed(h[i - 1], map[i])
  <2> DEFINE S == 1 .. i
  <2>1. S \in SUBSET (1 .. n) /\ S # {} /\ Max(S) = i /\ S \ {i} = 1 .. i - 1
    BY <1>1, PrefixIs
  <2> HIDE DEF S
  <2>2. g[S] = Summed(g[S \ {i}], map[i])
    BY <1>3, <2>1 DEF SumsOf
  <2>3. h[i] = g[S] /\ h[i - 1] = g[1 .. i - 1]
    BY <1>1 DEF S
  <2> QED BY <2>1, <2>2, <2>3
<1>6. get_sysram(map) = h[n]
  BY <1>1, <1>2
<1> HIDE DEF h
<1> QED BY <1>4, <1>5, <1>6

\* An entry has as many addresses as its size says.
LEMMA RangeSize ==
  ASSUME NEW e \in Entry
  PROVE  IsFiniteSet(e.start .. e.end) /\ Cardinality(e.start .. e.end) = entry_size(e)
<1>1. e.start \in Int /\ e.end \in Int
  BY EntryIs
<1> DEFINE s == e.start
           t == e.end
<1> HIDE DEF s, t
<1>2. s \in Int /\ t \in Int
  BY <1>1 DEF s, t
<1>3. IsFiniteSet(s .. t) /\ Cardinality(s .. t) = IF s > t THEN 0 ELSE t - s + 1
  BY <1>2, FS_Interval
<1> QED BY <1>2, <1>3 DEF entry_size, s, t

LEMMA SysramIs ==
  ASSUME NEW map, Ordered(map)
  PROVE  get_sysram(map) = Cardinality(Sysram(map, Len(map)))
<1> DEFINE n == Len(map)
<1>1. n \in Nat /\ map \in Seq(Entry)
  BY DEF Ordered
<1>2. PICK h : /\ h[0] = 0 /\ get_sysram(map) = h[n]
               /\ \A i \in 1 .. n : h[i] = Summed(h[i - 1], map[i])
  BY <1>1, SumsAre
<1>3. \A k \in 1 .. n : map[k] \in Entry
  BY <1>1
<1>4. \A k, l \in 1 .. n : k < l => EndOf(map[k]) <= map[l].start
  BY DEF Ordered
<1> HIDE DEF n
<1> DEFINE G == {i \in 0 .. n : IsFiniteSet(Sysram(map, i)) /\ h[i] = Cardinality(Sysram(map, i))}
<1>5. 0 \in G
  <2>1. Sysram(map, 0) = {}
    BY DEF Sysram, SysramIn
  <2>2. IsFiniteSet(Sysram(map, 0)) /\ Cardinality(Sysram(map, 0)) = 0
    BY <2>1, FS_EmptySet, Zenon
  <2> QED BY <1>1, <1>2, <2>2
<1>6. ASSUME NEW j \in 0 .. n - 1, j \in G PROVE j + 1 \in G
  <2> DEFINE i == j + 1
             e == map[i]
             R == Sysram(map, j)
             T == e.start .. e.end
  <2>1. i \in 1 .. n /\ i - 1 = j /\ e \in Entry /\ i \in 0 .. n
    BY <1>1, <1>3
  <2>2. h[i] = Summed(h[j], e) /\ IsFiniteSet(R) /\ h[j] = Cardinality(R)
    BY <1>2, <1>6, <2>1
  <2>3. \A x \in Nat : SysramIn(map, i, x) <=> (SysramIn(map, j, x) \/ (e.name = "sysram" /\ in_range(e, x)))
    <3>1. 1 .. i = (1 .. j) \cup {i}
      OBVIOUS
    <3> HIDE DEF i
    <3> QED BY <3>1 DEF SysramIn
  <2>4. CASE e.name # "sysram"
    <3>1. Sysram(map, i) = R
      BY <2>3, <2>4 DEF Sysram
    <3>2. h[i] = h[j]
      BY <2>2, <2>4 DEF Summed
    <3> QED BY <2>1, <2>2, <3>1, <3>2
  <2>5. CASE e.name = "sysram"
    <3>1. \A x \in Nat : in_range(e, x) <=> x \in T
      BY <2>1, InRangeIs
    <3>2. T \subseteq Nat
      BY <2>1, EntryIs
    <3>3. Sysram(map, i) = R \cup T
      <4> HIDE DEF i, e, T
      <4>1. \A x \in Nat : x \in Sysram(map, i) <=> (x \in Sysram(map, j) \/ x \in T)
        BY <2>3, <2>5, <3>1 DEF Sysram
      <4>2. Sysram(map, i) \subseteq Nat /\ R \subseteq Nat
        BY DEF Sysram
      <4> HIDE DEF R
      <4> QED BY <3>2, <4>1, <4>2 DEF R
    <3>4. R \cap T = {}
      <4> SUFFICES ASSUME NEW x \in R, x \in T PROVE FALSE
        OBVIOUS
      <4>1. x \in Nat /\ SysramIn(map, j, x)
        BY DEF Sysram
      <4>2. PICK k \in 1 .. j : in_range(map[k], x)
        BY <4>1 DEF SysramIn
      <4>3. k \in 1 .. n /\ k < i
        BY <1>1
      <4>4. x < EndOf(map[k])
        BY <1>3, <4>1, <4>2, <4>3, InRangeIs
      <4>5. e.start <= x
        BY <2>1, EntryIs
      <4>6. EndOf(map[k]) <= e.start
        BY <1>4, <2>1, <4>3
      <4>7. EndOf(map[k]) \in Nat /\ e.start \in Nat
        BY <1>3, <2>1, <4>1, <4>3, InRangeIs
      <4> HIDE DEF e
      <4> QED BY <4>1, <4>4, <4>5, <4>6, <4>7
    <3>5. IsFiniteSet(T) /\ Cardinality(T) = entry_size(e)
      BY <2>1, RangeSize
    <3>6. h[i] = h[j] + entry_size(e)
      BY <2>2, <2>5 DEF Summed
    <3> HIDE DEF R, T, e
    <3>7. IsFiniteSet(R \cup T) /\ Cardinality(R \cup T) = Cardinality(R) + Cardinality(T)
      <4>1. /\ IsFiniteSet(R \cup T)
            /\ Cardinality(R \cup T) = Cardinality(R) + Cardinality(T) - Cardinality(R \cap T)
        BY <2>2, <3>5, FS_Union
      <4>2. Cardinality(R \cap T) = 0 /\ Cardinality(R) \in Nat /\ Cardinality(T) \in Nat
        BY <2>2, <3>4, <3>5, FS_EmptySet, FS_CardinalityType
      <4> QED BY <4>1, <4>2
    <3> QED BY <2>1, <2>2, <3>3, <3>5, <3>6, <3>7
  <2> QED BY <2>4, <2>5
<1>7. 0 .. n \subseteq G
  <2> HIDE DEF G
  <2> QED BY <1>1, <1>5, <1>6, UpToByInduction
<1>8. n \in G
  BY <1>1, <1>7
<1> QED BY <1>2, <1>8 DEF n

-----------------------------------------------------------------------------
(* Asinfo: what is promised *)

LEMMA TymemIsRight ==
  ASSUME NEW page \in Seq(Entry), NEW a \in Nat
  PROVE  TymemRight(page, a)
<1> DEFINE map == get_asinfo(page)
           n == Len(map)
<1>1. IsMap(page, Len(page), map)
  BY AsinfoIsMap
<1> HIDE DEF map
<1>2. map \in Seq(Entry) /\ Sorted(map)
  BY <1>1 DEF IsMap
<1>3. PICK pos : Tracks(page, Len(page), map, pos)
  BY <1>1 DEF IsMap
<1>4. \A i \in 1 .. n - 1 : map[i].start <= map[i + 1].start
  <2>1. n \in Nat
    BY <1>2
  <2> HIDE DEF n
  <2>2. \A i \in 1 .. n - 1 : i \in 1 .. n /\ i + 1 \in 1 .. n /\ i < i + 1
    BY <2>1
  <2> QED BY <1>2, <2>2 DEF Sorted, n
<1>5. ASSUME Disjoint(page) PROVE get_sysram(map) = Cardinality({x \in Covered(page) : Named(page, x) = "sysram"})
  <2>1. Ordered(map)
    BY <1>2, <1>3, <1>5, MapOrdered
  <2>2. get_sysram(map) = Cardinality(Sysram(map, n))
    BY <2>1, SysramIs
  <2>3. Covered(page) \subseteq Nat
    <3>1. \A i \in DOMAIN page : page[i].start .. page[i].end \subseteq Nat
      <4> SUFFICES ASSUME NEW i \in DOMAIN page PROVE page[i].start .. page[i].end \subseteq Nat
        OBVIOUS
      <4>1. page[i].start \in Nat /\ page[i].end \in Nat
        BY EntryIs
      <4> QED BY <4>1
    <3> QED BY <3>1 DEF Covered
  <2>4. ASSUME NEW x \in Sysram(map, n) PROVE x \in Covered(page) /\ Named(page, x) = "sysram"
    <3>1. x \in Nat /\ SysramIn(map, n, x)
      BY DEF Sysram
    <3>2. PICK k \in 1 .. n : in_range(map[k], x) /\ map[k].name = "sysram"
      BY <3>1 DEF SysramIn
    <3>3. Named(page, x) = "sysram"
      BY <1>2, <1>3, <1>5, <3>1, <3>2, NamedIs
    <3>4. pos[k] \in DOMAIN page /\ map[k] = page[pos[k]] /\ map[k] \in Entry
      BY <1>2, <1>3 DEF Tracks
    <3>5. x \in map[k].start .. map[k].end
      BY <3>1, <3>2, <3>4, InRangeIs
    <3> QED BY <3>3, <3>4, <3>5 DEF Covered
  <2>5. ASSUME NEW x \in Covered(page), Named(page, x) = "sysram" PROVE x \in Sysram(map, n)
    <3>1. x \in Nat
      BY <2>3
    <3>2. PICK k \in 1 .. n : in_range(map[k], x)
      BY <1>2, <1>3, <1>5, <2>5, <3>1, NamedIs
    <3>3. map[k].name = "sysram"
      BY <1>2, <1>3, <1>5, <2>5, <3>1, <3>2, NamedIs
    <3> QED BY <3>1, <3>2, <3>3 DEF Sysram, SysramIn
  <2>6. Sysram(map, n) = {x \in Covered(page) : Named(page, x) = "sysram"}
    BY <2>4, <2>5
  <2> QED BY <2>2, <2>6
<1>6. ASSUME Disjoint(page)
      PROVE  get_tymem_name(map, a) \in {Named(page, a)} \cup IF BehindEntry(page, a) THEN {"none", "undefined"} ELSE {}
  <2>1. Ordered(map)
    BY <1>2, <1>3, <1>6, MapOrdered
  <2> DEFINE found == get_tymem_name(map, a)
  <2>2. FoundIs(map, a, found)
    BY <2>1, SearchIsRight
  <2> SUFFICES found \in {Named(page, a)} \cup IF BehindEntry(page, a) THEN {"none", "undefined"} ELSE {}
    OBVIOUS
  <2> HIDE DEF found
  <2>3. CASE \E k \in 1 .. n : in_range(map[k], a) /\ found = map[k].name
    BY <1>2, <1>3, <1>6, <2>3, NamedIs
  <2>4. CASE ~Around(map, a) /\ found = "none"
    <3>1. \A k \in 1 .. Len(map) : ~in_range(map[k], a)
      BY <2>4 DEF Around
    <3>2. Named(page, a) = "none"
      BY <1>2, <1>3, <1>6, <3>1, NamedIs
    <3> QED BY <2>4, <3>2
  <2>5. CASE Behind(map, a) /\ found \in {"none", "undefined"}
    <3>1. BehindEntry(page, a)
      BY <1>2, <1>3, <1>6, <2>5, NamedIs DEF Behind
    <3> QED BY <2>5, <3>1
  <2> QED BY <2>2, <2>3, <2>4, <2>5 DEF FoundIs
<1> QED BY <1>4, <1>5, <1>6 DEF TymemRight, map

-----------------------------------------------------------------------------
(* The specification: at most one call, with inputs that are assumed *)

Called ==
  \/ call = NoCall
  \/ call \in SplitCalls \/ call \in HexCalls \/ call \in CopyCalls
  \/ call \in HostCalls \/ call \in SockaddrCalls \/ call \in ColumnCalls
  \/ call \in AsinfoCalls \/ call \in PacketCalls \/ call \in InterfaceCalls

LEMMA CalledAlways == FSpec => []Called
<1>1. FInit => Called
  BY DEF FInit, Called
<1>2. Called /\ [FNext]_call => Called'
  BY DEF FNext, Called
<1> QED BY <1>1, <1>2, PTL DEF FSpec

\* A call has the name of its function.
LEMMA FunctionNames ==
  /\ NoCall.fn = "none"
  /\ (\A c \in SplitCalls : c.fn = "split") /\ (\A c \in HexCalls : c.fn = "hex")
  /\ (\A c \in CopyCalls : c.fn = "copy") /\ (\A c \in SockaddrCalls : c.fn = "sockaddr")
  /\ (\A c \in HostCalls : c.fn = "host") /\ (\A c \in ColumnCalls : c.fn = "columns")
  /\ (\A c \in AsinfoCalls : c.fn = "asinfo") /\ (\A c \in PacketCalls : c.fn = "packet")
  /\ (\A c \in InterfaceCalls : c.fn = "interfaces")
<1>1. NoCall.fn = "none"
  BY DEF NoCall
<1>2. \A c \in SplitCalls : c.fn = "split"
  BY FunctionsAssumption
<1>3. \A c \in HexCalls : c.fn = "hex"
  BY FunctionsAssumption
<1>4. \A c \in CopyCalls : c.fn = "copy"
  BY FunctionsAssumption
<1>5. \A c \in SockaddrCalls : c.fn = "sockaddr"
  BY FunctionsAssumption
<1>6. \A c \in HostCalls : c.fn = "host"
  BY FunctionsAssumption
<1>7. \A c \in ColumnCalls : c.fn = "columns"
  BY FunctionsAssumption
<1>8. \A c \in AsinfoCalls : c.fn = "asinfo"
  BY FunctionsAssumption
<1>9. \A c \in PacketCalls : c.fn = "packet"
  BY FunctionsAssumption
<1>10. \A c \in InterfaceCalls : c.fn = "interfaces"
  <2>1. \A c \in InterfaceCalls : c = [fn |-> "interfaces", sys |-> c.sys, has |-> c.has]
    BY FunctionsAssumption
  <2> QED BY <2>1
<1> QED BY <1>1, <1>2, <1>3, <1>4, <1>5, <1>6, <1>7, <1>8, <1>9, <1>10

LEMMA CallSets ==
  ASSUME Called
  PROVE  /\ call.fn = "split" => call \in SplitCalls
         /\ call.fn = "hex" => call \in HexCalls
         /\ call.fn = "copy" => call \in CopyCalls
         /\ call.fn = "sockaddr" => call \in SockaddrCalls
         /\ call.fn = "host" => call \in HostCalls
         /\ call.fn = "columns" => call \in ColumnCalls
         /\ call.fn = "asinfo" => call \in AsinfoCalls
         /\ call.fn = "packet" => call \in PacketCalls
         /\ call.fn = "interfaces" => call \in InterfaceCalls
BY FunctionNames DEF Called

\* For every page of the system and every address: the entries are sorted and
\* none is lost; where they do not overlap, a name is found for exactly the
\* addresses that have one, but for an address right behind an entry
\* (get_asinfo, get_tymem_name and get_sysram of asinfo.cpp).
THEOREM AsinfoIsRight == FSpec => []AsinfoRight
<1>1. Called => AsinfoRight
  <2> SUFFICES ASSUME Called, call.fn = "asinfo" PROVE TymemRight(call.page, call.addr)
    BY DEF AsinfoRight
  <2>1. call \in [fn : {"asinfo"}, page : Seq(Entry), addr : Nat]
    BY CallSets, FunctionsAssumption DEF Entry
  <2>2. call.page \in Seq(Entry) /\ call.addr \in Nat
    BY <2>1
  <2> QED BY <2>2, TymemIsRight
<1> QED BY <1>1, CalledAlways, PTL

-----------------------------------------------------------------------------
(* Packets: the sum in ones' complement *)

\* The value of Folded: zero, or the remainder by 65535 in 1 .. 65535.
Rest(sum) == IF sum = 0 THEN 0 ELSE ((sum - 1) % 65535) + 1
Folds(f) == f = [sum \in Nat |-> IF sum > 65535 THEN f[(sum % 65536) + sum \div 65536] ELSE sum]

LEMMA RestParts ==
  ASSUME NEW x \in Nat
  PROVE  /\ x \div 65535 \in Nat /\ x % 65535 \in Nat /\ x % 65535 < 65535
         /\ x = 65535 * (x \div 65535) + (x % 65535)
OBVIOUS

LEMMA RestUnique ==
  ASSUME NEW x \in Nat, NEW q \in Nat, NEW b \in Nat, b < 65535, x = 65535 * q + b
  PROVE  x % 65535 = b
OBVIOUS

LEMMA FoldStep ==
  ASSUME NEW s \in Nat, s > 65535, NEW t, t = (s % 65536) + s \div 65536
  PROVE  t \in Nat /\ 0 < t /\ t < s /\ Rest(t) = Rest(s)
<1> DEFINE q == s \div 65536
           r == s % 65536
<1>1. q \in Nat /\ r \in Nat /\ r < 65536 /\ s = 65536 * q + r
  OBVIOUS
<1>2. t = r + q
  OBVIOUS
<1> HIDE DEF q, r
<1>3. 0 < q /\ t \in Nat /\ 0 < t /\ t < s
  BY <1>1, <1>2
<1> DEFINE x == t - 1
           a == x \div 65535
           b == x % 65535
           y == s - 1
<1>4. x \in Nat /\ y \in Nat /\ y = 65535 * q + x
  BY <1>1, <1>2, <1>3
<1> HIDE DEF x, y
<1>5. a \in Nat /\ b \in Nat /\ b < 65535 /\ x = 65535 * a + b
  BY <1>4, RestParts
<1> HIDE DEF a, b
<1>6. y = 65535 * (q + a) + b /\ q + a \in Nat
  BY <1>1, <1>4, <1>5
<1>7. y % 65535 = b
  <2> DEFINE k == q + a
  <2>1. k \in Nat /\ y = 65535 * k + b
    BY <1>6
  <2> HIDE DEF k
  <2> QED BY <1>4, <1>5, <2>1, RestUnique
<1>8. Rest(t) = b + 1 /\ Rest(s) = b + 1
  <2>1. t # 0 /\ s # 0
    BY <1>3
  <2>2. x % 65535 = b
    BY DEF b
  <2> QED BY <1>7, <2>1, <2>2 DEF Rest, x, y
<1> QED BY <1>3, <1>8

LEMMA FoldedIs ==
  ASSUME NEW s \in Nat
  PROVE  Folded[s] = Rest(s)
<1> DEFINE g == [x \in Nat |-> Rest(x)]
           step(x) == (x % 65536) + x \div 65536
<1>1. Folds(g)
  <2>1. ASSUME NEW x \in Nat PROVE Rest(x) = IF x > 65535 THEN g[step(x)] ELSE x
    <3>1. CASE x > 65535
      <4>1. step(x) \in Nat /\ Rest(step(x)) = Rest(x)
        BY <3>1, FoldStep
      <4> HIDE DEF step
      <4> QED BY <3>1, <4>1
    <3>2. CASE ~(x > 65535)
      <4>1. CASE x = 0
        BY <3>2, <4>1 DEF Rest
      <4>2. CASE x # 0
        <5> DEFINE y == x - 1
        <5>1. y \in Nat /\ y < 65535 /\ y = 65535 * 0 + y /\ y + 1 = x
          BY <3>2, <4>2
        <5> HIDE DEF y
        <5>2. y % 65535 = y
          BY <5>1, RestUnique
        <5>3. Rest(x) = (y % 65535) + 1
          BY <4>2 DEF Rest, y
        <5> QED BY <3>2, <5>1, <5>2, <5>3
      <4> QED BY <4>1, <4>2
    <3> QED BY <3>1, <3>2
  <2>2. g = [x \in Nat |-> IF x > 65535 THEN g[step(x)] ELSE x]
    BY <2>1
  <2> QED BY <2>2 DEF Folds
<1>2. Folds(Folded)
  <2> HIDE DEF g
  <2>1. Folds(CHOOSE f : Folds(f))
    BY <1>1, Zenon
  <2>2. Folded = CHOOSE f : Folds(f)
    BY DEF Folded, Folds
  <2> QED BY <2>1, <2>2
<1>3. \A x \in Nat : Folded[x] = IF x > 65535 THEN Folded[step(x)] ELSE x
  BY <1>2 DEF Folds
<1>4. \A x \in Nat : Rest(x) = IF x > 65535 THEN Rest(step(x)) ELSE x
  <2> SUFFICES ASSUME NEW x \in Nat PROVE Rest(x) = IF x > 65535 THEN Rest(step(x)) ELSE x
    OBVIOUS
  <2>1. g[x] = IF x > 65535 THEN g[step(x)] ELSE x
    BY <1>1 DEF Folds
  <2>2. x > 65535 => step(x) \in Nat
    BY FoldStep
  <2> HIDE DEF step
  <2> QED BY <2>1, <2>2
<1>5. \A x \in Nat : x > 65535 => step(x) \in Nat /\ step(x) < x
  BY FoldStep
<1> HIDE DEF step, g
<1> DEFINE L == {x \in Nat : Folded[x] # Rest(x)}
<1>6. L = {}
  <2> SUFFICES ASSUME L # {} PROVE FALSE
    OBVIOUS
  <2>1. L \subseteq Nat
    OBVIOUS
  <2>2. PICK x \in L : \A y \in L : ~(y < x)
    <3> HIDE DEF L
    <3> QED BY <2>1, Least
  <2>3. x \in Nat /\ Folded[x] # Rest(x)
    OBVIOUS
  <2>4. x > 65535
    BY <1>3, <1>4, <2>3
  <2>5. step(x) \notin L
    BY <1>5, <2>2, <2>3, <2>4
  <2>6. Folded[step(x)] = Rest(step(x))
    BY <1>5, <2>3, <2>4, <2>5
  <2> QED BY <1>3, <1>4, <2>3, <2>4, <2>6
<1> QED BY <1>6

\* The complement of a sum, added to the sum, verifies; so does the sum of all
\* ones when it is added as it is.
LEMMA ComplementVerifies ==
  ASSUME NEW s \in Nat, NEW c, c = IF Folded[s] = 65535 THEN 65535 ELSE Complement(Folded[s])
  PROVE  /\ Complement(Folded[s]) \in Word16 /\ Folded[s + Complement(Folded[s])] = 65535
         /\ c \in Word16 /\ c # 0 /\ Folded[s + c] = 65535
<1>1. Folded[s] = Rest(s)
  BY FoldedIs
<1> DEFINE f == Rest(s)
<1>2. PICK k \in Nat : s = 65535 * k + f /\ f \in Nat /\ f <= 65535 /\ (f = 0 => s = 0)
  <2>1. CASE s = 0
    <3>1. f = 0 /\ s = 65535 * 0 + f
      BY <2>1 DEF Rest
    <3> HIDE DEF f
    <3> QED BY <2>1, <3>1
  <2>2. CASE s # 0
    <3> DEFINE y == s - 1
               k == y \div 65535
               r == y % 65535
    <3>1. y \in Nat /\ s = y + 1
      BY <2>2
    <3>2. f = r + 1
      BY <2>2 DEF Rest
    <3> HIDE DEF y, f
    <3>3. k \in Nat /\ r \in Nat /\ r < 65535 /\ y = 65535 * k + r
      BY <3>1, RestParts
    <3> HIDE DEF k, r
    <3>4. s = 65535 * k + f /\ f \in Nat /\ f <= 65535 /\ f # 0
      BY <3>1, <3>2, <3>3
    <3> QED BY <3>3, <3>4
  <2> QED BY <2>1, <2>2
<1> HIDE DEF f
<1>3. ASSUME NEW x \in Nat, NEW j \in Nat, x = 65535 * (j + 1) PROVE Folded[x] = 65535
  <2> DEFINE y == x - 1
  <2>1. y \in Nat /\ y = 65535 * j + 65534 /\ 65534 \in Nat /\ 65534 < 65535 /\ x # 0
    BY <1>3
  <2> HIDE DEF y
  <2>2. y % 65535 = 65534
    BY <2>1, RestUnique
  <2>3. Folded[x] = (y % 65535) + 1
    BY <2>1, FoldedIs DEF Rest, y
  <2> QED BY <2>2, <2>3
<1>4. /\ Complement(f) \in Nat /\ Complement(f) < 65536
      /\ s + Complement(f) = 65535 * (k + 1) /\ s + Complement(f) \in Nat
  BY <1>2 DEF Complement
<1>6. Folded[s + Complement(f)] = 65535
  BY <1>2, <1>3, <1>4
<1>7. CASE f = 65535
  <2>1. c = 65535
    BY <1>1, <1>7 DEF f
  <2>2. s + c = 65535 * ((k + 1) + 1) /\ s + c \in Nat /\ k + 1 \in Nat
    BY <1>2, <1>7, <2>1
  <2>3. Folded[s + c] = 65535
    BY <1>3, <2>2
  <2>4. c \in Word16 /\ c # 0
    BY <2>1 DEF Word16
  <2>5. Complement(Folded[s]) \in Word16 /\ Folded[s + Complement(Folded[s])] = 65535
    BY <1>1, <1>4, <1>6 DEF f, Word16
  <2> QED BY <2>3, <2>4, <2>5
<1>8. CASE f # 65535
  <2>1. c = Complement(f)
    BY <1>1, <1>8 DEF f
  <2>2. Complement(f) # 0
    BY <1>2, <1>8 DEF Complement
  <2>3. Complement(Folded[s]) \in Word16 /\ Folded[s + Complement(Folded[s])] = 65535
    BY <1>1, <1>4, <1>6 DEF f, Word16
  <2>4. c = Complement(Folded[s])
    BY <1>1, <2>1 DEF f
  <2> QED BY <2>1, <2>2, <2>3, <2>4
<1> QED BY <1>7, <1>8

-----------------------------------------------------------------------------
(* Packets: sums of words *)

TotalsOf(g, words, n) ==
  g = [S \in SUBSET (1 .. n) |-> IF S = {} THEN 0 ELSE g[S \ {Max(S)}] + words[Max(S)]]

LEMMA TotalsExist ==
  ASSUME NEW words \in Seq(Nat), NEW n, n = Len(words)
  PROVE  \E g : TotalsOf(g, words, n)
<1> DEFINE step == [i \in 1 .. n |-> [m \in Nat |-> m + words[i]]]
<1>1. n \in Nat /\ 0 \in Nat
  OBVIOUS
<1>2. \A i \in 1 .. n, m \in Nat : m + words[i] \in Nat
  OBVIOUS
<1>3. step \in [1 .. n -> [Nat -> Nat]]
  BY <1>2
<1>4. Foldable(n, Nat, 0, step)
  <2> HIDE DEF step
  <2> QED BY <1>1, <1>3, FoldExists
<1>5. PICK g \in [SUBSET (1 .. n) -> Nat] : Folding(g, n, 0, step)
  BY <1>4, Zenon DEF Foldable
<1>6. ASSUME NEW S \in SUBSET (1 .. n), S # {} PROVE g[S] = g[S \ {Max(S)}] + words[Max(S)]
  <2>1. Max(S) \in 1 .. n
    <3>1. S \in SUBSET (0 .. n)
      OBVIOUS
    <3> QED BY <1>1, <1>6, <3>1, MaxIs
  <2>2. g[S] = step[Max(S)][g[S \ {Max(S)}]]
    BY <1>5, <1>6 DEF Folding
  <2>3. g[S \ {Max(S)}] \in Nat
    OBVIOUS
  <2> QED BY <2>1, <2>2, <2>3
<1>7. \A S \in SUBSET (1 .. n) : g[S] = IF S = {} THEN 0 ELSE g[S \ {Max(S)}] + words[Max(S)]
  BY <1>5, <1>6 DEF Folding
<1>8. TotalsOf(g, words, n)
  BY <1>7 DEF TotalsOf
<1> QED BY <1>8

\* The sums of the words so far.
Totals(h, words) == h[0] = 0 /\ \A i \in 1 .. Len(words) : h[i] = h[i - 1] + words[i]

LEMMA TotalsAre ==
  ASSUME NEW words \in Seq(Nat)
  PROVE  \E h : Totals(h, words) /\ Total(words) = h[Len(words)]
<1> DEFINE n == Len(words)
           g == CHOOSE f : TotalsOf(f, words, n)
           h == [i \in 0 .. n |-> g[1 .. i]]
<1>1. n \in Nat /\ DOMAIN words = 1 .. n
  OBVIOUS
<1>2. Total(words) = g[1 .. n]
  BY <1>1 DEF Total, FoldLeft, MapThenFoldSet, TotalsOf
<1>3. TotalsOf(g, words, n)
  BY TotalsExist, Zenon
<1> HIDE DEF g
<1>4. h[0] = 0
  BY <1>1, <1>3 DEF TotalsOf
<1>5. ASSUME NEW i \in 1 .. n PROVE h[i] = h[i - 1] + words[i]
  <2> DEFINE S == 1 .. i
  <2>1. S \in SUBSET (1 .. n) /\ S # {} /\ Max(S) = i /\ S \ {i} = 1 .. i - 1
    BY <1>1, PrefixIs
  <2> HIDE DEF S
  <2>2. g[S] = g[S \ {i}] + words[i]
    BY <1>3, <2>1 DEF TotalsOf
  <2>3. h[i] = g[S] /\ h[i - 1] = g[1 .. i - 1]
    BY <1>1 DEF S
  <2> QED BY <2>1, <2>2, <2>3
<1>6. Total(words) = h[n]
  BY <1>1, <1>2
<1> HIDE DEF h
<1>7. Totals(h, words)
  BY <1>4, <1>5 DEF Totals
<1> QED BY <1>6, <1>7

\* Words that differ in one place only, by c, have sums that differ by c.
OneMore(a, b, w, c) ==
  /\ a \in Seq(Nat) /\ b \in Seq(Nat) /\ Len(a) = Len(b) /\ w \in 1 .. Len(a) /\ c \in Nat
  /\ b[w] = a[w] + c /\ \A i \in 1 .. Len(a) : i # w => b[i] = a[i]

LEMMA TotalOneMore ==
  ASSUME NEW a, NEW b, NEW w, NEW c, OneMore(a, b, w, c)
  PROVE  Total(b) = Total(a) + c
<1> DEFINE n == Len(a)
<1>0. /\ a \in Seq(Nat) /\ b \in Seq(Nat) /\ Len(a) = Len(b) /\ w \in 1 .. Len(a) /\ c \in Nat
      /\ b[w] = a[w] + c /\ \A i \in 1 .. Len(a) : i # w => b[i] = a[i]
  BY DEF OneMore
<1>1. n \in Nat
  BY <1>0
<1>2. PICK g : Totals(g, a) /\ Total(a) = g[n]
  BY <1>0, TotalsAre
<1>3. PICK h : Totals(h, b) /\ Total(b) = h[Len(b)]
  BY <1>0, TotalsAre
<1>4. g[0] = 0 /\ h[0] = 0 /\ \A i \in 1 .. n : g[i] = g[i - 1] + a[i] /\ h[i] = h[i - 1] + b[i] /\ a[i] \in Nat
  <2>1. Len(b) = n /\ \A i \in 1 .. n : a[i] \in Nat
    BY <1>0
  <2>2. g[0] = 0 /\ \A i \in 1 .. n : g[i] = g[i - 1] + a[i]
    BY <1>2 DEF Totals
  <2>3. h[0] = 0 /\ \A i \in 1 .. n : h[i] = h[i - 1] + b[i]
    BY <1>3, <2>1 DEF Totals
  <2> QED BY <2>1, <2>2, <2>3
<1> HIDE DEF n
<1>9. w \in 1 .. n /\ c \in Nat /\ b[w] = a[w] + c /\ \A i \in 1 .. n : i # w => b[i] = a[i]
  BY <1>0 DEF n
<1> DEFINE G == {i \in 0 .. n : g[i] \in Nat /\ h[i] = g[i] + IF w <= i THEN c ELSE 0}
<1>5. 0 \in G
  BY <1>1, <1>4, <1>9
<1>6. ASSUME NEW i \in 0 .. n - 1, i \in G PROVE i + 1 \in G
  <2> DEFINE j == i + 1
  <2>1. j \in 1 .. n /\ j - 1 = i /\ j \in 0 .. n
    BY <1>1
  <2>2. g[j] = g[i] + a[j] /\ h[j] = h[i] + b[j] /\ a[j] \in Nat
    BY <1>4, <2>1
  <2>3. g[i] \in Nat /\ h[i] = g[i] + IF w <= i THEN c ELSE 0
    BY <1>6
  <2>4. w \in Int /\ (w <= j <=> (w <= i \/ w = j)) /\ (w = j => ~(w <= i))
    BY <1>1, <1>9, <2>1
  <2> HIDE DEF j
  <2>5. CASE w = j
    <3>1. b[j] = a[j] + c
      BY <1>9, <2>5
    <3>2. g[j] \in Nat /\ h[j] = g[j] + IF w <= j THEN c ELSE 0
      <4>1. w <= j /\ ~(w <= i)
        BY <2>4, <2>5
      <4>2. h[i] = g[i]
        BY <2>3, <4>1
      <4>3. h[j] = g[j] + c
        BY <1>9, <2>2, <2>3, <3>1, <4>2
      <4>4. g[j] \in Nat
        BY <2>2, <2>3
      <4>5. (IF w <= j THEN c ELSE 0) = c
        BY <4>1
      <4> QED BY <4>3, <4>4, <4>5
    <3> QED BY <2>1, <3>2 DEF j
  <2>6. CASE w # j
    <3>1. b[j] = a[j]
      BY <1>9, <2>1, <2>6
    <3>2. (w <= j) <=> (w <= i)
      BY <2>4, <2>6
    <3>3. g[j] \in Nat /\ h[j] = g[j] + IF w <= j THEN c ELSE 0
      BY <1>9, <2>2, <2>3, <3>1, <3>2
    <3> QED BY <2>1, <3>3 DEF j
  <2> QED BY <2>5, <2>6
<1>7. n \in G
  <2>1. 0 .. n \subseteq G
    <3> HIDE DEF G
    <3> QED BY <1>1, <1>5, <1>6, UpToByInduction
  <2> QED BY <1>1, <2>1
<1>8. w <= n
  BY <1>1, <1>9
<1>10. Total(b) = h[n]
  BY <1>0, <1>3 DEF n
<1> QED BY <1>2, <1>7, <1>8, <1>10

LEMMA TotalType ==
  ASSUME NEW a \in Seq(Nat)
  PROVE  Total(a) \in Nat
<1> DEFINE n == Len(a)
<1>1. n \in Nat
  OBVIOUS
<1>2. PICK h : Totals(h, a) /\ Total(a) = h[n]
  BY TotalsAre
<1>3. h[0] = 0 /\ \A i \in 1 .. n : h[i] = h[i - 1] + a[i] /\ a[i] \in Nat
  BY <1>2 DEF Totals
<1> HIDE DEF n
<1> DEFINE G == {i \in 0 .. n : h[i] \in Nat}
<1>4. 0 \in G
  BY <1>1, <1>3
<1>5. ASSUME NEW i \in 0 .. n - 1, i \in G PROVE i + 1 \in G
  <2>1. i + 1 \in 1 .. n /\ (i + 1) - 1 = i /\ i + 1 \in 0 .. n
    BY <1>1
  <2>2. h[i + 1] = h[(i + 1) - 1] + a[i + 1] /\ a[i + 1] \in Nat
    BY <1>3, <2>1
  <2> QED BY <1>5, <2>1, <2>2
<1>6. 0 .. n \subseteq G
  <2> HIDE DEF G
  <2> QED BY <1>1, <1>4, <1>5, UpToByInduction
<1> QED BY <1>1, <1>2, <1>6

-----------------------------------------------------------------------------
(* Packets: bytes and words *)

LEMMA ByteIs ==
  /\ \A b \in Byte : b \in Nat /\ b < 256
  /\ 0 \in Byte /\ 8 \in Byte /\ 17 \in Byte /\ 69 \in Byte /\ 129 \in Byte
BY DEF Byte

LEMMA ByteAt ==
  ASSUME NEW b \in Seq(Byte), NEW j \in 1 .. Len(b)
  PROVE  b[j] \in Byte
OBVIOUS

LEMMA BytesIs ==
  ASSUME NEW n \in Word16
  PROVE  /\ Bytes(n) \in Seq(Byte) /\ Len(Bytes(n)) = 2
         /\ Bytes(n)[1] * 256 + Bytes(n)[2] = n
<1> DEFINE q == n \div 256
           r == n % 256
<1>1. n \in Nat /\ n < 65536
  BY DEF Word16
<1>2. q \in Nat /\ r \in Nat /\ r < 256 /\ n = 256 * q + r
  BY <1>1
<1>3. Bytes(n) = <<q % 256, r>>
  BY DEF Bytes
<1> HIDE DEF q, r
<1>4. q < 256
  BY <1>1, <1>2
<1>5. Bytes(n) = <<q, r>>
  <2>1. q % 256 = q
    BY <1>2, <1>4
  <2> QED BY <1>3, <2>1
<1>6. q \in Byte /\ r \in Byte
  BY <1>2, <1>4 DEF Byte
<1>7. n = q * 256 + r
  BY <1>2
<1> QED BY <1>5, <1>6, <1>7

\* r is the n words of b.
WordsOf(b, n, r) ==
  /\ r \in Seq(Nat) /\ Len(r) = n
  /\ \A w \in 1 .. n : r[w] = b[2 * w - 1] * 256 + b[2 * w]

LEMMA WordsIs ==
  ASSUME NEW b \in Seq(Byte), NEW n \in Nat, Len(b) \in {2 * n, 2 * n + 1}
  PROVE  WordsOf(b, n, Words(b))
<1>1. Len(b) \div 2 = n
  OBVIOUS
<1>2. Words(b) = [w \in 1 .. n |-> b[2 * w - 1] * 256 + b[2 * w]]
  BY <1>1 DEF Words
<1>3. ASSUME NEW w \in 1 .. n PROVE b[2 * w - 1] * 256 + b[2 * w] \in Nat
  <2>1. 2 * w - 1 \in 1 .. Len(b) /\ 2 * w \in 1 .. Len(b)
    OBVIOUS
  <2>2. b[2 * w - 1] \in Nat /\ b[2 * w] \in Nat
    BY <2>1, ByteIs
  <2> QED BY <2>2
<1>4. Words(b) \in [1 .. n -> Nat]
  BY <1>2, <1>3
<1> QED BY <1>2, <1>4 DEF WordsOf

LEMMA SameSeq ==
  ASSUME NEW A, NEW s \in Seq(A), NEW t \in Seq(A), Len(s) = Len(t), \A i \in 1 .. Len(s) : s[i] = t[i]
  PROVE  s = t
OBVIOUS

LEMMA WordsCat ==
  ASSUME NEW a \in Seq(Byte), NEW b \in Seq(Byte), NEW k \in Nat, Len(a) = 2 * k
  PROVE  Words(a \o b) = Words(a) \o Words(b)
<1> DEFINE c == a \o b
           m == Len(b) \div 2
           r == Words(a) \o Words(b)
<1>1. c \in Seq(Byte) /\ Len(c) = 2 * k + Len(b)
      /\ (\A j \in 1 .. 2 * k : c[j] = a[j]) /\ \A j \in 2 * k + 1 .. 2 * k + Len(b) : c[j] = b[j - 2 * k]
  <2>1. Joins(Byte, a, b, c)
    BY ConcatIs
  <2> QED BY <2>1 DEF Joins
<1> HIDE DEF c
<1>2. m \in Nat /\ Len(b) \in {2 * m, 2 * m + 1} /\ Len(b) \in Nat
  OBVIOUS
<1> HIDE DEF m
<1>3. k + m \in Nat /\ Len(c) \in {2 * (k + m), 2 * (k + m) + 1}
  <2>1. Len(c) = 2 * k + Len(b)
    BY <1>1
  <2>2. Len(b) = 2 * m => Len(c) = 2 * (k + m)
    BY <1>2, <2>1
  <2>3. Len(b) = 2 * m + 1 => Len(c) = 2 * (k + m) + 1
    BY <1>2, <2>1
  <2> QED BY <1>2, <2>2, <2>3
<1>4. /\ Words(c) \in Seq(Nat) /\ Len(Words(c)) = k + m
      /\ \A w \in 1 .. k + m : Words(c)[w] = c[2 * w - 1] * 256 + c[2 * w]
  <2>1. WordsOf(c, k + m, Words(c))
    BY <1>1, <1>3, WordsIs
  <2> QED BY <2>1 DEF WordsOf
<1>5. /\ Words(a) \in Seq(Nat) /\ Len(Words(a)) = k
      /\ \A w \in 1 .. k : Words(a)[w] = a[2 * w - 1] * 256 + a[2 * w]
  <2>1. WordsOf(a, k, Words(a))
    BY WordsIs
  <2> QED BY <2>1 DEF WordsOf
<1>6. /\ Words(b) \in Seq(Nat) /\ Len(Words(b)) = m
      /\ \A w \in 1 .. m : Words(b)[w] = b[2 * w - 1] * 256 + b[2 * w]
  <2>1. WordsOf(b, m, Words(b))
    BY <1>2, WordsIs
  <2> QED BY <2>1 DEF WordsOf
<1>7. /\ r \in Seq(Nat) /\ Len(r) = k + m
      /\ (\A w \in 1 .. k : r[w] = Words(a)[w]) /\ \A w \in k + 1 .. k + m : r[w] = Words(b)[w - k]
  <2> DEFINE u == Words(a)
             v == Words(b)
  <2>1. u \in Seq(Nat) /\ Len(u) = k /\ v \in Seq(Nat) /\ Len(v) = m /\ r = u \o v
    BY <1>5, <1>6
  <2> HIDE DEF u, v, r
  <2>2. Joins(Nat, u, v, r)
    BY <2>1, ConcatIs
  <2>3. /\ r \in Seq(Nat) /\ Len(r) = k + m
        /\ (\A w \in 1 .. k : r[w] = u[w]) /\ \A w \in k + 1 .. k + m : r[w] = v[w - k]
    BY <1>2, <2>1, <2>2 DEF Joins
  <2> QED BY <2>3 DEF u, v
<1> HIDE DEF r
<1>8. ASSUME NEW w \in 1 .. k + m PROVE Words(c)[w] = r[w]
  <2>1. CASE w <= k
    <3>1. w \in 1 .. k /\ 2 * w - 1 \in 1 .. 2 * k /\ 2 * w \in 1 .. 2 * k
      BY <1>2, <2>1
    <3>2. c[2 * w - 1] = a[2 * w - 1] /\ c[2 * w] = a[2 * w]
      BY <1>1, <3>1
    <3>3. Words(c)[w] = c[2 * w - 1] * 256 + c[2 * w]
      BY <1>4
    <3>4. Words(a)[w] = a[2 * w - 1] * 256 + a[2 * w] /\ r[w] = Words(a)[w]
      BY <1>5, <1>7, <3>1
    <3> QED BY <3>2, <3>3, <3>4
  <2>2. CASE k < w
    <3> DEFINE v == w - k
    <3>1. w \in k + 1 .. k + m /\ v \in 1 .. m /\ w = k + v
      BY <1>2, <2>2
    <3> HIDE DEF v
    <3>2. 2 * w - 1 \in 2 * k + 1 .. 2 * k + Len(b) /\ 2 * w \in 2 * k + 1 .. 2 * k + Len(b)
      BY <1>2, <3>1
    <3>3. c[2 * w - 1] = b[(2 * w - 1) - 2 * k] /\ c[2 * w] = b[2 * w - 2 * k]
      BY <1>1, <3>2
    <3>4. (2 * w - 1) - 2 * k = 2 * v - 1 /\ 2 * w - 2 * k = 2 * v /\ w - k = v
      BY <1>2, <3>1
    <3>5. r[w] = b[2 * v - 1] * 256 + b[2 * v]
      BY <1>6, <1>7, <3>1, <3>4
    <3>6. Words(c)[w] = c[2 * w - 1] * 256 + c[2 * w]
      BY <1>4
    <3>7. c[2 * w - 1] = b[2 * v - 1] /\ c[2 * w] = b[2 * v]
      BY <3>3, <3>4
    <3> QED BY <3>5, <3>6, <3>7
  <2> QED BY <1>2, <2>1, <2>2
<1>9. Words(c) = r
  <2>1. Len(Words(c)) = Len(r) /\ \A w \in 1 .. Len(Words(c)) : Words(c)[w] = r[w]
    BY <1>4, <1>7, <1>8
  <2> QED BY <1>4, <1>7, <2>1, SameSeq
<1> QED BY <1>9 DEF c, r

-----------------------------------------------------------------------------
(* Packets: the headers *)

PacketType == {p \in Packet(Seq(Byte)) : Len(p.data) <= MaxData}

LEMMA PacketIs ==
  ASSUME NEW p \in PacketType
  PROVE  /\ p.dst_mac \in Seq(Byte) /\ Len(p.dst_mac) = 6 /\ p.src_mac \in Seq(Byte) /\ Len(p.src_mac) = 6
         /\ p.src_ip \in Seq(Byte) /\ Len(p.src_ip) = 4 /\ p.dst_ip \in Seq(Byte) /\ Len(p.dst_ip) = 4
         /\ p.vlan_id \in Word16 /\ p.fragmentation_id \in Word16 /\ p.ttl \in Byte
         /\ p.src_port \in Word16 /\ p.dst_port \in Word16
         /\ p.data \in Seq(Byte) /\ Len(p.data) + 28 \in Word16 /\ Len(p.data) + 8 \in Word16
<1>1. /\ p.dst_mac \in [1 .. 6 -> Byte] /\ p.src_mac \in [1 .. 6 -> Byte]
      /\ p.src_ip \in [1 .. 4 -> Byte] /\ p.dst_ip \in [1 .. 4 -> Byte]
      /\ p.vlan_id \in Word16 /\ p.fragmentation_id \in Word16 /\ p.ttl \in Byte
      /\ p.src_port \in Word16 /\ p.dst_port \in Word16 /\ p.data \in Seq(Byte)
  BY DEF PacketType, Packet
<1>2. Len(p.data) + 28 \in Word16 /\ Len(p.data) + 8 \in Word16
  BY <1>1 DEF Word16, PacketType, MaxData
<1>3. \A n \in Nat : \A f \in [1 .. n -> Byte] : f \in Seq(Byte) /\ Len(f) = n
  OBVIOUS
<1>4. /\ p.dst_mac \in Seq(Byte) /\ Len(p.dst_mac) = 6 /\ p.src_mac \in Seq(Byte) /\ Len(p.src_mac) = 6
      /\ p.src_ip \in Seq(Byte) /\ Len(p.src_ip) = 4 /\ p.dst_ip \in Seq(Byte) /\ Len(p.dst_ip) = 4
  <2>1. 6 \in Nat /\ 4 \in Nat
    OBVIOUS
  <2> QED BY <1>1, <1>3, <2>1, Zenon
<1> QED BY <1>1, <1>2, <1>4

\* r is a, b and c, one behind the other.
Joins3(A, a, b, c, r) ==
  /\ r \in Seq(A) /\ Len(r) = Len(a) + Len(b) + Len(c)
  /\ \A j \in 1 .. Len(a) : r[j] = a[j]
  /\ \A j \in 1 .. Len(b) : r[Len(a) + j] = b[j]
  /\ \A j \in 1 .. Len(c) : r[Len(a) + Len(b) + j] = c[j]

LEMMA ConcatIs3 ==
  ASSUME NEW A, NEW a \in Seq(A), NEW b \in Seq(A), NEW c \in Seq(A)
  PROVE  Joins3(A, a, b, c, (a \o b) \o c)
<1> DEFINE s == a \o b
           r == (a \o b) \o c
<1>1. Joins(A, a, b, s)
  BY ConcatIs
<1>2. r = s \o c
  OBVIOUS
<1> HIDE DEF s, r
<1>3. s \in Seq(A)
  BY <1>1 DEF Joins
<1>4. Joins(A, s, c, r)
  BY <1>2, <1>3, ConcatIs
<1> DEFINE k == Len(a)
           l == Len(b)
           m == Len(c)
<1>5. k \in Nat /\ l \in Nat /\ m \in Nat
  OBVIOUS
<1>6. /\ Len(s) = k + l /\ \A j \in 1 .. k : s[j] = a[j]
      /\ \A j \in k + 1 .. k + l : s[j] = b[j - k]
  BY <1>1 DEF Joins
<1>7. /\ r \in Seq(A) /\ Len(r) = k + l + m /\ \A j \in 1 .. k + l : r[j] = s[j]
      /\ \A j \in k + l + 1 .. k + l + m : r[j] = c[j - (k + l)]
  BY <1>4, <1>5, <1>6 DEF Joins
<1> HIDE DEF k, l, m
<1>8. ASSUME NEW j \in 1 .. l PROVE r[k + j] = b[j]
  <2>1. k + j \in k + 1 .. k + l /\ k + j \in 1 .. k + l /\ (k + j) - k = j
    BY <1>5
  <2>2. r[k + j] = s[k + j]
    BY <1>7, <2>1
  <2>3. s[k + j] = b[(k + j) - k]
    BY <1>6, <2>1
  <2> QED BY <2>1, <2>2, <2>3
<1>9. ASSUME NEW j \in 1 .. m PROVE r[k + l + j] = c[j]
  <2>1. k + l + j \in k + l + 1 .. k + l + m /\ (k + l + j) - (k + l) = j
    BY <1>5
  <2>2. r[k + l + j] = c[(k + l + j) - (k + l)]
    BY <1>7, <2>1
  <2> QED BY <2>1, <2>2
<1>10. \A j \in 1 .. k : r[j] = a[j]
  BY <1>5, <1>6, <1>7
<1>11. Joins3(A, a, b, c, r)
  BY <1>7, <1>8, <1>9, <1>10 DEF Joins3, k, l, m
<1> QED BY <1>11 DEF r

\* What is before the checksum of IPv4, and behind it.
Ipv4Start(p) == <<69, 0>> \o Bytes(Len(p.data) + 28) \o Bytes(p.fragmentation_id) \o <<0, 0, p.ttl, 17>>

LEMMA Ipv4StartIs ==
  ASSUME NEW p \in PacketType
  PROVE  /\ Ipv4Start(p) \in Seq(Byte) /\ Len(Ipv4Start(p)) = 10
         /\ Ipv4Start(p)[3] = Bytes(Len(p.data) + 28)[1] /\ Ipv4Start(p)[4] = Bytes(Len(p.data) + 28)[2]
<1> DEFINE a == <<69, 0>>
           b == Bytes(Len(p.data) + 28)
           c == Bytes(p.fragmentation_id)
           d == <<0, 0, p.ttl, 17>>
           r == (a \o b) \o c
<1>1. a \in Seq(Byte) /\ Len(a) = 2
  BY ByteIs
<1>2. b \in Seq(Byte) /\ Len(b) = 2 /\ c \in Seq(Byte) /\ Len(c) = 2
  BY PacketIs, BytesIs
<1>3. d \in Seq(Byte) /\ Len(d) = 4
  BY PacketIs, ByteIs
<1>4. Ipv4Start(p) = r \o d
  BY DEF Ipv4Start
<1> HIDE DEF a, b, c, d
<1>5. /\ r \in Seq(Byte) /\ Len(r) = Len(a) + Len(b) + Len(c)
      /\ \A j \in 1 .. Len(b) : r[Len(a) + j] = b[j]
  <2>1. Joins3(Byte, a, b, c, r)
    BY <1>1, <1>2, ConcatIs3
  <2> HIDE DEF r
  <2> QED BY <2>1 DEF Joins3
<1> HIDE DEF r
<1>6. /\ Ipv4Start(p) \in Seq(Byte) /\ Len(Ipv4Start(p)) = Len(r) + Len(d)
      /\ \A j \in 1 .. Len(r) : Ipv4Start(p)[j] = r[j]
  <2>1. Joins(Byte, r, d, Ipv4Start(p))
    BY <1>3, <1>4, <1>5, ConcatIs
  <2> QED BY <2>1 DEF Joins
<1>7. r[3] = b[1] /\ r[4] = b[2]
  <2>1. \A j \in 1 .. 2 : r[2 + j] = b[j]
    BY <1>1, <1>2, <1>5
  <2> QED BY <2>1
<1>8. Len(r) = 6 /\ Len(Ipv4Start(p)) = 10
  BY <1>1, <1>2, <1>3, <1>5, <1>6
<1>9. Ipv4Start(p)[3] = b[1] /\ Ipv4Start(p)[4] = b[2]
  BY <1>6, <1>7, <1>8
<1> QED BY <1>6, <1>8, <1>9 DEF b

Ipv4Is(p, c, ip) ==
  /\ ip \in Seq(Byte) /\ Len(ip) = 20
  /\ ip[3] * 256 + ip[4] = Len(p.data) + 28
  /\ ip[11] * 256 + ip[12] = c
  /\ \A j \in 1 .. 10 : ip[j] = Ipv4Start(p)[j]
  /\ \A j \in 13 .. 20 : ip[j] = (p.src_ip \o p.dst_ip)[j - 12]

LEMMA Ipv4HeaderIs ==
  ASSUME NEW p \in PacketType, NEW c \in Word16
  PROVE  Ipv4Is(p, c, Ipv4Header(p, c))
<1> DEFINE a == Ipv4Start(p)
           b == Bytes(c)
           s == p.src_ip
           d == p.dst_ip
           r == (a \o b) \o s
           e == s \o d
           ip == Ipv4Header(p, c)
<1>1. /\ a \in Seq(Byte) /\ Len(a) = 10
      /\ a[3] = Bytes(Len(p.data) + 28)[1] /\ a[4] = Bytes(Len(p.data) + 28)[2]
  BY Ipv4StartIs
<1>2. b \in Seq(Byte) /\ Len(b) = 2 /\ b[1] * 256 + b[2] = c
  BY BytesIs
<1>3. s \in Seq(Byte) /\ Len(s) = 4 /\ d \in Seq(Byte) /\ Len(d) = 4
  BY PacketIs
<1>4. ip = r \o d
  BY DEF Ipv4Header, Ipv4Start
<1>5. Bytes(Len(p.data) + 28)[1] * 256 + Bytes(Len(p.data) + 28)[2] = Len(p.data) + 28
  BY PacketIs, BytesIs
<1> HIDE DEF a, b, s, d, ip
<1>6. /\ r \in Seq(Byte) /\ Len(r) = Len(a) + Len(b) + Len(s)
      /\ \A j \in 1 .. Len(a) : r[j] = a[j]
      /\ \A j \in 1 .. Len(b) : r[Len(a) + j] = b[j]
      /\ \A j \in 1 .. Len(s) : r[Len(a) + Len(b) + j] = s[j]
  <2>1. Joins3(Byte, a, b, s, r)
    BY <1>1, <1>2, <1>3, ConcatIs3
  <2> HIDE DEF r
  <2> QED BY <2>1 DEF Joins3
<1>7. /\ e \in Seq(Byte) /\ Len(e) = 8 /\ (\A j \in 1 .. 4 : e[j] = s[j])
      /\ \A j \in 5 .. 8 : e[j] = d[j - 4]
  <2>1. Joins(Byte, s, d, e)
    BY <1>3, ConcatIs
  <2> HIDE DEF e
  <2> QED BY <1>3, <2>1 DEF Joins
<1> HIDE DEF r, e
<1>8. /\ Len(r) = 16 /\ (\A j \in 1 .. 10 : r[j] = a[j])
      /\ r[11] = b[1] /\ r[12] = b[2] /\ \A j \in 1 .. 4 : r[12 + j] = s[j]
  <2>1. (\A j \in 1 .. 2 : r[10 + j] = b[j]) /\ \A j \in 1 .. 4 : r[10 + 2 + j] = s[j]
    BY <1>1, <1>2, <1>3, <1>6
  <2> QED BY <1>1, <1>2, <1>3, <1>6, <2>1
<1>9. /\ ip \in Seq(Byte) /\ Len(ip) = 20
      /\ (\A j \in 1 .. 16 : ip[j] = r[j]) /\ \A j \in 17 .. 20 : ip[j] = d[j - 16]
  <2>1. Joins(Byte, r, d, ip)
    BY <1>3, <1>4, <1>6, ConcatIs
  <2> QED BY <1>3, <1>8, <2>1 DEF Joins
<1>10. ip[3] = a[3] /\ ip[4] = a[4] /\ ip[11] = b[1] /\ ip[12] = b[2]
  BY <1>8, <1>9
<1>11. ASSUME NEW j \in 13 .. 20 PROVE ip[j] = e[j - 12]
  <2>1. CASE j <= 16
    <3>1. j - 12 \in 1 .. 4 /\ 12 + (j - 12) = j /\ j \in 1 .. 16
      BY <2>1
    <3>2. r[12 + (j - 12)] = s[j - 12]
      BY <1>8, <3>1
    <3> QED BY <1>7, <1>9, <3>1, <3>2
  <2>2. CASE 16 < j
    <3>1. j - 12 \in 5 .. 8 /\ (j - 12) - 4 = j - 16 /\ j \in 17 .. 20
      BY <2>2
    <3>2. e[j - 12] = d[(j - 12) - 4]
      BY <1>7, <3>1
    <3> QED BY <1>9, <3>1, <3>2
  <2> QED BY <2>1, <2>2
<1>12. \A j \in 1 .. 10 : ip[j] = a[j]
  BY <1>8, <1>9
<1>13. ip[3] * 256 + ip[4] = Len(p.data) + 28 /\ ip[11] * 256 + ip[12] = c
  BY <1>1, <1>2, <1>5, <1>10
<1>14. e = p.src_ip \o p.dst_ip /\ a = Ipv4Start(p)
  BY DEF a, e, s, d
<1>15. Ipv4Is(p, c, ip)
  BY <1>9, <1>11, <1>12, <1>13, <1>14 DEF Ipv4Is
<1> QED BY <1>15 DEF ip

\* The same of the header of UDP.
UdpStart(p) == Bytes(p.src_port) \o Bytes(p.dst_port) \o Bytes(Len(p.data) + 8)

UdpIs(p, c, udp) ==
  /\ udp \in Seq(Byte) /\ Len(udp) = 8
  /\ udp[5] * 256 + udp[6] = Len(p.data) + 8
  /\ udp[7] * 256 + udp[8] = c
  /\ \A j \in 1 .. 6 : udp[j] = UdpStart(p)[j]

LEMMA UdpHeaderIs ==
  ASSUME NEW p \in PacketType, NEW c \in Word16
  PROVE  UdpIs(p, c, UdpHeader(p, c))
<1> DEFINE a == Bytes(p.src_port)
           b == Bytes(p.dst_port)
           d == Bytes(Len(p.data) + 8)
           e == Bytes(c)
           r == (a \o b) \o d
           udp == UdpHeader(p, c)
<1>1. a \in Seq(Byte) /\ Len(a) = 2 /\ b \in Seq(Byte) /\ Len(b) = 2
  BY PacketIs, BytesIs
<1>2. d \in Seq(Byte) /\ Len(d) = 2 /\ d[1] * 256 + d[2] = Len(p.data) + 8
  BY PacketIs, BytesIs
<1>3. e \in Seq(Byte) /\ Len(e) = 2 /\ e[1] * 256 + e[2] = c
  BY BytesIs
<1>4. udp = r \o e /\ UdpStart(p) = r
  BY DEF UdpHeader, UdpStart
<1> HIDE DEF a, b, d, e, udp
<1>5. Joins3(Byte, a, b, d, r)
  BY <1>1, <1>2, ConcatIs3
<1> HIDE DEF r
<1>6. r \in Seq(Byte) /\ Len(r) = 6 /\ r[5] = d[1] /\ r[6] = d[2]
  <2>1. r \in Seq(Byte) /\ Len(r) = 6 /\ \A j \in 1 .. 2 : r[4 + j] = d[j]
    BY <1>1, <1>2, <1>5 DEF Joins3
  <2> QED BY <2>1
<1>7. Joins(Byte, r, e, udp)
  BY <1>3, <1>4, <1>6, ConcatIs
<1>8. /\ udp \in Seq(Byte) /\ Len(udp) = 8 /\ (\A j \in 1 .. 6 : udp[j] = r[j])
      /\ \A j \in 7 .. 8 : udp[j] = e[j - 6]
  BY <1>3, <1>6, <1>7 DEF Joins
<1>9. udp[5] = d[1] /\ udp[6] = d[2] /\ udp[7] = e[1] /\ udp[8] = e[2]
  BY <1>6, <1>8
<1>10. UdpIs(p, c, udp)
  BY <1>2, <1>3, <1>4, <1>8, <1>9 DEF UdpIs
<1> QED BY <1>10 DEF udp

-----------------------------------------------------------------------------
(* Packets: the checksums verify *)

LEMMA Ipv4Verifies ==
  ASSUME NEW p \in PacketType
  PROVE  /\ calc_ipv4_cs(Ipv4Header(p, 0)) \in Word16
         /\ Verifies(Words(Ipv4Header(p, calc_ipv4_cs(Ipv4Header(p, 0)))))
<1> DEFINE ip0 == Ipv4Header(p, 0)
           a == Words(ip0)
           s == Total(a)
           c == Complement(Folded[s])
           ip == Ipv4Header(p, c)
           b == Words(ip)
<1>1. calc_ipv4_cs(ip0) = c
  BY DEF calc_ipv4_cs
<1>2. 0 \in Word16
  BY DEF Word16
<1>3. /\ ip0 \in Seq(Byte) /\ Len(ip0) = 20 /\ ip0[11] * 256 + ip0[12] = 0
      /\ \A j \in 1 .. 10 : ip0[j] = Ipv4Start(p)[j]
      /\ \A j \in 13 .. 20 : ip0[j] = (p.src_ip \o p.dst_ip)[j - 12]
  <2>1. Ipv4Is(p, 0, ip0)
    BY <1>2, Ipv4HeaderIs
  <2> HIDE DEF ip0
  <2> QED BY <2>1 DEF Ipv4Is
<1> HIDE DEF ip0
<1>4. a \in Seq(Nat) /\ Len(a) = 10 /\ \A w \in 1 .. 10 : a[w] = ip0[2 * w - 1] * 256 + ip0[2 * w]
  <2>0. 10 \in Nat /\ Len(ip0) \in {2 * 10, 2 * 10 + 1}
    BY <1>3
  <2>1. WordsOf(ip0, 10, a)
    BY <1>3, <2>0, WordsIs
  <2> HIDE DEF a
  <2> QED BY <2>1 DEF WordsOf
<1> HIDE DEF a
<1>5. s \in Nat
  BY <1>4, TotalType
<1> HIDE DEF s
<1>6. c \in Word16 /\ Folded[s + c] = 65535
  BY <1>5, ComplementVerifies
<1> HIDE DEF c
<1>7. /\ ip \in Seq(Byte) /\ Len(ip) = 20 /\ ip[11] * 256 + ip[12] = c
      /\ \A j \in 1 .. 10 : ip[j] = Ipv4Start(p)[j]
      /\ \A j \in 13 .. 20 : ip[j] = (p.src_ip \o p.dst_ip)[j - 12]
  <2>1. Ipv4Is(p, c, ip)
    BY <1>6, Ipv4HeaderIs
  <2> HIDE DEF ip
  <2> QED BY <2>1 DEF Ipv4Is
<1> HIDE DEF ip
<1>8. b \in Seq(Nat) /\ Len(b) = 10 /\ \A w \in 1 .. 10 : b[w] = ip[2 * w - 1] * 256 + ip[2 * w]
  <2>0. 10 \in Nat /\ Len(ip) \in {2 * 10, 2 * 10 + 1}
    BY <1>7
  <2>1. WordsOf(ip, 10, b)
    BY <1>7, <2>0, WordsIs
  <2> HIDE DEF b
  <2> QED BY <2>1 DEF WordsOf
<1> HIDE DEF b
<1>9. c \in Nat
  BY <1>6 DEF Word16
<1>10. b[6] = a[6] + c
  <2>1. b[6] = c /\ a[6] = 0
    BY <1>3, <1>4, <1>7, <1>8
  <2> QED BY <1>9, <2>1
<1>11. ASSUME NEW w \in 1 .. 10, w # 6 PROVE b[w] = a[w]
  <2>1. ASSUME NEW j \in 1 .. 20, j # 11, j # 12 PROVE ip[j] = ip0[j]
    <3>1. CASE j \in 1 .. 10
      BY <1>3, <1>7, <3>1
    <3>2. CASE j \in 13 .. 20
      BY <1>3, <1>7, <3>2
    <3>3. j \in 1 .. 10 \/ j \in 13 .. 20
      BY <2>1
    <3> QED BY <3>1, <3>2, <3>3
  <2>2. /\ 2 * w - 1 \in 1 .. 20 /\ 2 * w - 1 # 11 /\ 2 * w - 1 # 12
        /\ 2 * w \in 1 .. 20 /\ 2 * w # 11 /\ 2 * w # 12
    BY <1>11
  <2>3. ip[2 * w - 1] = ip0[2 * w - 1] /\ ip[2 * w] = ip0[2 * w]
    BY <2>1, <2>2
  <2>4. b[w] = ip[2 * w - 1] * 256 + ip[2 * w]
    BY <1>8
  <2>5. a[w] = ip0[2 * w - 1] * 256 + ip0[2 * w]
    BY <1>4
  <2> QED BY <2>3, <2>4, <2>5
<1>12. Total(b) = s + c
  <2>1. 6 \in 1 .. Len(a) /\ \A i \in 1 .. Len(a) : i # 6 => b[i] = a[i]
    BY <1>4, <1>11
  <2>2. OneMore(a, b, 6, c)
    BY <1>4, <1>8, <1>9, <1>10, <2>1 DEF OneMore
  <2> QED BY <2>2, TotalOneMore DEF s
<1>13. Folded[Total(b)] = 65535
  BY <1>6, <1>12
<1> QED BY <1>1, <1>6, <1>13 DEF Verifies, b, ip, ip0

\* The payload as words, an odd byte at the end in the high half of one.
LEMMA PaddedWords ==
  ASSUME NEW d \in Seq(Byte)
  PROVE  /\ Words(Padded(d)) \in Seq(Nat)
         /\ Words(d) \in Seq(Nat)
         /\ Len(d) % 2 = 1 => d[Len(d)] * 256 \in Nat
         /\ Words(Padded(d)) = Words(d) \o IF Len(d) % 2 = 1 THEN <<d[Len(d)] * 256>> ELSE <<>>
<1> DEFINE m == Len(d) \div 2
           w == Words(d)
           l == Len(d)
<1>1. m \in Nat /\ l \in Nat /\ (l = 2 * m \/ l = 2 * m + 1) /\ (l % 2 = 1 <=> l = 2 * m + 1)
  OBVIOUS
<1> HIDE DEF m
<1>2. w \in Seq(Nat) /\ Len(w) = m /\ \A i \in 1 .. m : w[i] = d[2 * i - 1] * 256 + d[2 * i]
  <2>1. WordsOf(d, m, w)
    BY <1>1, WordsIs
  <2> HIDE DEF w
  <2> QED BY <2>1 DEF WordsOf
<1>3. CASE l = 2 * m
  <2>1. Padded(d) = d
    BY <1>1, <1>3 DEF Padded
  <2>2. w \o <<>> = w
    BY <1>2
  <2> QED BY <1>1, <1>2, <1>3, <2>1, <2>2
<1>4. CASE l = 2 * m + 1
  <2> DEFINE e == Append(d, 0)
             v == Words(e)
             o == d[l] * 256
             r == w \o <<o>>
  <2>1. Padded(d) = e
    BY <1>1, <1>4 DEF Padded
  <2>2. e \in Seq(Byte) /\ Len(e) = 2 * (m + 1) /\ (\A i \in 1 .. l : e[i] = d[i]) /\ e[l + 1] = 0
    <3>1. 0 \in Byte
      BY ByteIs
    <3>2. e \in Seq(Byte) /\ Len(e) = l + 1 /\ (\A i \in 1 .. l : e[i] = d[i]) /\ e[l + 1] = 0
      BY <3>1
    <3> QED BY <1>1, <1>4, <3>2
  <2> HIDE DEF e
  <2>3. v \in Seq(Nat) /\ Len(v) = m + 1 /\ \A i \in 1 .. m + 1 : v[i] = e[2 * i - 1] * 256 + e[2 * i]
    <3>1. m + 1 \in Nat /\ WordsOf(e, m + 1, v)
      BY <1>1, <2>2, WordsIs
    <3> HIDE DEF v
    <3> QED BY <3>1 DEF WordsOf
  <2>4. o \in Nat
    <3>1. l \in 1 .. l
      BY <1>1, <1>4
    <3>2. d[l] \in Nat
      BY <3>1, ByteIs
    <3> QED BY <3>2
  <2> HIDE DEF v, w, o
  <2>5. r \in Seq(Nat) /\ Len(r) = m + 1 /\ (\A i \in 1 .. m : r[i] = w[i]) /\ r[m + 1] = o
    BY <1>1, <1>2, <2>4
  <2> HIDE DEF r
  <2>6. ASSUME NEW i \in 1 .. m + 1 PROVE v[i] = r[i]
    <3>1. CASE i \in 1 .. m
      <4>1. 2 * i - 1 \in 1 .. l /\ 2 * i \in 1 .. l
        BY <1>1, <1>4, <3>1
      <4>2. e[2 * i - 1] = d[2 * i - 1] /\ e[2 * i] = d[2 * i]
        BY <2>2, <4>1
      <4>3. v[i] = e[2 * i - 1] * 256 + e[2 * i]
        BY <2>3
      <4>4. w[i] = d[2 * i - 1] * 256 + d[2 * i]
        BY <1>2, <3>1
      <4>5. r[i] = w[i]
        BY <2>5, <3>1
      <4> QED BY <4>2, <4>3, <4>4, <4>5
    <3>2. CASE i = m + 1
      <4>1. 2 * i - 1 = l /\ 2 * i = l + 1 /\ l \in 1 .. l
        BY <1>1, <1>4, <3>2
      <4>2. e[2 * i - 1] = d[l] /\ e[2 * i] = 0
        BY <2>2, <4>1
      <4>3. v[i] = d[l] * 256 + 0
        BY <2>3, <4>2
      <4>4. v[i] = d[l] * 256
        BY <2>4, <4>3 DEF o
      <4>5. r[i] = o
        BY <2>5, <3>2
      <4> QED BY <4>4, <4>5 DEF o
    <3> QED BY <1>1, <3>1, <3>2
  <2>7. v = r
    BY <2>3, <2>5, <2>6, SameSeq
  <2>8. l % 2 = 1
    BY <1>1, <1>4
  <2> QED BY <1>2, <2>1, <2>3, <2>4, <2>7, <2>8 DEF v, w, o, r
<1> QED BY <1>1, <1>3, <1>4

\* r is the part of s from m to n.
Part(A, s, m, n, r) ==
  r \in Seq(A) /\ Len(r) = n - m + 1 /\ \A i \in 1 .. n - m + 1 : r[i] = s[m + i - 1]

LEMMA SubSeqIs ==
  ASSUME NEW A, NEW s \in Seq(A), NEW m \in Nat \ {0}, NEW n \in Nat, m <= n + 1, n <= Len(s)
  PROVE  Part(A, s, m, n, SubSeq(s, m, n))
<1> DEFINE r == SubSeq(s, m, n)
<1>1. r \in Seq(A) /\ Len(r) = n - m + 1 /\ \A i \in 1 .. n - m + 1 : r[i] = s[m + i - 1]
  OBVIOUS
<1> HIDE DEF r
<1>2. Part(A, s, m, n, r)
  BY <1>1 DEF Part
<1> QED BY <1>2 DEF r

\* A pair is two sequences of one element.
LEMMA PairIs ==
  ASSUME NEW t \in Nat, NEW x \in Nat
  PROVE  <<t>> \o <<x>> = <<t, x>>
<1> DEFINE u == <<t>>
           v == <<x>>
           r == u \o v
           z == <<t, x>>
<1>1. u \in Seq(Nat) /\ Len(u) = 1 /\ u[1] = t /\ v \in Seq(Nat) /\ Len(v) = 1 /\ v[1] = x
  OBVIOUS
<1>2. z \in Seq(Nat) /\ Len(z) = 2 /\ z[1] = t /\ z[2] = x
  OBVIOUS
<1> HIDE DEF u, v, z
<1>3. Joins(Nat, u, v, r)
  BY <1>1, ConcatIs
<1> HIDE DEF r
<1>4. r \in Seq(Nat) /\ Len(r) = 2 /\ (\A j \in 1 .. 1 : r[j] = u[j]) /\ \A j \in 2 .. 2 : r[j] = v[j - 1]
  BY <1>1, <1>3 DEF Joins
<1>5. r[1] = t /\ r[2] = x
  BY <1>1, <1>4
<1>6. \A i \in 1 .. Len(r) : r[i] = z[i]
  BY <1>2, <1>4, <1>5
<1>7. r = z
  BY <1>2, <1>4, <1>6, SameSeq
<1> QED BY <1>7 DEF r, z, u, v

LEMMA ConcatAssociates ==
  ASSUME NEW A, NEW a \in Seq(A), NEW b \in Seq(A), NEW c \in Seq(A)
  PROVE  a \o (b \o c) = (a \o b) \o c
<1> DEFINE k == Len(a)
           l == Len(b)
           m == Len(c)
           s == b \o c
           r == a \o s
           t == (a \o b) \o c
<1>1. k \in Nat /\ l \in Nat /\ m \in Nat
  OBVIOUS
<1>2. Joins(A, b, c, s) /\ Joins3(A, a, b, c, t)
  BY ConcatIs, ConcatIs3
<1> HIDE DEF s, t
<1>3. s \in Seq(A)
  BY <1>2 DEF Joins
<1>4. Joins(A, a, s, r)
  BY <1>3, ConcatIs
<1> HIDE DEF r
<1>5. /\ Len(s) = l + m /\ (\A j \in 1 .. l : s[j] = b[j])
      /\ \A j \in l + 1 .. l + m : s[j] = c[j - l]
  BY <1>2 DEF Joins
<1>6. /\ r \in Seq(A) /\ Len(r) = k + l + m /\ (\A j \in 1 .. k : r[j] = a[j])
      /\ \A j \in k + 1 .. k + l + m : r[j] = s[j - k]
  BY <1>1, <1>4, <1>5 DEF Joins
<1>7. /\ t \in Seq(A) /\ Len(t) = k + l + m /\ (\A j \in 1 .. k : t[j] = a[j])
      /\ (\A j \in 1 .. l : t[k + j] = b[j]) /\ \A j \in 1 .. m : t[k + l + j] = c[j]
  BY <1>2 DEF Joins3
<1> HIDE DEF k, l, m
<1>8. ASSUME NEW j \in 1 .. k + l + m PROVE r[j] = t[j]
  <2>1. CASE j <= k
    BY <1>1, <1>6, <1>7, <2>1
  <2>2. CASE k < j /\ j <= k + l
    <3> DEFINE i == j - k
    <3>1. i \in 1 .. l /\ j = k + i /\ j \in k + 1 .. k + l + m
      BY <1>1, <2>2
    <3>2. r[j] = s[i]
      BY <1>6, <3>1
    <3> HIDE DEF i
    <3> QED BY <1>5, <1>7, <3>1, <3>2
  <2>3. CASE k + l < j
    <3> DEFINE i == j - (k + l)
    <3>1. /\ i \in 1 .. m /\ j = k + l + i /\ j \in k + 1 .. k + l + m
          /\ j - k \in l + 1 .. l + m /\ (j - k) - l = i
      BY <1>1, <2>3
    <3>2. r[j] = s[j - k]
      BY <1>6, <3>1
    <3>3. s[j - k] = c[(j - k) - l]
      BY <1>5, <3>1
    <3> HIDE DEF i
    <3>4. t[j] = c[i]
      BY <1>7, <3>1
    <3> QED BY <3>1, <3>2, <3>3, <3>4
  <2> QED BY <1>1, <2>1, <2>2, <2>3
<1>9. r = t
  BY <1>6, <1>7, <1>8, SameSeq
<1> QED BY <1>9 DEF r, s, t

\* The addresses are the same whatever the checksum, and so is the protocol.
AddressesAre(p, ip) ==
  SubSeq(ip, 13, 20) = p.src_ip \o p.dst_ip /\ ip[10] = Ipv4Start(p)[10] /\ ip[10] \in Byte
LEMMA Ipv4Addresses ==
  ASSUME NEW p \in PacketType, NEW c \in Word16, NEW ip, Ipv4Is(p, c, ip)
  PROVE  AddressesAre(p, ip)
<1> DEFINE e == p.src_ip \o p.dst_ip
           r == SubSeq(ip, 13, 20)
<1>1. p.src_ip \in Seq(Byte) /\ Len(p.src_ip) = 4 /\ p.dst_ip \in Seq(Byte) /\ Len(p.dst_ip) = 4
  BY PacketIs
<1>2. Joins(Byte, p.src_ip, p.dst_ip, e)
  BY <1>1, ConcatIs
<1> HIDE DEF e
<1>3. e \in Seq(Byte) /\ Len(e) = 8
  BY <1>1, <1>2 DEF Joins
<1>4. /\ ip \in Seq(Byte) /\ Len(ip) = 20 /\ (\A j \in 1 .. 10 : ip[j] = Ipv4Start(p)[j])
      /\ \A j \in 13 .. 20 : ip[j] = e[j - 12]
  BY DEF Ipv4Is, e
<1>5. r \in Seq(Byte) /\ Len(r) = 8 /\ \A i \in 1 .. 8 : r[i] = ip[i + 12]
  <2>1. 13 \in Nat \ {0} /\ 20 \in Nat /\ 13 <= 20 + 1 /\ 20 <= Len(ip)
    BY <1>4
  <2>2. Part(Byte, ip, 13, 20, r)
    BY <1>4, <2>1, SubSeqIs
  <2> HIDE DEF r
  <2>3. r \in Seq(Byte) /\ Len(r) = 8 /\ \A i \in 1 .. 8 : r[i] = ip[13 + i - 1]
    BY <2>2 DEF Part
  <2>4. \A i \in 1 .. 8 : 13 + i - 1 = i + 12
    OBVIOUS
  <2> QED BY <2>3, <2>4
<1> HIDE DEF r
<1>6. ASSUME NEW i \in 1 .. 8 PROVE r[i] = e[i]
  <2>1. i + 12 \in 13 .. 20 /\ (i + 12) - 12 = i
    OBVIOUS
  <2>2. ip[i + 12] = e[(i + 12) - 12]
    BY <1>4, <2>1
  <2> QED BY <1>5, <2>1, <2>2
<1>7. r = e
  BY <1>3, <1>5, <1>6, SameSeq
<1>8. ip[10] = Ipv4Start(p)[10] /\ ip[10] \in Byte
  <2>1. 10 \in 1 .. 10 /\ 10 \in 1 .. Len(ip) /\ ip \in Seq(Byte)
    BY <1>4
  <2>2. ip[10] \in Byte
    BY <2>1
  <2> QED BY <1>4, <2>1, <2>2
<1> QED BY <1>7, <1>8 DEF r, e, AddressesAre

\* Two bytes are one word.
LEMMA OneWord ==
  ASSUME NEW b \in Seq(Byte), Len(b) = 2
  PROVE  Words(b) = <<b[1] * 256 + b[2]>>
<1>1. 1 \in Nat /\ Len(b) \in {2 * 1, 2 * 1 + 1}
  OBVIOUS
<1>2. WordsOf(b, 1, Words(b))
  BY <1>1, WordsIs
<1> DEFINE r == Words(b)
           x == b[1] * 256 + b[2]
<1> HIDE DEF r
<1>3. r \in Seq(Nat) /\ Len(r) = 1 /\ r[1] = b[2 * 1 - 1] * 256 + b[2 * 1]
  BY <1>2 DEF WordsOf, r
<1>4. r[1] = x
  BY <1>3
<1> HIDE DEF x
<1>5. r = <<x>>
  BY <1>3, <1>4
<1> QED BY <1>5 DEF r, x

\* The words of the pseudo header r, as both sides see them.
PseudoAre(e, t, x, r) ==
  /\ Words(r) = Words(e) \o <<t, x>> /\ r \in Seq(Byte) /\ Len(r) = 12
  /\ Words(e) \o <<t, x>> \in Seq(Nat) /\ Len(Words(e) \o <<t, x>>) = 6
LEMMA PseudoWords ==
  ASSUME NEW e \in Seq(Byte), Len(e) = 8, NEW t \in Byte, NEW b \in Seq(Byte), Len(b) = 2,
         NEW x, x = b[1] * 256 + b[2]
  PROVE  PseudoAre(e, t, x, (e \o <<0, t>>) \o b)
<1> DEFINE z == <<0, t>>
           f == e \o z
           w == Words(e)
<1>1. z \in Seq(Byte) /\ Len(z) = 2 /\ z[1] * 256 + z[2] = t /\ t \in Nat
  BY ByteIs
<1>2. Words(z) = <<t>>
  <2>1. Words(z) = <<z[1] * 256 + z[2]>>
    <3> HIDE DEF z
    <3> QED BY <1>1, OneWord
  <2> QED BY <1>1, <2>1
<1>3. Words(b) = <<x>>
  BY OneWord
<1>4. x \in Nat
  <2>1. b[1] \in Nat /\ b[2] \in Nat
    <3>1. b[1] \in Byte /\ b[2] \in Byte
      <4>1. 1 \in 1 .. Len(b) /\ 2 \in 1 .. Len(b)
        OBVIOUS
      <4> QED BY <4>1, ByteAt
    <3> QED BY <3>1 DEF Byte
  <2> QED BY <2>1
<1> HIDE DEF z
<1>5. Joins(Byte, e, z, f)
  BY <1>1, ConcatIs
<1>6. Words(f) = w \o <<t>>
  <2>1. 4 \in Nat /\ Len(e) = 2 * 4
    OBVIOUS
  <2>2. Words(e \o z) = Words(e) \o Words(z)
    BY <1>1, <2>1, WordsCat
  <2> QED BY <1>2, <2>2
<1> HIDE DEF f
<1>7. f \in Seq(Byte) /\ Len(f) = 10
  BY <1>1, <1>5 DEF Joins
<1>8. Words(f \o b) = (w \o <<t>>) \o <<x>>
  <2>1. 5 \in Nat /\ Len(f) = 2 * 5
    BY <1>7
  <2>2. Words(f \o b) = Words(f) \o Words(b)
    BY <1>7, <2>1, WordsCat
  <2> QED BY <1>3, <1>6, <2>2
<1>9. w \in Seq(Nat) /\ Len(w) = 4
  <2>1. 4 \in Nat /\ Len(e) \in {2 * 4, 2 * 4 + 1}
    OBVIOUS
  <2>2. WordsOf(e, 4, w)
    BY <2>1, WordsIs
  <2> HIDE DEF w
  <2> QED BY <2>2 DEF WordsOf
<1> HIDE DEF w
<1>10. (w \o <<t>>) \o <<x>> = w \o <<t, x>>
  <2>1. <<t>> \in Seq(Nat) /\ <<x>> \in Seq(Nat)
    BY <1>1, <1>4
  <2>3. <<t>> \o <<x>> = <<t, x>>
    BY <1>1, <1>4, PairIs
  <2>2. w \o (<<t>> \o <<x>>) = (w \o <<t>>) \o <<x>>
    BY <1>9, <2>1, ConcatAssociates
  <2> QED BY <2>2, <2>3
<1>11. w \o <<t, x>> \in Seq(Nat) /\ Len(w \o <<t, x>>) = 6
  <2> DEFINE z2 == <<t, x>>
  <2>1. z2 \in Seq(Nat) /\ Len(z2) = 2
    BY <1>1, <1>4
  <2> HIDE DEF z2
  <2>2. Joins(Nat, w, z2, w \o z2)
    BY <1>9, <2>1, ConcatIs
  <2>3. w \o z2 \in Seq(Nat) /\ Len(w \o z2) = 6
    BY <1>9, <2>1, <2>2 DEF Joins
  <2> QED BY <2>3 DEF z2
<1>12. f \o b \in Seq(Byte) /\ Len(f \o b) = 12
  <2>1. Joins(Byte, f, b, f \o b)
    BY <1>7, ConcatIs
  <2> QED BY <1>7, <2>1 DEF Joins
<1> DEFINE r == f \o b
<1>13. Words(r) = w \o <<t, x>> /\ r \in Seq(Byte) /\ Len(r) = 12
  BY <1>8, <1>10, <1>12
<1> HIDE DEF r
<1>14. PseudoAre(e, t, x, r)
  BY <1>11, <1>13 DEF PseudoAre, w
<1> QED BY <1>14 DEF r, f, z

LEMMA WordsRegroup ==
  ASSUME NEW y \in Seq(Nat), NEW a \in Seq(Nat), NEW b \in Seq(Nat)
  PROVE  (y \o a) \o b = y \o (a \o b)
<1>1. y \o (a \o b) = (y \o a) \o b
  BY ConcatAssociates
<1> QED BY <1>1

\* The words that calc_udp_cs() adds.
UdpSum(ip, udp, d) ==
  ((((Words(SubSeq(ip, 13, 20)) \o <<ip[10], Words(udp)[3]>>) \o Words(udp))
      \o Words(SubSeq(d, 1, Words(udp)[3] - 8)))
      \o IF Words(udp)[3] % 2 = 1 THEN <<d[Words(udp)[3] - 8] * 256>> ELSE <<>>)
LEMMA UdpSums ==
  ASSUME NEW ip, NEW udp, NEW d
  PROVE  calc_udp_cs(ip, udp, d) = IF Folded[Total(UdpSum(ip, udp, d))] = 65535 THEN Folded[Total(UdpSum(ip, udp, d))]
                                   ELSE Complement(Folded[Total(UdpSum(ip, udp, d))])
BY SMT DEF calc_udp_cs, UdpSum

\* The checksum of UDP, over the pseudo header, the header and the payload.
LEMMA UdpVerifies ==
  ASSUME NEW p \in PacketType, NEW c4 \in Word16, NEW ip0, Ipv4Is(p, 0, ip0), NEW ip, Ipv4Is(p, c4, ip),
         NEW c, c = calc_udp_cs(ip0, UdpHeader(p, 0), p.data),
         NEW udp, udp = UdpHeader(p, c),
         NEW pseudo, pseudo = (SubSeq(ip, 13, 20) \o <<0, ip[10]>>) \o SubSeq(udp, 5, 6)
  PROVE  /\ c \in Word16 /\ c # 0
         /\ Verifies(Words((pseudo \o udp) \o Padded(p.data)))
<1> DEFINE d == p.data
           l == Len(d)
           e == p.src_ip \o p.dst_ip
           t == ip[10]
           x == l + 8
           udp0 == UdpHeader(p, 0)
           u0 == Words(udp0)
           u == Words(udp)
           N == Words(e) \o <<t, x>>
           w == Words(Padded(d))
           w0 == Words(d)
           o == IF l % 2 = 1 THEN <<d[l] * 256>> ELSE <<>>
           S == (N \o u0) \o w
           R == (N \o u) \o w
<1>1. d \in Seq(Byte) /\ l \in Nat /\ 0 \in Word16
  BY PacketIs DEF Word16
<1>2. /\ SubSeq(ip, 13, 20) = e /\ SubSeq(ip0, 13, 20) = e /\ ip0[10] = t /\ t \in Byte
  <2>1. AddressesAre(p, ip) /\ AddressesAre(p, ip0)
    <3> HIDE DEF d, l, e, t, x, udp0, u0, u, N, w, w0, o, S, R
    <3> QED BY <1>1, Ipv4Addresses
  <2> QED BY <2>1 DEF AddressesAre
<1>3. UdpIs(p, 0, udp0)
  BY <1>1, UdpHeaderIs
<1> HIDE DEF udp0
<1>4. /\ udp0 \in Seq(Byte) /\ Len(udp0) = 8 /\ udp0[5] * 256 + udp0[6] = x /\ udp0[7] * 256 + udp0[8] = 0
      /\ \A j \in 1 .. 6 : udp0[j] = UdpStart(p)[j]
  BY <1>3 DEF UdpIs
<1>5. u0 \in Seq(Nat) /\ Len(u0) = 4 /\ \A i \in 1 .. 4 : u0[i] = udp0[2 * i - 1] * 256 + udp0[2 * i]
  <2>1. 4 \in Nat /\ Len(udp0) \in {2 * 4, 2 * 4 + 1}
    BY <1>4
  <2>2. WordsOf(udp0, 4, u0)
    BY <1>4, <2>1, WordsIs
  <2> HIDE DEF u0
  <2> QED BY <2>2 DEF WordsOf
<1> HIDE DEF u0
<1>6. u0[3] = x /\ u0[4] = 0
  BY <1>4, <1>5
<1>7. e \in Seq(Byte) /\ Len(e) = 8
  <2>1. p.src_ip \in Seq(Byte) /\ Len(p.src_ip) = 4 /\ p.dst_ip \in Seq(Byte) /\ Len(p.dst_ip) = 4
    BY PacketIs
  <2>2. Joins(Byte, p.src_ip, p.dst_ip, e)
    BY <2>1, ConcatIs
  <2> HIDE DEF e
  <2> QED BY <2>1, <2>2 DEF Joins
<1> HIDE DEF e
<1>8. w \in Seq(Nat) /\ w0 \in Seq(Nat) /\ w = w0 \o o /\ o \in Seq(Nat)
  <2>1. /\ w \in Seq(Nat) /\ w0 \in Seq(Nat) /\ w = w0 \o o
        /\ l % 2 = 1 => d[l] * 256 \in Nat
    BY <1>1, PaddedWords
  <2>2. o \in Seq(Nat)
    <3>1. CASE l % 2 = 1
      <4> DEFINE y == d[l] * 256
      <4>1. y \in Nat /\ o = <<y>>
        BY <2>1, <3>1
      <4> HIDE DEF y
      <4>2. <<y>> \in Seq(Nat)
        BY <4>1
      <4> HIDE DEF o
      <4> QED BY <4>1, <4>2
    <3>2. CASE l % 2 # 1
      BY <3>2
    <3> QED BY <3>1, <3>2
  <2> QED BY <2>1, <2>2
<1>9. x - 8 = l /\ SubSeq(d, 1, x - 8) = d /\ (x % 2 = 1 <=> l % 2 = 1)
  <2>1. x - 8 = l /\ (x % 2 = 1 <=> l % 2 = 1)
    <3> DEFINE k == l
    <3>1. k \in Nat /\ x = k + 8
      BY <1>1
    <3> HIDE DEF k, x
    <3>2. x - 8 = k /\ (x % 2 = 1 <=> k % 2 = 1)
      BY <3>1
    <3> QED BY <3>2 DEF k
  <2>2. SubSeq(d, 1, l) = d
    <3> HIDE DEF d
    <3> QED BY <1>1
  <2> QED BY <2>1, <2>2
<1> DEFINE pre == Words(SubSeq(ip0, 13, 20)) \o <<ip0[10], u0[3]>>
           even == Words(SubSeq(d, 1, u0[3] - 8))
           odd == IF u0[3] % 2 = 1 THEN <<d[u0[3] - 8] * 256>> ELSE <<>>
           sum == ((pre \o u0) \o even) \o odd
<1>10. c = IF Folded[Total(sum)] = 65535 THEN Folded[Total(sum)] ELSE Complement(Folded[Total(sum)])
  <2> DEFINE z == UdpSum(ip0, udp0, d)
  <2>1. c = IF Folded[Total(z)] = 65535 THEN Folded[Total(z)] ELSE Complement(Folded[Total(z)])
    BY UdpSums DEF udp0
  <2>2. z = sum
    BY DEF UdpSum, u0
  <2> HIDE DEF z, sum
  <2> QED BY <2>1, <2>2
<1>11. pre = N /\ even = w0 /\ odd = o
  BY <1>2, <1>6, <1>9
<1> HIDE DEF pre, even, odd
<1>12. N \in Seq(Nat) /\ Len(N) = 6
  <2>1. udp0[5] * 256 + udp0[6] = x
    BY <1>4
  <2> DEFINE b == SubSeq(udp0, 5, 6)
  <2>2. b \in Seq(Byte) /\ Len(b) = 2 /\ b[1] * 256 + b[2] = x
    <3>1. 5 \in Nat \ {0} /\ 6 \in Nat /\ 5 <= 6 + 1 /\ 6 <= Len(udp0)
      BY <1>4
    <3>2. Part(Byte, udp0, 5, 6, b)
      BY <1>4, <3>1, SubSeqIs
    <3> HIDE DEF b
    <3>3. b \in Seq(Byte) /\ Len(b) = 2 /\ \A i \in 1 .. 2 : b[i] = udp0[5 + i - 1]
      BY <3>2 DEF Part
    <3>4. b[1] = udp0[5] /\ b[2] = udp0[6]
      BY <3>3
    <3> QED BY <2>1, <3>3, <3>4
  <2> HIDE DEF b, x, t
  <2>3. PseudoAre(e, t, x, (e \o <<0, t>>) \o b)
    BY <1>2, <1>7, <2>2, PseudoWords
  <2> QED BY <2>3 DEF PseudoAre
<1> HIDE DEF N, w0, o
<1>13. sum = S
  <2> DEFINE y == N \o u0
  <2>1. Joins(Nat, N, u0, y)
    BY <1>5, <1>12, ConcatIs
  <2>2. sum = (y \o w0) \o o
    BY <1>11
  <2> HIDE DEF y
  <2>3. y \in Seq(Nat)
    BY <2>1 DEF Joins
  <2>5. w0 \in Seq(Nat) /\ o \in Seq(Nat)
    BY <1>8
  <2>4. y \o (w0 \o o) = (y \o w0) \o o
    <3> HIDE DEF d, l, e, t, x, u
    <3> QED BY <2>3, <2>5, WordsRegroup
  <2> QED BY <1>8, <2>2, <2>4 DEF y
<1> HIDE DEF sum
<1>14. Joins3(Nat, N, u0, w, S)
  <2> HIDE DEF w
  <2> QED BY <1>5, <1>8, <1>12, ConcatIs3
<1> HIDE DEF w, S
<1>15. S \in Seq(Nat) /\ Total(S) \in Nat
  BY <1>14, TotalType DEF Joins3
<1> DEFINE s == Total(S)
<1> HIDE DEF s
<1>16. c = IF Folded[s] = 65535 THEN 65535 ELSE Complement(Folded[s])
  BY <1>10, <1>13 DEF s
<1>17. c \in Word16 /\ c # 0 /\ Folded[s + c] = 65535
  <2>1. s \in Nat
    BY <1>15 DEF s
  <2> QED BY <1>16, <2>1, ComplementVerifies
<1>18. UdpIs(p, c, udp)
  BY <1>17, UdpHeaderIs
<1>19. /\ udp \in Seq(Byte) /\ Len(udp) = 8 /\ udp[5] * 256 + udp[6] = x /\ udp[7] * 256 + udp[8] = c
       /\ \A j \in 1 .. 6 : udp[j] = UdpStart(p)[j]
  BY <1>18 DEF UdpIs
<1>20. u \in Seq(Nat) /\ Len(u) = 4 /\ \A i \in 1 .. 4 : u[i] = udp[2 * i - 1] * 256 + udp[2 * i]
  <2>1. 4 \in Nat /\ Len(udp) \in {2 * 4, 2 * 4 + 1}
    BY <1>19
  <2>2. WordsOf(udp, 4, u)
    BY <1>19, <2>1, WordsIs
  <2> HIDE DEF u
  <2> QED BY <2>2 DEF WordsOf
<1> HIDE DEF u
<1>21. ASSUME NEW i \in 1 .. 4, i # 4 PROVE u[i] = u0[i]
  <2>1. 2 * i - 1 \in 1 .. 6 /\ 2 * i \in 1 .. 6
    BY <1>21
  <2>2. udp[2 * i - 1] = udp0[2 * i - 1] /\ udp[2 * i] = udp0[2 * i]
    BY <1>4, <1>19, <2>1
  <2>3. u0[i] = udp0[2 * i - 1] * 256 + udp0[2 * i]
    BY <1>5
  <2>4. u[i] = udp[2 * i - 1] * 256 + udp[2 * i]
    BY <1>20
  <2> QED BY <2>2, <2>3, <2>4
<1>22. u[4] = c
  BY <1>19, <1>20
<1>23. Words(pseudo) = N /\ pseudo \in Seq(Byte) /\ Len(pseudo) = 12
  <2> DEFINE b == SubSeq(udp, 5, 6)
  <2>1. b \in Seq(Byte) /\ Len(b) = 2 /\ b[1] * 256 + b[2] = x
    <3>0. Len(udp) = 8
      BY <1>19
    <3>1. 5 \in Nat \ {0} /\ 6 \in Nat /\ 5 <= 6 + 1 /\ 6 <= Len(udp)
      BY <3>0
    <3>2. Part(Byte, udp, 5, 6, b)
      BY <1>19, <3>1, SubSeqIs
    <3> HIDE DEF b
    <3>3. b \in Seq(Byte) /\ Len(b) = 2 /\ \A i \in 1 .. 2 : b[i] = udp[5 + i - 1]
      BY <3>2 DEF Part
    <3>4. b[1] = udp[5] /\ b[2] = udp[6]
      BY <3>3
    <3> QED BY <1>19, <3>3, <3>4
  <2>2. pseudo = (e \o <<0, t>>) \o b
    BY <1>2
  <2> HIDE DEF b, x, t
  <2>3. PseudoAre(e, t, x, (e \o <<0, t>>) \o b)
    BY <1>2, <1>7, <2>1, PseudoWords
  <2>4. PseudoAre(e, t, x, pseudo)
    BY <2>2, <2>3
  <2> QED BY <2>4 DEF PseudoAre, N
<1>24. Words((pseudo \o udp) \o Padded(d)) = R
  <2> DEFINE y == pseudo \o udp
  <2>1. Joins(Byte, pseudo, udp, y)
    BY <1>19, <1>23, ConcatIs
  <2>2. 6 \in Nat /\ Len(pseudo) = 2 * 6
    BY <1>23
  <2>3. Words(pseudo \o udp) = Words(pseudo) \o Words(udp)
    BY <1>19, <1>23, <2>2, WordsCat
  <2>4. Words(y) = N \o u
    BY <1>23, <2>3 DEF u
  <2> HIDE DEF y
  <2>5. y \in Seq(Byte) /\ Len(y) = 2 * 10 /\ 10 \in Nat
    BY <1>19, <1>23, <2>1 DEF Joins
  <2>6. Padded(d) \in Seq(Byte)
    <3>1. 0 \in Byte
      BY ByteIs
    <3> HIDE DEF d
    <3> QED BY <1>1, <3>1 DEF Padded
  <2>7. Words(y \o Padded(d)) = Words(y) \o Words(Padded(d))
    BY <2>5, <2>6, WordsCat
  <2> QED BY <2>4, <2>7 DEF w, y
<1>25. Joins3(Nat, N, u, w, R)
  BY <1>8, <1>12, <1>20, ConcatIs3
<1> HIDE DEF R
<1>26. c \in Nat
  BY <1>17 DEF Word16
<1>27. OneMore(S, R, 10, c)
  <2> DEFINE m == Len(w)
  <2>1. m \in Nat
    BY <1>8
  <2> HIDE DEF m
  <2>2. /\ S \in Seq(Nat) /\ Len(S) = 10 + m
        /\ (\A j \in 1 .. 6 : S[j] = N[j]) /\ (\A j \in 1 .. 4 : S[6 + j] = u0[j])
        /\ \A j \in 1 .. m : S[10 + j] = w[j]
    <3>1. /\ S \in Seq(Nat) /\ Len(S) = 6 + 4 + m
          /\ (\A j \in 1 .. 6 : S[j] = N[j]) /\ (\A j \in 1 .. 4 : S[6 + j] = u0[j])
          /\ \A j \in 1 .. m : S[6 + 4 + j] = w[j]
      BY <1>5, <1>12, <1>14 DEF Joins3, m
    <3> QED BY <2>1, <3>1
  <2>3. /\ R \in Seq(Nat) /\ Len(R) = 10 + m
        /\ (\A j \in 1 .. 6 : R[j] = N[j]) /\ (\A j \in 1 .. 4 : R[6 + j] = u[j])
        /\ \A j \in 1 .. m : R[10 + j] = w[j]
    <3>1. /\ R \in Seq(Nat) /\ Len(R) = 6 + 4 + m
          /\ (\A j \in 1 .. 6 : R[j] = N[j]) /\ (\A j \in 1 .. 4 : R[6 + j] = u[j])
          /\ \A j \in 1 .. m : R[6 + 4 + j] = w[j]
      BY <1>12, <1>20, <1>25 DEF Joins3, m
    <3> QED BY <2>1, <3>1
  <2>4. R[10] = S[10] + c
    <3>1. S[6 + 4] = u0[4] /\ R[6 + 4] = u[4]
      BY <2>2, <2>3
    <3>2. S[10] = 0 /\ R[10] = c
      BY <1>6, <1>22, <3>1
    <3> QED BY <1>26, <3>2
  <2>5. ASSUME NEW i \in 1 .. 10 + m, i # 10 PROVE R[i] = S[i]
    <3>1. CASE i <= 6
      <4> i \in 1 .. 6
        BY <2>1, <3>1
      <4> QED BY <2>2, <2>3
    <3>2. CASE 6 < i /\ i <= 10
      <4> DEFINE j == i - 6
      <4>1. j \in 1 .. 4 /\ j # 4 /\ 6 + j = i
        BY <2>1, <2>5, <3>2
      <4>2. S[6 + j] = u0[j] /\ R[6 + j] = u[j] /\ u[j] = u0[j]
        BY <1>21, <2>2, <2>3, <4>1
      <4> QED BY <4>1, <4>2
    <3>3. CASE 10 < i
      <4> DEFINE j == i - 10
      <4>1. j \in 1 .. m /\ 10 + j = i
        BY <2>1, <3>3
      <4>2. S[10 + j] = w[j] /\ R[10 + j] = w[j]
        BY <2>2, <2>3, <4>1
      <4> QED BY <4>1, <4>2
    <3> QED BY <2>1, <3>1, <3>2, <3>3
  <2>6. 10 \in 1 .. Len(S) /\ Len(S) = Len(R) /\ \A i \in 1 .. Len(S) : i # 10 => R[i] = S[i]
    BY <2>1, <2>2, <2>3, <2>5
  <2> QED BY <1>26, <2>2, <2>3, <2>4, <2>6 DEF OneMore
<1>28. Folded[Total(R)] = 65535
  BY <1>17, <1>27, TotalOneMore DEF s
<1> QED BY <1>17, <1>24, <1>28 DEF Verifies, d

-----------------------------------------------------------------------------
(* Packets: the frame *)

\* The part of a sequence is the middle one of three.
LEMMA MiddleIs ==
  ASSUME NEW A, NEW a \in Seq(A), NEW b \in Seq(A), NEW c \in Seq(A), NEW r, Joins3(A, a, b, c, r)
  PROVE  /\ SubSeq(r, Len(a) + 1, Len(a) + Len(b)) = b
         /\ SubSeq(r, Len(a) + Len(b) + 1, Len(a) + Len(b) + Len(c)) = c
<1> DEFINE k == Len(a)
           l == Len(b)
           m == Len(c)
           s == SubSeq(r, k + 1, k + l)
           t == SubSeq(r, k + l + 1, k + l + m)
<1>1. k \in Nat /\ l \in Nat /\ m \in Nat
  OBVIOUS
<1>2. /\ r \in Seq(A) /\ Len(r) = k + l + m
      /\ (\A j \in 1 .. l : r[k + j] = b[j]) /\ \A j \in 1 .. m : r[k + l + j] = c[j]
  BY DEF Joins3
<1>3. l = Len(b) /\ m = Len(c)
  OBVIOUS
<1> HIDE DEF k, l, m
<1>4. Part(A, r, k + 1, k + l, s)
  <2>1. k + 1 \in Nat \ {0} /\ k + l \in Nat /\ k + 1 <= (k + l) + 1 /\ k + l <= Len(r)
    BY <1>1, <1>2
  <2> QED BY <1>2, <2>1, SubSeqIs
<1>5. Part(A, r, k + l + 1, k + l + m, t)
  <2>1. k + l + 1 \in Nat \ {0} /\ k + l + m \in Nat /\ k + l + 1 <= (k + l + m) + 1 /\ k + l + m <= Len(r)
    BY <1>1, <1>2
  <2> QED BY <1>2, <2>1, SubSeqIs
<1> HIDE DEF s, t
<1>6. s = b
  <2>1. s \in Seq(A) /\ Len(s) = (k + l) - (k + 1) + 1 /\ \A i \in 1 .. (k + l) - (k + 1) + 1 : s[i] = r[(k + 1) + i - 1]
    BY <1>4 DEF Part
  <2>2. Len(s) = l /\ (k + l) - (k + 1) + 1 = l
    BY <1>1, <2>1
  <2>3. ASSUME NEW i \in 1 .. l PROVE s[i] = b[i]
    <3>1. (k + 1) + i - 1 = k + i
      BY <1>1
    <3>2. s[i] = r[(k + 1) + i - 1]
      BY <2>1, <2>2
    <3>3. r[k + i] = b[i]
      BY <1>2
    <3> QED BY <3>1, <3>2, <3>3
  <2> QED BY <1>3, <2>1, <2>2, <2>3, SameSeq
<1>7. t = c
  <2>1. /\ t \in Seq(A) /\ Len(t) = (k + l + m) - (k + l + 1) + 1
        /\ \A i \in 1 .. (k + l + m) - (k + l + 1) + 1 : t[i] = r[(k + l + 1) + i - 1]
    BY <1>5 DEF Part
  <2>2. Len(t) = m /\ (k + l + m) - (k + l + 1) + 1 = m
    BY <1>1, <2>1
  <2>3. ASSUME NEW i \in 1 .. m PROVE t[i] = c[i]
    <3>1. (k + l + 1) + i - 1 = k + l + i
      BY <1>1
    <3>2. t[i] = r[(k + l + 1) + i - 1]
      BY <2>1, <2>2
    <3>3. r[k + l + i] = c[i]
      BY <1>2
    <3> QED BY <3>1, <3>2, <3>3
  <2> QED BY <1>3, <2>1, <2>2, <2>3, SameSeq
<1> QED BY <1>6, <1>7 DEF s, t, k, l, m

\* Where the headers of IPv4 and of UDP are in the frame.
FrameHas(at, a, b, hdr) ==
  /\ Len(hdr) = at + 28
  /\ SubSeq(hdr, at + 1, at + 20) = a
  /\ SubSeq(hdr, at + 21, at + 28) = b

LEMMA VlanIs ==
  ASSUME NEW p \in PacketType
  PROVE  VlanHeader(p) \in Seq(Byte)
<1> DEFINE v == Bytes(p.vlan_id)
           z == <<129, 0>>
<1>1. v \in Seq(Byte) /\ z \in Seq(Byte)
  BY PacketIs, BytesIs, ByteIs
<1>2. VlanHeader(p) \in {z \o v, <<>>}
  BY DEF VlanHeader
<1> HIDE DEF v, z
<1>3. Joins(Byte, z, v, z \o v)
  BY <1>1, ConcatIs
<1>4. z \o v \in Seq(Byte) /\ <<>> \in Seq(Byte)
  BY <1>3 DEF Joins
<1> QED BY <1>2, <1>4

LEMMA FrameIs ==
  ASSUME NEW p \in PacketType, NEW a \in Seq(Byte), Len(a) = 20, NEW b \in Seq(Byte), Len(b) = 8
  PROVE  FrameHas(14 + Len(VlanHeader(p)), a, b,
                  ((((p.dst_mac \o p.src_mac) \o VlanHeader(p)) \o <<8, 0>>) \o a) \o b)
<1> DEFINE d == p.dst_mac
           s == p.src_mac
           v == VlanHeader(p)
           z == <<8, 0>>
           m == (d \o s) \o v
           f == m \o z
           hdr == (f \o a) \o b
           at == 14 + Len(v)
<1>1. /\ d \in Seq(Byte) /\ Len(d) = 6 /\ s \in Seq(Byte) /\ Len(s) = 6
      /\ v \in Seq(Byte) /\ Len(v) \in Nat /\ z \in Seq(Byte) /\ Len(z) = 2
  BY PacketIs, VlanIs, ByteIs
<1> HIDE DEF d, s, v, z
<1>2. Joins3(Byte, d, s, v, m)
  BY <1>1, ConcatIs3
<1> HIDE DEF m
<1>3. m \in Seq(Byte) /\ Len(m) = 12 + Len(v)
  BY <1>1, <1>2 DEF Joins3
<1>4. Joins(Byte, m, z, f)
  BY <1>1, <1>3, ConcatIs
<1> HIDE DEF f
<1>5. f \in Seq(Byte) /\ Len(f) = at
  BY <1>1, <1>3, <1>4 DEF Joins
<1>6. Joins3(Byte, f, a, b, hdr)
  BY <1>5, ConcatIs3
<1> HIDE DEF hdr
<1>7. /\ SubSeq(hdr, Len(f) + 1, Len(f) + Len(a)) = a
      /\ SubSeq(hdr, Len(f) + Len(a) + 1, Len(f) + Len(a) + Len(b)) = b
  BY <1>5, <1>6, MiddleIs
<1>8. /\ Len(f) + 1 = at + 1 /\ Len(f) + Len(a) = at + 20 /\ Len(f) + Len(a) + 1 = at + 21
      /\ Len(f) + Len(a) + Len(b) = at + 28
  BY <1>1, <1>5
<1>9. Len(hdr) = at + 28
  BY <1>6, <1>8 DEF Joins3
<1> HIDE DEF at
<1>10. FrameHas(at, a, b, hdr)
  BY <1>7, <1>8, <1>9 DEF FrameHas
<1> QED BY <1>10 DEF at, hdr, f, m, d, s, v, z

\* A receiver takes every packet that is built.
LEMMA PacketIsTaken ==
  ASSUME NEW p \in PacketType
  PROVE  ReceiverTakes(p)
<1> DEFINE ip0 == Ipv4Header(p, 0)
           c4 == calc_ipv4_cs(ip0)
           ip == Ipv4Header(p, c4)
           c == calc_udp_cs(ip0, UdpHeader(p, 0), p.data)
           udp == UdpHeader(p, c)
           pseudo == (SubSeq(ip, 13, 20) \o <<0, ip[10]>>) \o SubSeq(udp, 5, 6)
           at == 14 + Len(VlanHeader(p))
           hdr == build_pkt_hdr(p)
<1>1. c4 \in Word16 /\ 0 \in Word16 /\ Verifies(Words(ip))
  BY Ipv4Verifies DEF Word16
<1>2. hdr = ((((p.dst_mac \o p.src_mac) \o VlanHeader(p)) \o <<8, 0>>) \o ip) \o udp
  BY DEF build_pkt_hdr
<1> HIDE DEF hdr, c4
<1>3. Ipv4Is(p, 0, ip0) /\ Ipv4Is(p, c4, ip)
  BY <1>1, Ipv4HeaderIs
<1>4. /\ c \in Word16 /\ c # 0
      /\ Verifies(Words((pseudo \o udp) \o Padded(p.data)))
  <2> HIDE DEF ip0, ip
  <2> QED BY <1>1, <1>3, UdpVerifies
<1> HIDE DEF c
<1>5. UdpIs(p, c, udp)
  BY <1>4, UdpHeaderIs
<1> HIDE DEF ip, udp, ip0
<1>6. /\ ip \in Seq(Byte) /\ Len(ip) = 20 /\ ip[3] * 256 + ip[4] = Len(p.data) + 28
      /\ udp \in Seq(Byte) /\ Len(udp) = 8 /\ udp[5] * 256 + udp[6] = Len(p.data) + 8
      /\ udp[7] * 256 + udp[8] = c
  BY <1>3, <1>5 DEF Ipv4Is, UdpIs
<1>7. FrameHas(at, ip, udp, hdr)
  BY <1>2, <1>6, FrameIs
<1>8. Words(ip)[2] = Len(p.data) + 28
  <2>1. 10 \in Nat /\ Len(ip) \in {2 * 10, 2 * 10 + 1}
    BY <1>6
  <2>2. WordsOf(ip, 10, Words(ip))
    BY <1>6, <2>1, WordsIs
  <2>3. Words(ip)[2] = ip[2 * 2 - 1] * 256 + ip[2 * 2]
    BY <2>2 DEF WordsOf
  <2> QED BY <1>6, <2>3
<1>9. Words(udp)[3] = Len(p.data) + 8 /\ Words(udp)[4] = c
  <2>1. 4 \in Nat /\ Len(udp) \in {2 * 4, 2 * 4 + 1}
    BY <1>6
  <2>2. WordsOf(udp, 4, Words(udp))
    BY <1>6, <2>1, WordsIs
  <2>3. Words(udp)[3] = udp[2 * 3 - 1] * 256 + udp[2 * 3] /\ Words(udp)[4] = udp[2 * 4 - 1] * 256 + udp[2 * 4]
    BY <2>2 DEF WordsOf
  <2> QED BY <1>6, <2>3
<1>10. Len(VlanHeader(p)) \in Nat /\ Len(p.data) \in Nat
  BY VlanIs, PacketIs
<1>11. at + 28 - at + Len(p.data) = Len(p.data) + 28 /\ at \in Nat /\ 8 + Len(p.data) = Len(p.data) + 8
  BY <1>10
<1> DEFINE ip1 == SubSeq(hdr, at + 1, at + 20)
           udp1 == SubSeq(hdr, at + 21, at + 28)
           pseudo1 == (SubSeq(ip1, 13, 20) \o <<0, ip1[10]>>) \o SubSeq(udp1, 5, 6)
<1>12. Len(hdr) = at + 28 /\ ip1 = ip /\ udp1 = udp
  BY <1>7 DEF FrameHas
<1>13. pseudo1 = pseudo
  BY <1>12
<1> HIDE DEF ip1, udp1, pseudo1, pseudo, at
<1>14. /\ Len(hdr) = at + 28
       /\ Words(ip1)[2] = Len(hdr) - at + Len(p.data)
       /\ Words(udp1)[3] = 8 + Len(p.data)
       /\ Verifies(Words(ip1))
       /\ Verifies(Words((pseudo1 \o udp1) \o Padded(p.data)))
       /\ Words(udp1)[4] # 0
  <2>1. Verifies(Words((pseudo1 \o udp1) \o Padded(p.data)))
    BY <1>4, <1>12, <1>13
  <2>2. Verifies(Words(ip1))
    BY <1>1, <1>12
  <2>3. Words(ip1)[2] = Len(hdr) - at + Len(p.data)
    <3> DEFINE h == Len(hdr)
               n == Len(p.data)
    <3>1. h = at + 28 /\ at \in Nat /\ n \in Nat
      BY <1>10, <1>11, <1>12
    <3>2. Words(ip1)[2] = n + 28
      BY <1>8, <1>12
    <3> HIDE DEF h, n
    <3>3. h - at + n = n + 28
      BY <3>1
    <3>4. Words(ip1)[2] = h - at + n
      BY <3>2, <3>3
    <3> QED BY <3>4 DEF h, n
  <2>4. Words(udp1)[3] = 8 + Len(p.data) /\ Words(udp1)[4] # 0
    BY <1>4, <1>9, <1>11, <1>12
  <2> QED BY <1>12, <2>1, <2>2, <2>3, <2>4
<1> QED BY <1>14 DEF ReceiverTakes, hdr, at, ip1, udp1, pseudo1

\* For every packet with no more data than fits a datagram: a receiver finds
\* the lengths as they are, both checksums verify, and that of UDP is never the
\* zero that says there is none (build_pkt_hdr, calc_ipv4_cs and calc_udp_cs of
\* l2_eth_udp_pkt.cpp).
THEOREM PacketsAreRight == FSpec => []PacketsRight
<1>1. Called => PacketsRight
  <2> SUFFICES ASSUME Called, call.fn = "packet" PROVE ReceiverTakes(call.packet)
    BY DEF PacketsRight
  <2>1. call \in PacketCalls
    BY CallSets
  <2>2. call.packet \in Packet(Seq(Byte)) /\ Len(call.packet.data) <= MaxData
    <3>1. call \in [fn : {"packet"}, packet : Packet(Seq(Byte))]
      BY <2>1, FunctionsAssumption
    <3> QED BY <2>1, <3>1, FunctionsAssumption
  <2> QED BY <2>2, PacketIsTaken DEF PacketType
<1> QED BY <1>1, CalledAlways, PTL

-----------------------------------------------------------------------------
(* Interfaces: what is filled in *)

IntfFields == {"name", "alias", "hw_addr", "vlan", "mtu", "inet", "flags"}
IsIntf(r) == r = [k \in IntfFields |-> r[k]]

LEMMA SameIntf ==
  ASSUME NEW r, NEW s, IsIntf(r), IsIntf(s), r.name = s.name, r.alias = s.alias, r.hw_addr = s.hw_addr,
         r.vlan = s.vlan, r.mtu = s.mtu, r.inet = s.inet, r.flags = s.flags
  PROVE  r = s
BY DEF IsIntf, IntfFields

\* s is r but for some fields.
Keeps(r, s, fields) == IsIntf(s) /\ \A k \in IntfFields \ fields : s[k] = r[k]

LEMMA AliasIs ==
  ASSUME NEW r, IsIntf(r), NEW sys, NEW has
  PROVE  /\ Keeps(r, FillAlias(r, sys, has), {"alias"})
         /\ FillAlias(r, sys, has).alias
              = IF "SIOCGIFFRNDLYNAM" \in has THEN Either(sys.alias[r.name], r.alias) ELSE r.alias
BY DEF IsIntf, IntfFields, Keeps, FillAlias, query_net_interface_friendly_name

LEMMA HwAddrIs ==
  ASSUME NEW r, IsIntf(r), NEW sys, NEW has
  PROVE  /\ Keeps(r, FillHwAddr(r, sys, has), {"hw_addr"})
         /\ FillHwAddr(r, sys, has).hw_addr
              = IF "SIOCGIFHWADDR" \in has /\ r.hw_addr = {} THEN sys.hw[r.name] \ {0} ELSE r.hw_addr
BY DEF IsIntf, IntfFields, Keeps, FillHwAddr, query_net_interface_hw_addr

LEMMA MtuIs ==
  ASSUME NEW r, IsIntf(r), NEW sys
  PROVE  /\ Keeps(r, FillMtu(r, sys), {"mtu"})
         /\ FillMtu(r, sys).mtu = Either(sys.mtu[r.name], r.mtu)
BY DEF IsIntf, IntfFields, Keeps, FillMtu, query_net_interface_mtu

LEMMA FlagsIs ==
  ASSUME NEW r, IsIntf(r), NEW sys, NEW has
  PROVE  /\ Keeps(r, FillFlags(r, sys, has), {"flags"})
         /\ FillFlags(r, sys, has).flags
              = IF "SIOCGIFFRNDLYNAM" \in has /\ sys.flags[r.name] # {}
                THEN CHOOSE f \in sys.flags[r.name] : TRUE ELSE r.flags
<1> DEFINE x == CHOOSE f \in sys.flags[r.name] : TRUE
<1>1. FillFlags(r, sys, has) = IF "SIOCGIFFRNDLYNAM" \in has /\ sys.flags[r.name] # {}
                               THEN [r EXCEPT !.flags = x] ELSE r
  BY DEF FillFlags, query_net_interface_flags
<1> HIDE DEF x
<1>2. /\ Keeps(r, FillFlags(r, sys, has), {"flags"})
      /\ FillFlags(r, sys, has).flags = IF "SIOCGIFFRNDLYNAM" \in has /\ sys.flags[r.name] # {} THEN x ELSE r.flags
  BY <1>1 DEF IsIntf, IntfFields, Keeps
<1> QED BY <1>2 DEF x

\* The VLAN of an interface that the system gives, and when it has the address
\* of its parent.
VlanOf(r, sys) == CHOOSE v \in sys.vlan[r.name] : TRUE
IsVlan(r, sys, has) == "VLAN" \in has /\ sys.vlan[r.name] # {}
Inherits(r, sys, has, m) ==
  /\ IsVlan(r, sys, has) /\ "SIOCGIFHWADDR" \notin has /\ r.hw_addr = {}
  /\ VlanOf(r, sys).parent \in DOMAIN m

\* s is r with what its VLAN gives.
VlanFilled(r, s, sys, has, m) ==
  /\ Keeps(r, s, {"vlan", "hw_addr"})
  /\ s.vlan = IF IsVlan(r, sys, has) /\ ~(VlanOf(r, sys).id > MaxVlan) THEN {VlanOf(r, sys)} ELSE r.vlan
  /\ s.hw_addr = IF Inherits(r, sys, has, m) THEN m[VlanOf(r, sys).parent].hw_addr ELSE r.hw_addr

LEMMA VlanIsFilled ==
  ASSUME NEW r, IsIntf(r), NEW sys, NEW has, NEW m
  PROVE  VlanFilled(r, FillVlan(r, sys, has, m), sys, has, m)
<1> DEFINE v == VlanOf(r, sys)
           s == SetVlan(r, v)
           f == FillVlan(r, sys, has, m)
<1>1. f = IF ~IsVlan(r, sys, has) THEN r
          ELSE IF "SIOCGIFHWADDR" \notin has /\ r.hw_addr = {} /\ v.parent \in DOMAIN m
               THEN [s EXCEPT !.hw_addr = m[v.parent].hw_addr] ELSE s
  BY DEF FillVlan, query_net_interface_vlan_id, IsVlan, VlanOf
<1> HIDE DEF v, f
<1>2. Keeps(r, s, {"vlan"}) /\ s.vlan = IF v.id > MaxVlan THEN r.vlan ELSE {v}
  BY DEF IsIntf, IntfFields, Keeps, SetVlan
<1>3. Keeps(r, r, {}) /\ Keeps(r, r, {"vlan"})
  BY DEF Keeps
<1> HIDE DEF s
<1>4. CASE ~IsVlan(r, sys, has)
  <2>1. f = r /\ ~Inherits(r, sys, has, m)
    BY <1>1, <1>4 DEF Inherits
  <2> QED BY <1>3, <1>4, <2>1 DEF f, Keeps, v, VlanFilled
<1>5. CASE IsVlan(r, sys, has) /\ ~Inherits(r, sys, has, m)
  <2>1. f = s
    BY <1>1, <1>5 DEF Inherits, v
  <2> QED BY <1>2, <1>5, <2>1 DEF f, Keeps, v, IntfFields, VlanFilled
<1>6. CASE Inherits(r, sys, has, m)
  <2> DEFINE x == m[v.parent].hw_addr
  <2>1. f = [s EXCEPT !.hw_addr = x] /\ IsVlan(r, sys, has)
    BY <1>1, <1>6 DEF Inherits, v
  <2> HIDE DEF x
  <2>2. IsIntf(s)
    BY <1>2 DEF Keeps
  <2>3. Keeps(s, f, {"hw_addr"}) /\ f.hw_addr = x
    BY <2>1, <2>2 DEF IsIntf, IntfFields, Keeps
  <2>4. Keeps(r, f, {"vlan", "hw_addr"}) /\ f.vlan = s.vlan
    BY <1>2, <2>3 DEF Keeps, IntfFields
  <2> QED BY <1>2, <1>6, <2>1, <2>3, <2>4 DEF f, x, v, VlanFilled
<1> QED BY <1>4, <1>5, <1>6 DEF Inherits

\* r filled in is s.
HwAddrOf(r, sys, has) == IF "SIOCGIFHWADDR" \in has /\ r.hw_addr = {} THEN sys.hw[r.name] \ {0} ELSE r.hw_addr
FilledAs(r, s, sys, has, m) ==
  /\ IsIntf(s) /\ s.name = r.name /\ s.inet = r.inet
  /\ s.alias = IF "SIOCGIFFRNDLYNAM" \in has THEN Either(sys.alias[r.name], r.alias) ELSE r.alias
  /\ s.mtu = Either(sys.mtu[r.name], r.mtu)
  /\ s.flags = IF "SIOCGIFFRNDLYNAM" \in has /\ sys.flags[r.name] # {}
               THEN CHOOSE f \in sys.flags[r.name] : TRUE ELSE r.flags
  /\ s.vlan = IF IsVlan(r, sys, has) /\ ~(VlanOf(r, sys).id > MaxVlan) THEN {VlanOf(r, sys)} ELSE r.vlan
  /\ s.hw_addr = IF Inherits(r, sys, has, m) THEN m[VlanOf(r, sys).parent].hw_addr ELSE HwAddrOf(r, sys, has)

LEMMA FillIs ==
  ASSUME NEW m, NEW name \in DOMAIN m, IsIntf(m[name]), NEW sys, NEW has
  PROVE  \E s : Fill(m, name, sys, has) = [m EXCEPT ![name] = s] /\ FilledAs(m[name], s, sys, has, m)
<1> DEFINE r == m[name]
           a == FillAlias(r, sys, has)
           b == FillHwAddr(a, sys, has)
           c == FillVlan(b, sys, has, m)
           d == FillMtu(c, sys)
           e == FillFlags(d, sys, has)
<1>1. Fill(m, name, sys, has) = [m EXCEPT ![name] = e]
  BY DEF Fill
<1> HIDE DEF r
<1>2. IsIntf(r)
  BY DEF r
<1>3. Keeps(r, a, {"alias"}) /\ IsIntf(a)
      /\ a.alias = IF "SIOCGIFFRNDLYNAM" \in has THEN Either(sys.alias[r.name], r.alias) ELSE r.alias
  BY <1>2, AliasIs DEF Keeps
<1> HIDE DEF a
<1>4. Keeps(a, b, {"hw_addr"}) /\ IsIntf(b) /\ b.hw_addr = HwAddrOf(a, sys, has)
  <2>1. Keeps(a, b, {"hw_addr"}) /\ b.hw_addr = HwAddrOf(a, sys, has)
    BY <1>3, HwAddrIs DEF HwAddrOf
  <2> HIDE DEF b
  <2> QED BY <2>1 DEF Keeps
<1> HIDE DEF b
<1>5. /\ Keeps(b, c, {"vlan", "hw_addr"}) /\ IsIntf(c)
      /\ c.vlan = IF IsVlan(b, sys, has) /\ ~(VlanOf(b, sys).id > MaxVlan) THEN {VlanOf(b, sys)} ELSE b.vlan
      /\ c.hw_addr = IF Inherits(b, sys, has, m) THEN m[VlanOf(b, sys).parent].hw_addr ELSE b.hw_addr
  <2>1. VlanFilled(b, c, sys, has, m)
    BY <1>4, VlanIsFilled
  <2> HIDE DEF c
  <2> QED BY <2>1 DEF Keeps, VlanFilled
<1> HIDE DEF c
<1>6. Keeps(c, d, {"mtu"}) /\ IsIntf(d) /\ d.mtu = Either(sys.mtu[c.name], c.mtu)
  BY <1>5, MtuIs DEF Keeps
<1> HIDE DEF d
<1>7. /\ Keeps(d, e, {"flags"}) /\ IsIntf(e)
      /\ e.flags = IF "SIOCGIFFRNDLYNAM" \in has /\ sys.flags[d.name] # {}
                   THEN CHOOSE f \in sys.flags[d.name] : TRUE ELSE d.flags
  <2>1. /\ Keeps(d, e, {"flags"})
        /\ e.flags = IF "SIOCGIFFRNDLYNAM" \in has /\ sys.flags[d.name] # {}
                     THEN CHOOSE f \in sys.flags[d.name] : TRUE ELSE d.flags
    BY <1>6, FlagsIs
  <2> HIDE DEF e
  <2> QED BY <2>1 DEF Keeps
<1> HIDE DEF e
<1>8. a.name = r.name /\ b.name = r.name /\ c.name = r.name /\ d.name = r.name /\ e.name = r.name
  BY <1>3, <1>4, <1>5, <1>6, <1>7 DEF Keeps, IntfFields
<1>9. /\ e.inet = r.inet /\ e.alias = a.alias /\ e.mtu = d.mtu /\ c.mtu = r.mtu
      /\ d.flags = r.flags /\ e.vlan = c.vlan /\ b.vlan = r.vlan /\ e.hw_addr = c.hw_addr
      /\ a.hw_addr = r.hw_addr
  BY <1>3, <1>4, <1>5, <1>6, <1>7 DEF Keeps, IntfFields
<1>10. VlanOf(b, sys) = VlanOf(r, sys) /\ (IsVlan(b, sys, has) <=> IsVlan(r, sys, has))
  BY <1>8 DEF VlanOf, IsVlan
<1>11. b.hw_addr = HwAddrOf(r, sys, has)
  BY <1>4, <1>8, <1>9 DEF HwAddrOf
<1>12. Inherits(b, sys, has, m) <=> Inherits(r, sys, has, m)
  <2>1. "SIOCGIFHWADDR" \notin has => b.hw_addr = r.hw_addr
    BY <1>11 DEF HwAddrOf
  <2> QED BY <1>10, <2>1 DEF Inherits
<1>13. FilledAs(r, e, sys, has, m)
  <2>1. IsIntf(e) /\ e.name = r.name /\ e.inet = r.inet
    BY <1>7, <1>8, <1>9
  <2>2. /\ e.alias = IF "SIOCGIFFRNDLYNAM" \in has THEN Either(sys.alias[r.name], r.alias) ELSE r.alias
        /\ e.mtu = Either(sys.mtu[r.name], r.mtu)
    BY <1>3, <1>6, <1>8, <1>9
  <2>3. e.flags = IF "SIOCGIFFRNDLYNAM" \in has /\ sys.flags[r.name] # {}
                  THEN CHOOSE f \in sys.flags[r.name] : TRUE ELSE r.flags
    BY <1>7, <1>8, <1>9
  <2>4. e.vlan = IF IsVlan(r, sys, has) /\ ~(VlanOf(r, sys).id > MaxVlan) THEN {VlanOf(r, sys)} ELSE r.vlan
    BY <1>5, <1>9, <1>10
  <2>5. e.hw_addr = IF Inherits(r, sys, has, m) THEN m[VlanOf(r, sys).parent].hw_addr ELSE HwAddrOf(r, sys, has)
    BY <1>5, <1>9, <1>10, <1>11, <1>12
  <2> QED BY <2>1, <2>2, <2>3, <2>4, <2>5 DEF FilledAs
<1> QED BY <1>1, <1>13 DEF r

-----------------------------------------------------------------------------
(* Interfaces: what getifaddrs() lists *)

Added(intf, e, has) == IF e.name = intf.name THEN AddEntry(intf, e, has) ELSE intf

AddedAll(entries, name, has) ==
  FoldLeft(LAMBDA intf, e : Added(intf, e, has), interface(name), entries)
\* An interface after some of the entries.
AddsOf(g, entries, name, has, n) ==
  g = [S \in SUBSET (1 .. n) |-> IF S = {} THEN interface(name) ELSE Added(g[S \ {Max(S)}], entries[Max(S)], has)]
AddsGo(entries, name, has, n) == \E g : AddsOf(g, entries, name, has, n)
Adds(h, entries, name, has) ==
  h[0] = interface(name) /\ \A i \in 1 .. Len(entries) : h[i] = Added(h[i - 1], entries[i], has)

LEMMA AddsExist ==
  ASSUME NEW entries, NEW name, NEW has, NEW n \in Nat
  PROVE  AddsGo(entries, name, has, n)
<1> DEFINE P == {m \in Nat : AddsGo(entries, name, has, m)}
<1>1. 0 \in P
  <2> DEFINE g == [S \in SUBSET (1 .. 0) |-> interface(name)]
  <2>1. \A S \in SUBSET (1 .. 0) : S = {}
    OBVIOUS
  <2>2. AddsOf(g, entries, name, has, 0)
    BY <2>1 DEF AddsOf
  <2> HIDE DEF g
  <2>3. AddsGo(entries, name, has, 0)
    BY <2>2, Zenon DEF AddsGo
  <2> QED BY <2>3
<1>2. ASSUME NEW m \in Nat, m \in P PROVE m + 1 \in P
  <2>0. AddsGo(entries, name, has, m)
    BY <1>2
  <2>1. PICK g : AddsOf(g, entries, name, has, m)
    BY <2>0, Zenon DEF AddsGo
  <2> DEFINE D == SUBSET (1 .. m + 1)
             h == [S \in D |-> IF m + 1 \in S THEN Added(g[S \ {m + 1}], entries[m + 1], has) ELSE g[S]]
  <2>2. ASSUME NEW S \in D
        PROVE  h[S] = IF S = {} THEN interface(name) ELSE Added(h[S \ {Max(S)}], entries[Max(S)], has)
    <3>1. CASE m + 1 \in S
      <4>1. Max(S) = m + 1 /\ S \ {m + 1} \in SUBSET (1 .. m) /\ S \ {m + 1} \in D
        BY <3>1, MaxOfPrefix
      <4>2. h[S \ {m + 1}] = g[S \ {m + 1}]
        BY <4>1
      <4> QED BY <3>1, <4>1, <4>2
    <3>2. CASE m + 1 \notin S
      <4>1. S \in SUBSET (1 .. m) /\ h[S] = g[S]
        BY <3>2
      <4>2. CASE S = {}
        BY <2>1, <4>1, <4>2 DEF AddsOf
      <4>3. CASE S # {}
        <5>1. S \ {Max(S)} \in D /\ m + 1 \notin S \ {Max(S)}
          BY <3>2
        <5>2. h[S \ {Max(S)}] = g[S \ {Max(S)}]
          BY <5>1
        <5>3. g[S] = Added(g[S \ {Max(S)}], entries[Max(S)], has)
          BY <2>1, <4>1, <4>3 DEF AddsOf
        <5> QED BY <4>1, <4>3, <5>2, <5>3
      <4> QED BY <4>2, <4>3
    <3> QED BY <3>1, <3>2
  <2>3. h = [S \in D |-> h[S]]
    OBVIOUS
  <2> HIDE DEF h
  <2>4. AddsOf(h, entries, name, has, m + 1)
    BY <2>2, <2>3 DEF AddsOf
  <2>5. AddsGo(entries, name, has, m + 1)
    BY <2>4, Zenon DEF AddsGo
  <2> QED BY <2>5
<1>3. Nat \subseteq P
  <2>1. \A m \in Nat : m \in P => m + 1 \in P
    BY <1>2
  <2> HIDE DEF P
  <2> QED BY <1>1, <2>1, NatsByInduction
<1> QED BY <1>3

LEMMA AddsAre ==
  ASSUME NEW entries, NEW name, NEW has, entries \in Seq(Ifaddr)
  PROVE  \E h : Adds(h, entries, name, has) /\ AddedAll(entries, name, has) = h[Len(entries)]
<1> DEFINE n == Len(entries)
           g == CHOOSE f : AddsOf(f, entries, name, has, n)
           h == [i \in 0 .. n |-> g[1 .. i]]
<1>1. n \in Nat /\ DOMAIN (entries) = 1 .. n
  OBVIOUS
<1>2. AddedAll(entries, name, has) = g[1 .. n]
  BY <1>1 DEF FoldLeft, MapThenFoldSet, AddsOf, AddedAll
<1>3. AddsOf(g, entries, name, has, n)
  <2>1. AddsGo(entries, name, has, n)
    BY <1>1, AddsExist
  <2> QED BY <2>1, Zenon DEF AddsGo
<1> HIDE DEF g
<1>4. h[0] = interface(name)
  BY <1>1, <1>3 DEF AddsOf
<1>5. ASSUME NEW i \in 1 .. n PROVE h[i] = Added(h[i - 1], entries[i], has)
  <2> DEFINE S == 1 .. i
  <2>1. S \in SUBSET (1 .. n) /\ S # {} /\ Max(S) = i /\ S \ {i} = 1 .. i - 1
    BY <1>1, PrefixIs
  <2> HIDE DEF S
  <2>2. g[S] = Added(g[S \ {i}], entries[i], has)
    BY <1>3, <2>1 DEF AddsOf
  <2>3. h[i] = g[S] /\ h[i - 1] = g[1 .. i - 1]
    BY <1>1 DEF S
  <2> QED BY <2>1, <2>2, <2>3
<1>6. g[1 .. n] = h[n]
  BY <1>1
<1> HIDE DEF h
<1>7. Adds(h, entries, name, has)
  BY <1>4, <1>5 DEF Adds
<1> QED BY <1>2, <1>6, <1>7, Zenon

Ipv4s == [addr : Nat, netmask : SUBSET Nat, broadcast_addr : SUBSET Nat, dest_addr : SUBSET Nat]

LEMMA Ipv4IsOne ==
  ASSUME NEW e \in Ifaddr
  PROVE  if_ipv4(e) \in Ipv4s /\ if_ipv4(e).addr = e.addr
<1>1. /\ e.addr \in Nat /\ e.netmask \in SUBSET Sockaddr /\ e.broadaddr \in SUBSET Sockaddr
      /\ e.dstaddr \in SUBSET Sockaddr
  BY DEF Ifaddr
<1>2. \A s \in SUBSET Sockaddr : Usable(s) \in SUBSET Nat
  BY DEF Usable, Sockaddr
<1>3. /\ Usable(e.netmask) \in SUBSET Nat
      /\ (IF "BROADCAST" \in e.flags THEN Usable(e.broadaddr) ELSE {}) \in SUBSET Nat
      /\ (IF "POINTOPOINT" \in e.flags THEN Usable(e.dstaddr) ELSE {}) \in SUBSET Nat
  BY <1>1, <1>2
<1> QED BY <1>1, <1>3 DEF if_ipv4, Ipv4s

\* r with an entry is s.
IsListed(r, a) == \E k \in DOMAIN r.inet : r.inet[k].addr = a
AddedAs(r, e, s, has) ==
  /\ IsIntf(s) /\ s.name = r.name /\ s.alias = r.alias /\ s.vlan = r.vlan /\ s.mtu = r.mtu
  /\ s.inet = IF e.family = "INET" /\ ~IsListed(r, e.addr) THEN Append(r.inet, if_ipv4(e)) ELSE r.inet
  /\ s.hw_addr = IF e.family = "LINK" /\ "AF_LINK" \in has /\ r.hw_addr = {} /\ e.type = "ETHER"
                 THEN {e.addr} ELSE r.hw_addr

LEMMA AddEntryIs ==
  ASSUME NEW r, IsIntf(r), NEW e, NEW has
  PROVE  AddedAs(r, e, AddEntry(r, e, has), has)
<1> DEFINE f == [r EXCEPT !.flags = e.flags]
           s == AddEntry(r, e, has)
<1>1. Keeps(r, f, {"flags"}) /\ IsIntf(f)
  BY DEF Keeps, IsIntf, IntfFields
<1>2. s = IF e.family = "none" THEN r ELSE IF e.family = "INET" THEN AddInet(f, e)
          ELSE IF e.family = "LINK" THEN AddLink(f, e, has) ELSE f
  BY DEF AddEntry
<1> HIDE DEF f, s
<1>3. /\ f.name = r.name /\ f.alias = r.alias /\ f.vlan = r.vlan /\ f.mtu = r.mtu
      /\ f.inet = r.inet /\ f.hw_addr = r.hw_addr
  BY <1>1 DEF Keeps, IntfFields
<1>4. CASE e.family = "none"
  BY <1>2, <1>4 DEF AddedAs, s
<1>5. CASE e.family = "INET"
  <2>1. s = IF IsListed(r, e.addr) THEN f ELSE [f EXCEPT !.inet = Append(r.inet, if_ipv4(e))]
    BY <1>2, <1>3, <1>5 DEF AddInet, IsListed
  <2> DEFINE x == Append(r.inet, if_ipv4(e))
  <2> HIDE DEF x
  <2>2. CASE IsListed(r, e.addr)
    <3>1. s = f /\ e.family # "LINK"
      BY <1>5, <2>1, <2>2
    <3> QED BY <1>1, <1>3, <2>2, <3>1 DEF AddedAs, s
  <2>3. CASE ~IsListed(r, e.addr)
    <3>1. s = [f EXCEPT !.inet = x] /\ e.family # "LINK"
      BY <1>5, <2>1, <2>3 DEF x
    <3>2. Keeps(f, s, {"inet"}) /\ s.inet = x
      BY <1>1, <3>1 DEF Keeps, IsIntf, IntfFields
    <3>3. /\ IsIntf(s) /\ s.name = r.name /\ s.alias = r.alias /\ s.vlan = r.vlan /\ s.mtu = r.mtu
          /\ s.hw_addr = r.hw_addr
      BY <1>3, <3>2 DEF Keeps, IntfFields
    <3>4. s.inet = Append(r.inet, if_ipv4(e))
      BY <3>2 DEF x
    <3> QED BY <1>5, <2>3, <3>1, <3>3, <3>4 DEF AddedAs, s
  <2> QED BY <2>2, <2>3
<1>6. CASE e.family = "LINK"
  <2>1. s = IF "AF_LINK" \in has /\ r.hw_addr = {} /\ e.type = "ETHER" THEN [f EXCEPT !.hw_addr = {e.addr}] ELSE f
    BY <1>2, <1>3, <1>6 DEF AddLink
  <2>2. /\ Keeps(f, s, {"hw_addr"})
        /\ s.hw_addr = IF "AF_LINK" \in has /\ r.hw_addr = {} /\ e.type = "ETHER" THEN {e.addr} ELSE r.hw_addr
    BY <1>1, <1>3, <2>1 DEF Keeps, IsIntf, IntfFields
  <2>3. /\ IsIntf(s) /\ s.name = r.name /\ s.alias = r.alias /\ s.vlan = r.vlan /\ s.mtu = r.mtu
        /\ s.inet = r.inet
    BY <1>3, <2>2 DEF Keeps, IntfFields
  <2>4. e.family # "INET"
    BY <1>6
  <2> QED BY <1>6, <2>2, <2>3, <2>4 DEF AddedAs, s
<1>7. CASE e.family \notin {"none", "INET", "LINK"}
  <2>1. s = f /\ e.family # "INET" /\ e.family # "LINK"
    BY <1>2, <1>7
  <2> QED BY <1>1, <1>3, <2>1 DEF AddedAs, s
<1> QED BY <1>4, <1>5, <1>6, <1>7

\* What an interface has after some entries: each address of IPv4 once, and an
\* Ethernet address of the list.
Linked(entries, i, a) ==
  \E j \in 1 .. i : entries[j].family = "LINK" /\ entries[j].type = "ETHER" /\ entries[j].addr = a
Inets(entries, name, i, a) ==
  \E j \in 1 .. i : entries[j].name = name /\ entries[j].family = "INET" /\ entries[j].addr = a
ListedAs(r, entries, name, i) ==
  /\ IsIntf(r) /\ r.name = name /\ r.alias = {} /\ r.vlan = {} /\ r.mtu = {}
  /\ r.inet \in Seq(Ipv4s)
  /\ \A k, l \in 1 .. Len(r.inet) : r.inet[k].addr = r.inet[l].addr => k = l
  /\ \A a : IsListed(r, a) <=> Inets(entries, name, i, a)
  /\ \A a \in r.hw_addr : Linked(entries, i, a)

LEMMA FirstIsListed ==
  ASSUME NEW entries, NEW name
  PROVE  ListedAs(interface(name), entries, name, 0)
<1> DEFINE r == interface(name)
<1>1. /\ IsIntf(r) /\ r.name = name /\ r.alias = {} /\ r.vlan = {} /\ r.mtu = {}
      /\ r.inet = <<>> /\ r.hw_addr = {}
  BY DEF interface, IsIntf, IntfFields
<1> HIDE DEF r
<1>2. r.inet \in Seq(Ipv4s) /\ Len(r.inet) = 0 /\ DOMAIN r.inet = {}
  BY <1>1
<1>3. \A a : ~IsListed(r, a) /\ ~Inets(entries, name, 0, a)
  BY <1>2 DEF IsListed, Inets
<1>4. \A k, l \in 1 .. Len(r.inet) : r.inet[k].addr = r.inet[l].addr => k = l
  BY <1>2
<1> QED BY <1>1, <1>2, <1>3, <1>4 DEF ListedAs, r

LEMMA AddedIsListed ==
  ASSUME NEW entries \in Seq(Ifaddr), NEW name, NEW has, NEW i \in Nat, i + 1 <= Len(entries),
         NEW r, ListedAs(r, entries, name, i)
  PROVE  ListedAs(Added(r, entries[i + 1], has), entries, name, i + 1)
<1> DEFINE e == entries[i + 1]
           s == Added(r, e, has)
           t == r.inet
<1>1. e \in Ifaddr
  OBVIOUS
<1>2. /\ IsIntf(r) /\ r.name = name /\ r.alias = {} /\ r.vlan = {} /\ r.mtu = {} /\ t \in Seq(Ipv4s)
      /\ \A k, l \in 1 .. Len(t) : t[k].addr = t[l].addr => k = l
      /\ \A a : IsListed(r, a) <=> Inets(entries, name, i, a)
      /\ \A a \in r.hw_addr : Linked(entries, i, a)
  BY DEF ListedAs
<1>3. \A a : Linked(entries, i + 1, a) <=>
             (Linked(entries, i, a) \/ (e.family = "LINK" /\ e.type = "ETHER" /\ e.addr = a))
  <2>1. \A j : j \in 1 .. i + 1 <=> (j \in 1 .. i \/ j = i + 1)
    OBVIOUS
  <2> QED BY <2>1 DEF Linked
<1>4. \A a : Inets(entries, name, i + 1, a) <=>
             (Inets(entries, name, i, a) \/ (e.name = name /\ e.family = "INET" /\ e.addr = a))
  <2>1. \A j : j \in 1 .. i + 1 <=> (j \in 1 .. i \/ j = i + 1)
    OBVIOUS
  <2> QED BY <2>1 DEF Inets
<1> HIDE DEF t, e
<1>5. CASE e.name # name
  <2>1. s = r
    BY <1>2, <1>5 DEF Added
  <2>2. \A a : Inets(entries, name, i + 1, a) <=> Inets(entries, name, i, a)
    BY <1>4, <1>5
  <2> HIDE DEF s
  <2> QED BY <1>2, <1>3, <2>1, <2>2 DEF ListedAs, s, e, t
<1>6. CASE e.name = name
  <2>1. AddedAs(r, e, s, has)
    <3>1. s = AddEntry(r, e, has)
      BY <1>2, <1>6 DEF Added
    <3>2. AddedAs(r, e, AddEntry(r, e, has), has)
      BY <1>2, AddEntryIs
    <3> QED BY <3>1, <3>2
  <2> HIDE DEF s
  <2>2. IsIntf(s) /\ s.name = name /\ s.alias = {} /\ s.vlan = {} /\ s.mtu = {}
    BY <1>2, <2>1 DEF AddedAs
  <2>3. \A a \in s.hw_addr : Linked(entries, i + 1, a)
    <3>1. s.hw_addr = r.hw_addr \/ (s.hw_addr = {e.addr} /\ e.family = "LINK" /\ e.type = "ETHER")
      BY <2>1 DEF AddedAs
    <3> QED BY <1>2, <1>3, <3>1
  <2>4. CASE e.family = "INET" /\ ~IsListed(r, e.addr)
    <3> DEFINE x == if_ipv4(e)
               u == s.inet
               m == Len(t)
    <3>1. x \in Ipv4s /\ x.addr = e.addr
      BY <1>1, Ipv4IsOne
    <3>2. u = Append(t, x)
      BY <2>1, <2>4 DEF AddedAs, t
    <3> HIDE DEF x, u
    <3>3. /\ m \in Nat /\ u \in Seq(Ipv4s) /\ Len(u) = m + 1 /\ u[m + 1] = x /\ DOMAIN u = 1 .. m + 1
          /\ DOMAIN t = 1 .. m /\ \A k \in 1 .. m : u[k] = t[k]
      BY <1>2, <3>1, <3>2
    <3> HIDE DEF m
    <3>4. \A k \in 1 .. m : t[k].addr # e.addr
      BY <2>4, <3>3 DEF IsListed, t
    <3>5. ASSUME NEW k \in 1 .. m + 1, NEW l \in 1 .. m + 1, u[k].addr = u[l].addr PROVE k = l
      <4>1. CASE k = m + 1 \/ l = m + 1
        <5>1. k \in 1 .. m \/ k = m + 1
          BY <3>3
        <5>2. l \in 1 .. m \/ l = m + 1
          BY <3>3
        <5> QED BY <3>1, <3>3, <3>4, <3>5, <4>1, <5>1, <5>2
      <4>2. CASE k # m + 1 /\ l # m + 1
        <5>1. k \in 1 .. m /\ l \in 1 .. m
          BY <3>3, <4>2
        <5>2. t[k].addr = t[l].addr
          BY <3>3, <3>5, <5>1
        <5> QED BY <1>2, <5>1, <5>2 DEF m
      <4> QED BY <4>1, <4>2
    <3>6. ASSUME NEW a PROVE IsListed(s, a) <=> Inets(entries, name, i + 1, a)
      <4>1. IsListed(s, a) <=> (IsListed(r, a) \/ e.addr = a)
        <5>1. \A k : k \in 1 .. m + 1 <=> (k \in 1 .. m \/ k = m + 1)
          BY <3>3
        <5>2. IsListed(s, a) <=> \E k \in 1 .. m + 1 : u[k].addr = a
          BY <3>3 DEF IsListed, u
        <5>3. IsListed(r, a) <=> \E k \in 1 .. m : t[k].addr = a
          BY <3>3 DEF IsListed, t
        <5> QED BY <3>1, <3>3, <5>1, <5>2, <5>3
      <4> QED BY <1>2, <1>4, <1>6, <2>4, <4>1
    <3>7. s.inet \in Seq(Ipv4s) /\ \A k, l \in 1 .. Len(s.inet) : s.inet[k].addr = s.inet[l].addr => k = l
      BY <3>3, <3>5 DEF u
    <3> QED BY <2>2, <2>3, <3>6, <3>7 DEF ListedAs, s, e
  <2>5. CASE ~(e.family = "INET" /\ ~IsListed(r, e.addr))
    <3>1. s.inet = t
      BY <2>1, <2>5 DEF AddedAs, t
    <3>2. ASSUME NEW a PROVE IsListed(s, a) <=> Inets(entries, name, i + 1, a)
      <4>1. IsListed(s, a) <=> IsListed(r, a)
        BY <3>1 DEF IsListed, t
      <4>2. e.family = "INET" => Inets(entries, name, i, e.addr)
        BY <1>2, <2>5
      <4> QED BY <1>2, <1>4, <4>1, <4>2
    <3> QED BY <1>2, <2>2, <2>3, <3>1, <3>2 DEF ListedAs, s, e
  <2> QED BY <2>4, <2>5
<1> QED BY <1>5, <1>6 DEF e

\* The interfaces of the list.
Known(entries) == {entries[i].name : i \in DOMAIN entries}
ListOf(all, entries) ==
  /\ DOMAIN all = Known(entries) /\ all = [name \in DOMAIN all |-> all[name]]
  /\ \A name \in DOMAIN all : ListedAs(all[name], entries, name, Len(entries))

LEMMA GetifaddrsIs ==
  ASSUME NEW entries \in Seq(Ifaddr), NEW has
  PROVE  ListOf(query_net_interfaces_getifaddrs(entries, has), entries)
<1> DEFINE all == query_net_interfaces_getifaddrs(entries, has)
           n == Len(entries)
<1>1. all = [name \in Known(entries) |-> AddedAll(entries, name, has)]
  BY DEF query_net_interfaces_getifaddrs, AddedAll, Added, Known
<1>2. ASSUME NEW name PROVE ListedAs(AddedAll(entries, name, has), entries, name, n)
  <2>1. PICK h : /\ Adds(h, entries, name, has)
                 /\ AddedAll(entries, name, has) = h[n]
    BY AddsAre
  <2>2. n \in Nat /\ h[0] = interface(name) /\ \A i \in 1 .. n : h[i] = Added(h[i - 1], entries[i], has)
    BY <2>1 DEF Adds
  <2> DEFINE P == {i \in 0 .. n : ListedAs(h[i], entries, name, i)}
  <2>3. 0 \in P
    BY <2>2, FirstIsListed
  <2>4. ASSUME NEW i \in 0 .. n - 1, i \in P PROVE i + 1 \in P
    <3>1. i \in Nat /\ i + 1 <= Len(entries) /\ i + 1 \in 0 .. n /\ i + 1 \in 1 .. n /\ (i + 1) - 1 = i
      BY <2>2
    <3>2. h[i + 1] = Added(h[(i + 1) - 1], entries[i + 1], has)
      BY <2>2, <3>1
    <3>3. h[i + 1] = Added(h[i], entries[i + 1], has)
      BY <3>1, <3>2
    <3>4. ListedAs(Added(h[i], entries[i + 1], has), entries, name, i + 1)
      BY <2>4, <3>1, AddedIsListed
    <3> QED BY <3>1, <3>3, <3>4
  <2>5. n \in P
    <3> HIDE DEF P
    <3>1. 0 .. n \subseteq P
      BY <2>2, <2>3, <2>4, UpToByInduction
    <3> QED BY <2>2, <3>1
  <2>6. ListedAs(h[n], entries, name, n)
    BY <2>5
  <2> QED BY <2>1, <2>6
<1> HIDE DEF all, n
<1>4. ListOf(all, entries)
  BY <1>1, <1>2 DEF ListOf, n
<1> QED BY <1>4 DEF all

-----------------------------------------------------------------------------
(* Interfaces: the details, one interface after another *)

Visited(m, name, wanted, sys, has) == IF name \in wanted THEN Fill(m, name, sys, has) ELSE m
VisitedAll(all, wanted, sys, has, names) ==
  FoldLeft(LAMBDA m, name : Visited(m, name, wanted, sys, has), all, names)
\* The interfaces after some visits.
VisitsOf(g, all, wanted, sys, has, names, n) ==
  g = [S \in SUBSET (1 .. n) |-> IF S = {} THEN all ELSE Visited(g[S \ {Max(S)}], names[Max(S)], wanted, sys, has)]
VisitsGo(all, wanted, sys, has, names, n) == \E g : VisitsOf(g, all, wanted, sys, has, names, n)
Visits(h, all, wanted, sys, has, names) ==
  h[0] = all /\ \A i \in 1 .. Len(names) : h[i] = Visited(h[i - 1], names[i], wanted, sys, has)

LEMMA VisitsExist ==
  ASSUME NEW all, NEW wanted, NEW sys, NEW has, NEW names, NEW n \in Nat
  PROVE  VisitsGo(all, wanted, sys, has, names, n)
<1> DEFINE P == {m \in Nat : VisitsGo(all, wanted, sys, has, names, m)}
<1>1. 0 \in P
  <2> DEFINE g == [S \in SUBSET (1 .. 0) |-> all]
  <2>1. \A S \in SUBSET (1 .. 0) : S = {}
    OBVIOUS
  <2>2. VisitsOf(g, all, wanted, sys, has, names, 0)
    BY <2>1 DEF VisitsOf
  <2> HIDE DEF g
  <2>3. VisitsGo(all, wanted, sys, has, names, 0)
    BY <2>2, Zenon DEF VisitsGo
  <2> QED BY <2>3
<1>2. ASSUME NEW m \in Nat, m \in P PROVE m + 1 \in P
  <2>0. VisitsGo(all, wanted, sys, has, names, m)
    BY <1>2
  <2>1. PICK g : VisitsOf(g, all, wanted, sys, has, names, m)
    BY <2>0, Zenon DEF VisitsGo
  <2> DEFINE D == SUBSET (1 .. m + 1)
             h == [S \in D |-> IF m + 1 \in S THEN Visited(g[S \ {m + 1}], names[m + 1], wanted, sys, has) ELSE g[S]]
  <2>2. ASSUME NEW S \in D
        PROVE  h[S] = IF S = {} THEN all ELSE Visited(h[S \ {Max(S)}], names[Max(S)], wanted, sys, has)
    <3>1. CASE m + 1 \in S
      <4>1. Max(S) = m + 1 /\ S \ {m + 1} \in SUBSET (1 .. m) /\ S \ {m + 1} \in D
        BY <3>1, MaxOfPrefix
      <4>2. h[S \ {m + 1}] = g[S \ {m + 1}]
        BY <4>1
      <4> QED BY <3>1, <4>1, <4>2
    <3>2. CASE m + 1 \notin S
      <4>1. S \in SUBSET (1 .. m) /\ h[S] = g[S]
        BY <3>2
      <4>2. CASE S = {}
        BY <2>1, <4>1, <4>2 DEF VisitsOf
      <4>3. CASE S # {}
        <5>1. S \ {Max(S)} \in D /\ m + 1 \notin S \ {Max(S)}
          BY <3>2
        <5>2. h[S \ {Max(S)}] = g[S \ {Max(S)}]
          BY <5>1
        <5>3. g[S] = Visited(g[S \ {Max(S)}], names[Max(S)], wanted, sys, has)
          BY <2>1, <4>1, <4>3 DEF VisitsOf
        <5> QED BY <4>1, <4>3, <5>2, <5>3
      <4> QED BY <4>2, <4>3
    <3> QED BY <3>1, <3>2
  <2>3. h = [S \in D |-> h[S]]
    OBVIOUS
  <2> HIDE DEF h
  <2>4. VisitsOf(h, all, wanted, sys, has, names, m + 1)
    BY <2>2, <2>3 DEF VisitsOf
  <2>5. VisitsGo(all, wanted, sys, has, names, m + 1)
    BY <2>4, Zenon DEF VisitsGo
  <2> QED BY <2>5
<1>3. Nat \subseteq P
  <2>1. \A m \in Nat : m \in P => m + 1 \in P
    BY <1>2
  <2> HIDE DEF P
  <2> QED BY <1>1, <2>1, NatsByInduction
<1> QED BY <1>3

LEMMA VisitsAre ==
  ASSUME NEW all, NEW wanted, NEW sys, NEW has, NEW names, names \in Seq(Nat)
  PROVE  \E h : Visits(h, all, wanted, sys, has, names) /\ VisitedAll(all, wanted, sys, has, names) = h[Len(names)]
<1> DEFINE n == Len(names)
           g == CHOOSE f : VisitsOf(f, all, wanted, sys, has, names, n)
           h == [i \in 0 .. n |-> g[1 .. i]]
<1>1. n \in Nat /\ DOMAIN (names) = 1 .. n
  OBVIOUS
<1>2. VisitedAll(all, wanted, sys, has, names) = g[1 .. n]
  BY <1>1 DEF FoldLeft, MapThenFoldSet, VisitsOf, VisitedAll
<1>3. VisitsOf(g, all, wanted, sys, has, names, n)
  <2>1. VisitsGo(all, wanted, sys, has, names, n)
    BY <1>1, VisitsExist
  <2> QED BY <2>1, Zenon DEF VisitsGo
<1> HIDE DEF g
<1>4. h[0] = all
  BY <1>1, <1>3 DEF VisitsOf
<1>5. ASSUME NEW i \in 1 .. n PROVE h[i] = Visited(h[i - 1], names[i], wanted, sys, has)
  <2> DEFINE S == 1 .. i
  <2>1. S \in SUBSET (1 .. n) /\ S # {} /\ Max(S) = i /\ S \ {i} = 1 .. i - 1
    BY <1>1, PrefixIs
  <2> HIDE DEF S
  <2>2. g[S] = Visited(g[S \ {i}], names[i], wanted, sys, has)
    BY <1>3, <2>1 DEF VisitsOf
  <2>3. h[i] = g[S] /\ h[i - 1] = g[1 .. i - 1]
    BY <1>1 DEF S
  <2> QED BY <2>1, <2>2, <2>3
<1>6. g[1 .. n] = h[n]
  BY <1>1
<1> HIDE DEF h
<1>7. Visits(h, all, wanted, sys, has, names)
  BY <1>4, <1>5 DEF Visits
<1> QED BY <1>2, <1>6, <1>7, Zenon

\* An address of Ethernet that is given.
GivenAddress(sys, a) ==
  \/ Linked(sys.entries, Len(sys.entries), a)
  \/ a # 0 /\ \E n \in DOMAIN sys.hw : a \in sys.hw[n]

\* m has the interfaces, each with an address that is given, and the one of the
\* list when it is not of a VLAN and no call gives one.
MapOf(m, all, sys, has) ==
  /\ DOMAIN m = DOMAIN all /\ m = [name \in DOMAIN m |-> m[name]]
  /\ \A name \in DOMAIN m :
        /\ \A a \in m[name].hw_addr : GivenAddress(sys, a)
        /\ sys.vlan[name] = {} /\ "SIOCGIFHWADDR" \notin has => m[name].hw_addr = all[name].hw_addr
FilledIn(r, s, all, sys, has) == \E m : MapOf(m, all, sys, has) /\ FilledAs(r, s, sys, has, m)
VisitedTo(m, all, wanted, sys, has, k) ==
  /\ MapOf(m, all, sys, has)
  /\ \A name \in DOMAIN all : IF name \in wanted /\ name <= k THEN FilledIn(all[name], m[name], all, sys, has)
                              ELSE m[name] = all[name]

LEMMA ListIsMap ==
  ASSUME NEW sys, Given(sys), NEW has, NEW all, ListOf(all, sys.entries)
  PROVE  /\ MapOf(all, all, sys, has)
         /\ \A name \in DOMAIN all : /\ IsIntf(all[name]) /\ all[name].name = name
                                     /\ name \in DOMAIN sys.hw /\ name \in DOMAIN sys.vlan
                                     /\ name \in Nat \ {0}
<1>1. /\ DOMAIN all = Known(sys.entries) /\ all = [name \in DOMAIN all |-> all[name]]
      /\ \A name \in DOMAIN all : ListedAs(all[name], sys.entries, name, Len(sys.entries))
  BY DEF ListOf
<1>2. \A name \in DOMAIN all :
         /\ IsIntf(all[name]) /\ all[name].name = name
         /\ \A a \in all[name].hw_addr : Linked(sys.entries, Len(sys.entries), a)
  BY <1>1 DEF ListedAs
<1>3. ASSUME NEW name \in DOMAIN all
      PROVE  name \in DOMAIN sys.hw /\ name \in DOMAIN sys.vlan /\ name \in Nat \ {0}
  <2>1. PICK i \in DOMAIN sys.entries : name = sys.entries[i].name
    BY <1>1 DEF Known
  <2>2. sys.entries[i] \in Ifaddr
    BY DEF Given
  <2> QED BY <2>1, <2>2 DEF Given, Ifaddr, Names
<1>4. MapOf(all, all, sys, has)
  BY <1>1, <1>2 DEF MapOf, GivenAddress
<1> QED BY <1>2, <1>3, <1>4

LEMMA VisitedIs ==
  ASSUME NEW sys, Given(sys), NEW has, NEW all, ListOf(all, sys.entries), NEW wanted, wanted \subseteq DOMAIN all,
         NEW k \in Nat, NEW m, VisitedTo(m, all, wanted, sys, has, k)
  PROVE  VisitedTo(Visited(m, k + 1, wanted, sys, has), all, wanted, sys, has, k + 1)
<1> DEFINE name == k + 1
           next == Visited(m, name, wanted, sys, has)
<1>1. /\ DOMAIN m = DOMAIN all /\ m = [q \in DOMAIN m |-> m[q]] /\ MapOf(m, all, sys, has)
      /\ \A q \in DOMAIN m :
            /\ \A a \in m[q].hw_addr : GivenAddress(sys, a)
            /\ sys.vlan[q] = {} /\ "SIOCGIFHWADDR" \notin has => m[q].hw_addr = all[q].hw_addr
      /\ \A q \in DOMAIN all : IF q \in wanted /\ q <= k THEN FilledIn(all[q], m[q], all, sys, has)
                               ELSE m[q] = all[q]
  BY DEF VisitedTo, MapOf
<1>2. \A q \in DOMAIN all : q \in Nat /\ (q <= name <=> (q <= k \/ q = name)) /\ (q = name => ~(q <= k))
  BY ListIsMap
<1> HIDE DEF name
<1>3. CASE name \notin wanted
  <2>1. next = m
    BY <1>3 DEF Visited
  <2>2. \A q \in DOMAIN all : (q \in wanted /\ q <= name) <=> (q \in wanted /\ q <= k)
    BY <1>2, <1>3
  <2> HIDE DEF next
  <2> QED BY <1>1, <2>1, <2>2 DEF VisitedTo, name, next
<1>4. CASE name \in wanted
  <2> DEFINE r == all[name]
  <2>1. name \in DOMAIN all /\ m[name] = r
    BY <1>1, <1>2, <1>4
  <2>2. /\ IsIntf(r) /\ r.name = name /\ name \in DOMAIN sys.hw /\ name \in DOMAIN sys.vlan
        /\ MapOf(all, all, sys, has)
    BY <2>1, ListIsMap
  <2>3. PICK s : Fill(m, name, sys, has) = [m EXCEPT ![name] = s] /\ FilledAs(r, s, sys, has, m)
    BY <1>1, <2>1, <2>2, FillIs
  <2>4. next = [m EXCEPT ![name] = s]
    BY <1>4, <2>3 DEF Visited
  <2> HIDE DEF next
  <2>5. /\ DOMAIN next = DOMAIN all /\ next = [q \in DOMAIN next |-> next[q]]
        /\ next[name] = s /\ \A q \in DOMAIN all \ {name} : next[q] = m[q]
    BY <1>1, <2>1, <2>4
  <2>6. /\ r.hw_addr = all[name].hw_addr
        /\ \A a \in r.hw_addr : GivenAddress(sys, a)
    BY <2>1, <2>2 DEF MapOf
  <2> HIDE DEF r
  <2>7. s.hw_addr = IF Inherits(r, sys, has, m) THEN m[VlanOf(r, sys).parent].hw_addr ELSE HwAddrOf(r, sys, has)
    BY <2>3 DEF FilledAs
  <2>8. \A a \in s.hw_addr : GivenAddress(sys, a)
    <3>1. CASE Inherits(r, sys, has, m)
      <4>1. s.hw_addr = m[VlanOf(r, sys).parent].hw_addr /\ VlanOf(r, sys).parent \in DOMAIN m
        BY <2>7, <3>1 DEF Inherits
      <4> QED BY <1>1, <4>1
    <3>2. CASE ~Inherits(r, sys, has, m)
      <4>1. s.hw_addr = r.hw_addr \/ s.hw_addr = sys.hw[name] \ {0}
        BY <2>2, <2>7, <3>2 DEF HwAddrOf
      <4> QED BY <2>2, <2>6, <4>1 DEF GivenAddress
    <3> QED BY <3>1, <3>2
  <2>9. sys.vlan[name] = {} /\ "SIOCGIFHWADDR" \notin has => s.hw_addr = all[name].hw_addr
    BY <2>2, <2>6, <2>7 DEF Inherits, IsVlan, HwAddrOf
  <2>10. MapOf(next, all, sys, has)
    BY <1>1, <2>5, <2>8, <2>9 DEF MapOf
  <2>11. FilledIn(r, s, all, sys, has)
    BY <1>1, <2>3 DEF FilledIn
  <2>12. ASSUME NEW q \in DOMAIN all
         PROVE  IF q \in wanted /\ q <= name THEN FilledIn(all[q], next[q], all, sys, has) ELSE next[q] = all[q]
    <3>1. CASE q = name
      BY <1>2, <1>4, <2>5, <2>11, <3>1 DEF r
    <3>2. CASE q # name
      BY <1>1, <1>2, <2>5, <3>2
    <3> QED BY <3>1, <3>2
  <2> QED BY <2>10, <2>12 DEF VisitedTo, name, next
<1> QED BY <1>3, <1>4

\* A number above all of the names.
LEMMA NamesBounded ==
  ASSUME NEW entries \in Seq(Ifaddr)
  PROVE  \E b \in Nat : \A i \in 1 .. Len(entries) : entries[i].name \in 0 .. b
<1> DEFINE n == Len(entries)
           Below(i) == \E b \in Nat : \A j \in 1 .. i : entries[j].name \in 0 .. b
           P == {i \in 0 .. n : Below(i)}
<1>1. n \in Nat /\ \A j \in 1 .. n : entries[j] \in Ifaddr
  OBVIOUS
<1>2. \A j \in 1 .. n : entries[j].name \in Nat
  BY <1>1 DEF Ifaddr, Names
<1>3. 0 \in P
  <2>1. 0 \in Nat /\ \A j \in 1 .. 0 : entries[j].name \in 0 .. 0
    OBVIOUS
  <2>2. Below(0)
    BY <2>1
  <2> HIDE DEF Below
  <2> QED BY <1>1, <2>2
<1>4. ASSUME NEW i \in 0 .. n - 1, i \in P PROVE i + 1 \in P
  <2>1. Below(i) /\ i + 1 \in 0 .. n /\ i + 1 \in 1 .. n
    <3> HIDE DEF Below
    <3> QED BY <1>1, <1>4
  <2>2. PICK b \in Nat : \A j \in 1 .. i : entries[j].name \in 0 .. b
    BY <2>1
  <2> DEFINE x == entries[i + 1].name
             c == IF x <= b THEN b ELSE x
  <2>3. x \in Nat
    BY <1>2, <2>1
  <2>4. c \in Nat /\ x \in 0 .. c /\ \A y \in 0 .. b : y \in 0 .. c
    BY <2>3
  <2> HIDE DEF c
  <2>5. ASSUME NEW j \in 1 .. i + 1 PROVE entries[j].name \in 0 .. c
    <3>1. j \in 1 .. i \/ j = i + 1
      OBVIOUS
    <3> QED BY <2>2, <2>4, <3>1
  <2>6. Below(i + 1)
    BY <2>4, <2>5
  <2> HIDE DEF Below
  <2> QED BY <2>1, <2>6
<1>5. n \in P
  <2> HIDE DEF P
  <2>1. 0 .. n \subseteq P
    BY <1>1, <1>3, <1>4, UpToByInduction
  <2> QED BY <1>1, <2>1
<1> QED BY <1>5

\* What a query has for an interface.
Queried(sys, has, all, query, m) ==
  /\ DOMAIN m = DOMAIN all
  /\ \A name \in DOMAIN all :
        (query = {} \/ name \in query) =>
            IF ~sys.socket THEN m[name] = all[name] ELSE FilledIn(all[name], m[name], all, sys, has)

LEMMA FilterIs ==
  ASSUME NEW sys, Given(sys), NEW has, NEW query
  PROVE  Queried(sys, has, query_net_interfaces_getifaddrs(sys.entries, has), query,
                 query_net_interfaces_filter(sys, has, query))
<1> DEFINE all == query_net_interfaces_getifaddrs(sys.entries, has)
           wanted == IF query = {} THEN DOMAIN all ELSE DOMAIN all \cap query
           top == Max(DOMAIN all \cup {0})
           names == [name \in 1 .. top |-> name]
           m == query_net_interfaces_filter(sys, has, query)
<1>1. m = IF ~sys.socket THEN all ELSE VisitedAll(all, wanted, sys, has, names)
  BY DEF query_net_interfaces_filter, VisitedAll, Visited
<1>2. ListOf(all, sys.entries) /\ sys.entries \in Seq(Ifaddr)
  <2>1. sys.entries \in Seq(Ifaddr)
    BY DEF Given
  <2> QED BY <2>1, GetifaddrsIs
<1> HIDE DEF all, m
<1>3. CASE ~sys.socket
  BY <1>1, <1>3 DEF Queried, all, m
<1>4. CASE sys.socket
  <2>1. DOMAIN all = Known(sys.entries)
    BY <1>2 DEF ListOf
  <2>2. PICK b \in Nat : \A i \in 1 .. Len(sys.entries) : sys.entries[i].name \in 0 .. b
    BY <1>2, NamesBounded
  <2>3. DOMAIN all \cup {0} \in SUBSET (0 .. b) /\ DOMAIN all \cup {0} # {}
    <3>1. DOMAIN sys.entries = 1 .. Len(sys.entries) /\ 0 \in 0 .. b
      BY <1>2
    <3> QED BY <2>1, <2>2, <3>1 DEF Known
  <2>4. top \in 0 .. b /\ \A name \in DOMAIN all : name <= top
    <3> DEFINE S == DOMAIN all \cup {0}
    <3>1. Max(S) \in S /\ \A y \in S : y <= Max(S)
      <4>1. S \in SUBSET (0 .. b) /\ S # {}
        BY <2>3
      <4> HIDE DEF S
      <4> QED BY <4>1, MaxIs
    <3> QED BY <2>3, <3>1
  <2> HIDE DEF top
  <2>5. names \in Seq(Nat) /\ Len(names) = top /\ \A i \in 1 .. top : names[i] = i
    BY <2>4
  <2> HIDE DEF names
  <2>6. wanted \subseteq DOMAIN all
    OBVIOUS
  <2>7. \A name \in DOMAIN all : (query = {} \/ name \in query) => name \in wanted
    OBVIOUS
  <2> HIDE DEF wanted
  <2>8. PICK h : Visits(h, all, wanted, sys, has, names) /\ VisitedAll(all, wanted, sys, has, names) = h[Len(names)]
    <3>1. names \in Seq(Nat)
      BY <2>5
    <3> QED BY <3>1, VisitsAre
  <2>9. m = h[top]
    BY <1>1, <1>4, <2>5, <2>8
  <2>10. h[0] = all /\ \A i \in 1 .. top : h[i] = Visited(h[i - 1], i, wanted, sys, has)
    BY <2>5, <2>8 DEF Visits
  <2> DEFINE P == {i \in 0 .. top : VisitedTo(h[i], all, wanted, sys, has, i)}
  <2>11. 0 \in P
    <3>1. MapOf(all, all, sys, has) /\ \A name \in DOMAIN all : ~(name <= 0)
      BY <1>2, ListIsMap
    <3>2. VisitedTo(all, all, wanted, sys, has, 0)
      BY <3>1 DEF VisitedTo
    <3> QED BY <2>4, <2>10, <3>2
  <2>12. ASSUME NEW i \in 0 .. top - 1, i \in P PROVE i + 1 \in P
    <3>1. i \in Nat /\ i + 1 \in 0 .. top /\ i + 1 \in 1 .. top /\ (i + 1) - 1 = i
      BY <2>4
    <3>2. h[i + 1] = Visited(h[(i + 1) - 1], i + 1, wanted, sys, has)
      BY <2>10, <3>1
    <3>3. VisitedTo(h[i], all, wanted, sys, has, i)
      BY <2>12
    <3>4. VisitedTo(Visited(h[i], i + 1, wanted, sys, has), all, wanted, sys, has, i + 1)
      BY <1>2, <2>6, <3>1, <3>3, VisitedIs
    <3> QED BY <3>1, <3>2, <3>4
  <2>13. top \in P
    <3> HIDE DEF P
    <3>1. 0 .. top \subseteq P
      BY <2>4, <2>11, <2>12, UpToByInduction
    <3> QED BY <2>4, <3>1
  <2>14. VisitedTo(m, all, wanted, sys, has, top)
    BY <2>9, <2>13
  <2>15. DOMAIN m = DOMAIN all
    BY <2>14 DEF VisitedTo, MapOf
  <2>16. ASSUME NEW name \in DOMAIN all, query = {} \/ name \in query
         PROVE  FilledIn(all[name], m[name], all, sys, has)
    <3>1. name \in wanted /\ name <= top
      BY <2>4, <2>7, <2>16
    <3> QED BY <2>14, <3>1 DEF VisitedTo
  <2> QED BY <1>4, <2>15, <2>16 DEF Queried, all, m
<1> QED BY <1>3, <1>4

\* One interface is what it is among all of them, but for the address of a VLAN
\* on a VLAN.
AsAmongAll(m, sys, has, all, name) ==
  \/ m[name] = all[name]
  \/ /\ "AF_LINK" \in has
     /\ \E v \in sys.vlan[name] : v.parent \in DOMAIN all /\ sys.vlan[v.parent] # {}
     /\ [m[name] EXCEPT !.hw_addr = {}] = [all[name] EXCEPT !.hw_addr = {}]
LEMMA OneIsAsAll ==
  ASSUME NEW sys, Given(sys), NEW has \in {Builds[x] : x \in DOMAIN Builds}, NEW list, ListOf(list, sys.entries),
         NEW all, Queried(sys, has, list, {}, all), NEW name \in DOMAIN all,
         NEW m, Queried(sys, has, list, {name}, m)
  PROVE  AsAmongAll(m, sys, has, all, name)
<1> USE DEF AsAmongAll
<1> DEFINE r == list[name]
           s == m[name]
           t == all[name]
<1>1. DOMAIN all = DOMAIN list /\ name \in DOMAIN list
  BY DEF Queried
<1>2. CASE ~sys.socket
  BY <1>1, <1>2 DEF Queried
<1>3. CASE sys.socket
  <2>1. FilledIn(r, s, list, sys, has) /\ FilledIn(r, t, list, sys, has)
    BY <1>1, <1>3 DEF Queried
  <2>2. r.name = name
    BY <1>1, ListIsMap
  <2> HIDE DEF r, s, t
  <2>3. PICK m0 : MapOf(m0, list, sys, has) /\ FilledAs(r, s, sys, has, m0)
    BY <2>1 DEF FilledIn
  <2>4. PICK m1 : MapOf(m1, list, sys, has) /\ FilledAs(r, t, sys, has, m1)
    BY <2>1 DEF FilledIn
  <2>5. DOMAIN m0 = DOMAIN list /\ DOMAIN m1 = DOMAIN list
    BY <2>3, <2>4 DEF MapOf
  <2>6. Inherits(r, sys, has, m0) <=> Inherits(r, sys, has, m1)
    BY <2>5 DEF Inherits
  <2>7. /\ IsIntf(s) /\ IsIntf(t) /\ s.name = t.name /\ s.inet = t.inet /\ s.alias = t.alias /\ s.mtu = t.mtu
        /\ s.flags = t.flags /\ s.vlan = t.vlan
    BY <2>3, <2>4 DEF FilledAs
  <2>8. /\ s.hw_addr = IF Inherits(r, sys, has, m0) THEN m0[VlanOf(r, sys).parent].hw_addr ELSE HwAddrOf(r, sys, has)
        /\ t.hw_addr = IF Inherits(r, sys, has, m1) THEN m1[VlanOf(r, sys).parent].hw_addr ELSE HwAddrOf(r, sys, has)
    BY <2>3, <2>4 DEF FilledAs
  <2>9. s.hw_addr = t.hw_addr => s = t
    BY <2>7, SameIntf
  <2>10. CASE ~Inherits(r, sys, has, m0)
    BY <2>6, <2>8, <2>9, <2>10 DEF s, t
  <2>11. CASE Inherits(r, sys, has, m0)
    <3> DEFINE v == VlanOf(r, sys)
    <3>1. /\ "VLAN" \in has /\ "SIOCGIFHWADDR" \notin has /\ sys.vlan[name] # {} /\ v.parent \in DOMAIN list
      BY <2>2, <2>5, <2>11 DEF Inherits, IsVlan
    <3>2. v \in sys.vlan[name]
      BY <2>2, <3>1 DEF VlanOf
    <3>3. s.hw_addr = m0[v.parent].hw_addr /\ t.hw_addr = m1[v.parent].hw_addr
      BY <2>6, <2>8, <2>11
    <3> HIDE DEF v
    <3>4. CASE sys.vlan[v.parent] = {}
      <4>1. m0[v.parent].hw_addr = list[v.parent].hw_addr /\ m1[v.parent].hw_addr = list[v.parent].hw_addr
        BY <2>3, <2>4, <2>5, <3>1, <3>4 DEF MapOf
      <4> QED BY <2>9, <3>3, <4>1 DEF s, t
    <3>5. CASE sys.vlan[v.parent] # {}
      <4>1. "AF_LINK" \in has
        BY <3>1 DEF Builds
      <4>2. \E w \in sys.vlan[name] : w.parent \in DOMAIN all /\ sys.vlan[w.parent] # {}
        BY <1>1, <3>1, <3>2, <3>5
      <4>3. [s EXCEPT !.hw_addr = {}] = [t EXCEPT !.hw_addr = {}]
        <5> DEFINE a == [s EXCEPT !.hw_addr = {}]
                   b == [t EXCEPT !.hw_addr = {}]
        <5>1. Keeps(s, a, {"hw_addr"}) /\ a.hw_addr = {} /\ Keeps(t, b, {"hw_addr"}) /\ b.hw_addr = {}
          BY <2>7 DEF Keeps, IsIntf, IntfFields
        <5> HIDE DEF a, b
        <5>2. /\ IsIntf(a) /\ IsIntf(b) /\ a.name = b.name /\ a.inet = b.inet /\ a.alias = b.alias /\ a.mtu = b.mtu
              /\ a.flags = b.flags /\ a.vlan = b.vlan /\ a.hw_addr = b.hw_addr
          BY <2>7, <5>1 DEF Keeps, IntfFields
        <5>3. a = b
          BY <5>2, SameIntf
        <5> QED BY <5>3 DEF a, b
      <4> QED BY <4>1, <4>2, <4>3 DEF s, t
    <3> QED BY <3>4, <3>5
  <2> QED BY <2>10, <2>11
<1> QED BY <1>2, <1>3

\* The addresses of an interface, and its VLAN.
LEMMA DetailsAre ==
  ASSUME NEW sys, Given(sys), NEW has, NEW list, ListOf(list, sys.entries), MaxVlan \in Nat,
         NEW all, Queried(sys, has, list, {}, all), NEW name \in DOMAIN all
  PROVE  /\ \A i, j \in DOMAIN all[name].inet : all[name].inet[i].addr = all[name].inet[j].addr => i = j
         /\ \A a : IsListed(all[name], a) <=> Inets(sys.entries, name, Len(sys.entries), a)
         /\ \A a \in all[name].hw_addr : GivenAddress(sys, a)
         /\ \A v \in all[name].vlan : v.id <= MaxVlan /\ v \in sys.vlan[name]
<1> DEFINE r == list[name]
           s == all[name]
<1>1. name \in DOMAIN list /\ DOMAIN all = DOMAIN list
  BY DEF Queried
<1>2. ListedAs(r, sys.entries, name, Len(sys.entries))
  BY <1>1 DEF ListOf
<1>3. /\ r.name = name /\ name \in DOMAIN sys.hw /\ name \in DOMAIN sys.vlan /\ MapOf(list, list, sys, has)
  BY <1>1, ListIsMap
<1>4. \A a \in r.hw_addr : GivenAddress(sys, a)
  BY <1>1, <1>3 DEF MapOf
<1> HIDE DEF r, s
<1>5. /\ r.inet \in Seq(Ipv4s) /\ r.vlan = {}
      /\ \A k, l \in 1 .. Len(r.inet) : r.inet[k].addr = r.inet[l].addr => k = l
      /\ \A a : IsListed(r, a) <=> Inets(sys.entries, name, Len(sys.entries), a)
  BY <1>2 DEF ListedAs
<1>6. DOMAIN r.inet = 1 .. Len(r.inet)
  BY <1>5
<1>7. s = r \/ FilledIn(r, s, list, sys, has)
  BY <1>1 DEF Queried, r, s
<1>8. CASE s = r
  BY <1>4, <1>5, <1>6, <1>8 DEF s
<1>9. CASE FilledIn(r, s, list, sys, has)
  <2>1. PICK m : MapOf(m, list, sys, has) /\ FilledAs(r, s, sys, has, m)
    BY <1>9 DEF FilledIn
  <2>2. s.inet = r.inet
    BY <2>1 DEF FilledAs
  <2>3. \A a : IsListed(s, a) <=> IsListed(r, a)
    BY <2>2 DEF IsListed
  <2>4. \A a \in s.hw_addr : GivenAddress(sys, a)
    <3>1. s.hw_addr = IF Inherits(r, sys, has, m) THEN m[VlanOf(r, sys).parent].hw_addr ELSE HwAddrOf(r, sys, has)
      BY <2>1 DEF FilledAs
    <3>2. CASE Inherits(r, sys, has, m)
      <4>1. VlanOf(r, sys).parent \in DOMAIN m
        BY <3>2 DEF Inherits
      <4> QED BY <2>1, <3>1, <3>2, <4>1 DEF MapOf
    <3>3. CASE ~Inherits(r, sys, has, m)
      <4>1. s.hw_addr = r.hw_addr \/ s.hw_addr = sys.hw[name] \ {0}
        BY <1>3, <3>1, <3>3 DEF HwAddrOf
      <4> QED BY <1>3, <1>4, <4>1 DEF GivenAddress
    <3> QED BY <3>2, <3>3
  <2>5. \A v \in s.vlan : v.id <= MaxVlan /\ v \in sys.vlan[name]
    <3>1. s.vlan = IF IsVlan(r, sys, has) /\ ~(VlanOf(r, sys).id > MaxVlan) THEN {VlanOf(r, sys)} ELSE r.vlan
      BY <2>1 DEF FilledAs
    <3>2. CASE IsVlan(r, sys, has) /\ ~(VlanOf(r, sys).id > MaxVlan)
      <4> DEFINE v == VlanOf(r, sys)
      <4>1. v \in sys.vlan[name]
        BY <1>3, <3>2 DEF VlanOf, IsVlan
      <4>2. v.id \in Nat
        BY <1>3, <4>1 DEF Given, Vlan
      <4>3. s.vlan = {v} /\ ~(v.id > MaxVlan)
        BY <3>1, <3>2
      <4> HIDE DEF v
      <4> QED BY <4>1, <4>2, <4>3
    <3>3. CASE ~(IsVlan(r, sys, has) /\ ~(VlanOf(r, sys).id > MaxVlan))
      BY <1>5, <3>1, <3>3
    <3> QED BY <3>2, <3>3
  <2> QED BY <1>5, <1>6, <2>2, <2>3, <2>4, <2>5 DEF s
<1> QED BY <1>7, <1>8, <1>9

LEMMA InterfacesAreAsAll ==
  ASSUME NEW sys, Given(sys), NEW has \in {Builds[x] : x \in DOMAIN Builds}, MaxVlan \in Nat
  PROVE  OneAsAll(sys, has)
<1> DEFINE all == query_net_interfaces(sys, has)
           list == query_net_interfaces_getifaddrs(sys.entries, has)
           linked == {sys.entries[i].addr : i \in {i \in DOMAIN sys.entries :
                         sys.entries[i].family = "LINK" /\ sys.entries[i].type = "ETHER"}}
           asked == UNION {sys.hw[n] : n \in DOMAIN sys.hw}
           n == Len(sys.entries)
<1>1. sys.entries \in Seq(Ifaddr) /\ n \in Nat /\ DOMAIN sys.entries = 1 .. n
  BY DEF Given
<1>2. ListOf(list, sys.entries)
  BY <1>1, GetifaddrsIs
<1>3. \A query : Queried(sys, has, list, query, query_net_interfaces_filter(sys, has, query))
  BY FilterIs
<1>4. Queried(sys, has, list, {}, all)
  <2>1. Queried(sys, has, list, {}, query_net_interfaces_filter(sys, has, {}))
    BY <1>3
  <2> HIDE DEF list
  <2> QED BY <2>1 DEF query_net_interfaces
<1> SUFFICES ASSUME NEW name \in DOMAIN all
             PROVE  /\ \A one \in query_net_interface(sys, has, name) :
                          one = all[name] \/ ("AF_LINK" \in has /\ NestedVlan(sys, has, name)
                                                /\ [one EXCEPT !.hw_addr = {}] = [all[name] EXCEPT !.hw_addr = {}])
                    /\ query_net_interface(sys, has, name) # {}
                    /\ \A i, j \in DOMAIN all[name].inet : all[name].inet[i].addr = all[name].inet[j].addr => i = j
                    /\ {sys.entries[i].addr : i \in {i \in DOMAIN sys.entries :
                           sys.entries[i].name = name /\ sys.entries[i].family = "INET"}}
                         = {all[name].inet[i].addr : i \in DOMAIN all[name].inet}
                    /\ all[name].hw_addr \subseteq linked \cup (asked \ {0})
                    /\ \A v \in all[name].vlan : v.id <= MaxVlan /\ v \in sys.vlan[name]
  BY DEF OneAsAll
<1> DEFINE m == query_net_interfaces_filter(sys, has, {name})
<1>5. Queried(sys, has, list, {name}, m)
  BY <1>3
<1>6. query_net_interface(sys, has, name) = {m[name]}
  <2>1. name \in DOMAIN m
    <3> HIDE DEF m, list, all
    <3> QED BY <1>4, <1>5 DEF Queried
  <2> QED BY <2>1 DEF query_net_interface
<1>7. NestedVlan(sys, has, name) <=> \E v \in sys.vlan[name] : v.parent \in DOMAIN all /\ sys.vlan[v.parent] # {}
  BY DEF NestedVlan
<1> HIDE DEF m, list, all
<1>8. \/ m[name] = all[name]
      \/ /\ "AF_LINK" \in has
         /\ \E v \in sys.vlan[name] : v.parent \in DOMAIN all /\ sys.vlan[v.parent] # {}
         /\ [m[name] EXCEPT !.hw_addr = {}] = [all[name] EXCEPT !.hw_addr = {}]
  <2>1. AsAmongAll(m, sys, has, all, name)
    BY <1>2, <1>4, <1>5, OneIsAsAll
  <2> QED BY <2>1 DEF AsAmongAll
<1>9. /\ \A i, j \in DOMAIN all[name].inet : all[name].inet[i].addr = all[name].inet[j].addr => i = j
      /\ \A a : IsListed(all[name], a) <=> Inets(sys.entries, name, n, a)
      /\ \A a \in all[name].hw_addr : GivenAddress(sys, a)
      /\ \A v \in all[name].vlan : v.id <= MaxVlan /\ v \in sys.vlan[name]
  BY <1>2, <1>4, DetailsAre
<1>10. {sys.entries[i].addr : i \in {i \in DOMAIN sys.entries :
           sys.entries[i].name = name /\ sys.entries[i].family = "INET"}}
         = {all[name].inet[i].addr : i \in DOMAIN all[name].inet}
  <2>1. \A a : IsListed(all[name], a) <=> a \in {all[name].inet[i].addr : i \in DOMAIN all[name].inet}
    BY DEF IsListed
  <2>2. \A a : Inets(sys.entries, name, n, a) <=>
                 a \in {sys.entries[i].addr : i \in {i \in 1 .. n : sys.entries[i].name = name /\ sys.entries[i].family = "INET"}}
    <3> HIDE DEF n
    <3> QED BY DEF Inets
  <2>3. \A a : IsListed(all[name], a) <=> Inets(sys.entries, name, n, a)
    BY <1>9
  <2>4. DOMAIN sys.entries = 1 .. n
    BY <1>1
  <2> HIDE DEF n
  <2> QED BY <2>1, <2>2, <2>3, <2>4
<1>11. all[name].hw_addr \subseteq linked \cup (asked \ {0})
  BY <1>1, <1>9 DEF GivenAddress, Linked
<1>12. \A one \in query_net_interface(sys, has, name) :
          one = all[name] \/ ("AF_LINK" \in has /\ NestedVlan(sys, has, name)
                                /\ [one EXCEPT !.hw_addr = {}] = [all[name] EXCEPT !.hw_addr = {}])
  BY <1>6, <1>7, <1>8
<1>13. query_net_interface(sys, has, name) # {}
  BY <1>6
<1> HIDE DEF linked, asked
<1> QED BY <1>9, <1>10, <1>11, <1>12, <1>13

\* For every list of getifaddrs() and every answer of the calls, in each build:
\* asking for one interface gives what asking for all of them gives, but for
\* the address of a VLAN on a VLAN; the addresses of an interface are those of
\* the list, each once; and its Ethernet address and its VLAN are given ones
\* (query_net_interfaces of net_common.cpp).
THEOREM InterfacesAreRight == FSpec => []InterfacesRight
<1>1. Called => InterfacesRight
  <2> SUFFICES ASSUME Called, call.fn = "interfaces" PROVE OneAsAll(call.sys, call.has)
    BY DEF InterfacesRight
  <2>1. Given(call.sys) /\ call.has \in {Builds[x] : x \in DOMAIN Builds} /\ MaxVlan \in Nat
    <3>1. call \in InterfaceCalls
      BY CallSets
    <3> QED BY <3>1, FunctionsAssumption
  <2> QED BY <2>1, InterfacesAreAsAll
<1> QED BY <1>1, CalledAlways, PTL

-----------------------------------------------------------------------------
(* Text: copies *)

LEMMA MinIsThis ==
  ASSUME NEW S \in SUBSET Nat, NEW k \in S, \A y \in S : k <= y
  PROVE  Min(S) = k
<1>1. Min(S) \in S /\ \A y \in S : Min(S) <= y
  BY MinIs
<1>2. Min(S) \in Nat /\ Min(S) <= k /\ k <= Min(S)
  BY <1>1
<1> QED BY <1>2

LEMMA CopiedIs ==
  ASSUME NEW src \in Texts, NEW size \in Nat \ {0}
  PROVE  /\ Copied(src, size) \in Nat /\ Copied(src, size) <= Len(src) /\ Copied(src, size) < size
         /\ Copied(src, size) = Len(src) \/ Copied(src, size) = size - 1
<1> DEFINE S == {Len(src), size - 1}
<1>1. S \in SUBSET Nat /\ S # {}
  BY DEF Texts
<1>2. Min(S) \in S /\ \A y \in S : Min(S) <= y
  <2> HIDE DEF S
  <2> QED BY <1>1, MinIs
<1>3. Copied(src, size) = Min(S)
  BY DEF Copied
<1> QED BY <1>1, <1>2, <1>3

\* A part of a sequence is determined by its elements.
LEMMA SameParts ==
  ASSUME NEW A, NEW s \in Seq(A), NEW t \in Seq(A), NEW m \in Nat \ {0}, NEW n \in Nat,
         m <= n + 1, n <= Len(s), n <= Len(t), \A j \in m .. n : s[j] = t[j]
  PROVE  SubSeq(s, m, n) = SubSeq(t, m, n)
<1> DEFINE a == SubSeq(s, m, n)
           b == SubSeq(t, m, n)
<1>1. Part(A, s, m, n, a) /\ Part(A, t, m, n, b)
  BY SubSeqIs
<1> HIDE DEF a, b
<1>2. /\ a \in Seq(A) /\ b \in Seq(A) /\ Len(a) = n - m + 1 /\ Len(b) = n - m + 1
      /\ \A i \in 1 .. n - m + 1 : a[i] = s[m + i - 1] /\ b[i] = t[m + i - 1]
  BY <1>1 DEF Part
<1>3. \A i \in 1 .. n - m + 1 : m + i - 1 \in m .. n
  OBVIOUS
<1>4. \A i \in 1 .. Len(a) : a[i] = b[i]
  BY <1>2, <1>3
<1>5. a = b
  BY <1>2, <1>4, SameSeq
<1> QED BY <1>5 DEF a, b

LEMMA CopyIsRight ==
  ASSUME NEW dst \in Texts, NEW src \in Texts, NEW size \in Nat, NUL \notin ToSet(src), size <= Len(dst)
  PROVE  CopyRight(dst, src, size)
<1> DEFINE c == strlcpy(dst, src, size)
           d == c.dst
           n == Len(dst)
           k == Copied(src, size)
           ends == Where(d, NUL)
<1>1. dst \in Seq(Nat) /\ src \in Seq(Nat) /\ n \in Nat /\ size <= n /\ DOMAIN dst = 1 .. n
  BY DEF Texts
<1>2. /\ c.length = Len(src)
      /\ d = [i \in 1 .. n |-> IF size = 0 THEN dst[i] ELSE IF i <= k THEN src[i]
                               ELSE IF i = k + 1 THEN NUL ELSE dst[i]]
  BY <1>1 DEF strlcpy
<1> HIDE DEF c, d
<1>3. size # 0 => /\ k \in Nat /\ k <= Len(src) /\ k < size
                  /\ (k = Len(src) \/ k = size - 1)
  BY CopiedIs
<1> HIDE DEF k
<1>4. \A i \in 1 .. Len(src) : src[i] # NUL
  BY <1>1 DEF ToSet
<1>5. d \in Seq(Nat) /\ Len(d) = n /\ DOMAIN d = 1 .. n
  <2>1. NUL \in Nat
    BY DEF NUL
  <2>2. ASSUME NEW i \in 1 .. n PROVE d[i] \in Nat
    <3>1. dst[i] \in Nat
      BY <1>1
    <3>2. size # 0 /\ i <= k => src[i] \in Nat
      <4>1. size # 0 /\ i <= k => i \in 1 .. Len(src)
        BY <1>1, <1>3
      <4> QED BY <1>1, <4>1
    <3> QED BY <1>2, <2>1, <3>1, <3>2
  <2>3. DOMAIN d = 1 .. n /\ d = [i \in 1 .. n |-> d[i]]
    BY <1>2
  <2>4. d \in [1 .. n -> Nat]
    BY <2>2, <2>3
  <2> HIDE DEF n
  <2> QED BY <1>1, <2>4
<1>6. \A i \in 1 .. n : d[i] = IF size = 0 THEN dst[i] ELSE IF i <= k THEN src[i]
                               ELSE IF i = k + 1 THEN NUL ELSE dst[i]
  BY <1>2
<1> HIDE DEF n
<1>7. SubSeq(d, size + 1, n) = SubSeq(dst, size + 1, n)
  <2>1. \A j \in size + 1 .. n : d[j] = dst[j]
    BY <1>1, <1>3, <1>6
  <2>2. size + 1 \in Nat \ {0} /\ size + 1 <= n + 1 /\ n <= Len(d) /\ n <= Len(dst)
    BY <1>1, <1>5
  <2> HIDE DEF n
  <2> QED BY <1>1, <1>5, <2>1, <2>2, SameParts
<1>8. ASSUME size > 0
      PROVE  /\ ends # {} /\ Min(ends) <= size
             /\ SubSeq(d, 1, Min(ends) - 1) = SubSeq(src, 1, Min(ends) - 1)
             /\ c.length < size <=> Min(ends) - 1 = Len(src)
  <2>1. size # 0 /\ k + 1 \in 1 .. n
    BY <1>1, <1>3, <1>8
  <2>2. d[k + 1] = NUL /\ \A j \in 1 .. k : d[j] = src[j] /\ d[j] # NUL
    <3>1. d[k + 1] = NUL
      <4>1. ~(k + 1 <= k)
        BY <1>3, <2>1
      <4> QED BY <1>6, <2>1, <4>1
    <3>2. ASSUME NEW j \in 1 .. k PROVE d[j] = src[j] /\ d[j] # NUL
      <4>1. j \in 1 .. n /\ j <= k /\ j \in 1 .. Len(src)
        BY <1>1, <1>3, <2>1
      <4> QED BY <1>4, <1>6, <2>1, <4>1
    <3> QED BY <3>1, <3>2
  <2>3. ends \in SUBSET Nat /\ k + 1 \in ends /\ \A y \in ends : k + 1 <= y
    BY <1>1, <1>3, <1>5, <2>1, <2>2 DEF Where, ends
  <2>4. Min(ends) = k + 1
    <3> HIDE DEF ends
    <3> QED BY <2>3, MinIsThis
  <2> HIDE DEF ends
  <2>5. Min(ends) - 1 = k
    BY <1>3, <2>1, <2>4
  <2>6. SubSeq(d, 1, k) = SubSeq(src, 1, k)
    <3>1. 1 \in Nat \ {0} /\ k \in Nat /\ 1 <= k + 1 /\ k <= Len(d) /\ k <= Len(src)
      BY <1>1, <1>3, <1>5, <2>1
    <3> QED BY <1>1, <1>5, <2>2, <3>1, SameParts
  <2>7. Len(src) < size <=> k = Len(src)
    BY <1>1, <1>3, <2>1
  <2> QED BY <1>2, <1>3, <2>1, <2>3, <2>4, <2>5, <2>6, <2>7
<1> QED BY <1>7, <1>8 DEF CopyRight, c, d, n

-----------------------------------------------------------------------------
(* Text: the columns of a headline *)

LEMMA CardOfTwo ==
  ASSUME NEW a, NEW b
  PROVE  /\ IsFiniteSet({a, b}) /\ Cardinality({a, b}) \in Nat /\ Cardinality({a, b}) <= 2
         /\ a # b => Cardinality({a, b}) = 2
<1> DEFINE S == {a}
           T == S \cup {b}
           V == {a, b}
<1>1. IsFiniteSet(S) /\ Cardinality(S) = 1
  BY FS_Singleton
<1>2. (b \in S <=> a = b) /\ V = T
  OBVIOUS
<1> HIDE DEF S
<1>3. IsFiniteSet(T) /\ Cardinality(T) = IF b \in S THEN Cardinality(S) ELSE Cardinality(S) + 1
  BY <1>1, FS_AddElement
<1> HIDE DEF T, V
<1>4. IsFiniteSet(V) /\ Cardinality(V) \in Nat /\ Cardinality(V) <= 2 /\ (a # b => Cardinality(V) = 2)
  BY <1>1, <1>2, <1>3
<1> QED BY <1>4 DEF V

LEMMA CardOfThree ==
  ASSUME NEW a, NEW b, NEW c, a # b, a # c, b # c
  PROVE  Cardinality({a, b, c}) = 3
<1> DEFINE V == {a, b}
           T == V \cup {c}
           W == {a, b, c}
<1>1. IsFiniteSet(V) /\ Cardinality(V) = 2
  BY CardOfTwo
<1>2. c \notin V /\ W = T
  OBVIOUS
<1> HIDE DEF V
<1>3. Cardinality(T) = IF c \in V THEN Cardinality(V) ELSE Cardinality(V) + 1
  BY <1>1, FS_AddElement
<1> HIDE DEF T, W
<1>4. Cardinality(W) = 3
  BY <1>1, <1>2, <1>3
<1> QED BY <1>4 DEF W

\* The fields of a column, and those of all columns.
FieldsOf(headline, x) == {f \in DOMAIN headline : headline[f] = x}
ColumnFields(headline) == {f \in DOMAIN headline : headline[f] \in 1 .. 3}

LEMMA FindColumnsIs ==
  ASSUME NEW headline
  PROVE  find_columns(headline, <<1, 2, 3>>)
           = IF Len(headline) < 3 \/ Cardinality(ColumnFields(headline)) # 3 THEN {}
             ELSE {[c \in 1 .. 3 |-> IF FieldsOf(headline, c) = {} THEN 1 ELSE Max(FieldsOf(headline, c))]}
<1> DEFINE columns == <<1, 2, 3>>
           fields(c) == {f \in DOMAIN headline : headline[f] = columns[c]}
           found == {f \in DOMAIN headline : \E c \in DOMAIN columns : headline[f] = columns[c]}
<1>1. find_columns(headline, columns)
        = IF Len(headline) < Len(columns) \/ Cardinality(found) # Len(columns) THEN {}
          ELSE {[c \in DOMAIN columns |-> IF fields(c) = {} THEN 1 ELSE Max(fields(c))]}
  BY DEF find_columns
<1>2. Len(columns) = 3 /\ DOMAIN columns = 1 .. 3 /\ \A c \in 1 .. 3 : columns[c] = c
  OBVIOUS
<1> HIDE DEF columns
<1>3. found = ColumnFields(headline)
  BY <1>2 DEF ColumnFields
<1>4. \A c \in 1 .. 3 : fields(c) = FieldsOf(headline, c)
  BY <1>2 DEF FieldsOf
<1> HIDE DEF found, fields
<1>5. [c \in DOMAIN columns |-> IF fields(c) = {} THEN 1 ELSE Max(fields(c))]
        = [c \in 1 .. 3 |-> IF FieldsOf(headline, c) = {} THEN 1 ELSE Max(FieldsOf(headline, c))]
  BY <1>2, <1>4
<1>6. find_columns(headline, columns)
           = IF Len(headline) < 3 \/ Cardinality(ColumnFields(headline)) # 3 THEN {}
             ELSE {[c \in 1 .. 3 |-> IF FieldsOf(headline, c) = {} THEN 1 ELSE Max(FieldsOf(headline, c))]}
  BY <1>1, <1>2, <1>3, <1>5
<1> QED BY <1>6 DEF columns

\* Without the field of one column there are two fields at most.
LEMMA TwoFields ==
  ASSUME NEW headline, \A f, g \in DOMAIN headline : headline[f] = headline[g] => f = g,
         NEW c \in 1 .. 3, FieldsOf(headline, c) = {}
  PROVE  Cardinality(ColumnFields(headline)) # 3
<1>1. PICK a \in 1 .. 3, b \in 1 .. 3 : \A x \in 1 .. 3 : x \in {a, b, c}
  <2>1. \A x \in 1 .. 3 : x = 1 \/ x = 2 \/ x = 3
    OBVIOUS
  <2>2. 1 \in 1 .. 3 /\ 2 \in 1 .. 3 /\ 3 \in 1 .. 3
    OBVIOUS
  <2>3. \E a \in 1 .. 3, b \in 1 .. 3 : a \in {1, 2, 3} \ {c} /\ b \in {1, 2, 3} \ {c} /\ a # b
    <3>1. CASE c = 1
      BY <2>2, <3>1
    <3>2. CASE c = 2
      BY <2>2, <3>2
    <3>3. CASE c = 3
      BY <2>2, <3>3
    <3> QED BY <2>1, <3>1, <3>2, <3>3
  <2> QED BY <2>1, <2>3
<1> DEFINE F == ColumnFields(headline)
           f == CHOOSE f \in DOMAIN headline : headline[f] = a
           g == CHOOSE g \in DOMAIN headline : headline[g] = b
<1>2. \A h \in F : h \in DOMAIN headline /\ (headline[h] = a \/ headline[h] = b)
  BY <1>1 DEF ColumnFields, FieldsOf
<1>3. \A h \in DOMAIN headline : headline[h] = a => h = f
  OBVIOUS
<1>4. \A h \in DOMAIN headline : headline[h] = b => h = g
  OBVIOUS
<1> HIDE DEF f, g
<1> DEFINE T == {f, g}
<1>5. F \subseteq T
  BY <1>2, <1>3, <1>4
<1>6. IsFiniteSet(T) /\ Cardinality(T) \in Nat /\ Cardinality(T) <= 2
  BY CardOfTwo
<1> HIDE DEF F, T
<1>7. Cardinality(F) <= Cardinality(T) /\ Cardinality(F) \in Nat
  BY <1>5, <1>6, FS_Subset, FS_CardinalityType
<1>8. Cardinality(F) # 3
  BY <1>6, <1>7
<1> QED BY <1>8 DEF F

LEMMA ColumnsAreRight ==
  ASSUME NEW headline \in Seq(Nat)
  PROVE  ColumnsRight(headline, <<1, 2, 3>>)
<1> DEFINE columns == <<1, 2, 3>>
           found == find_columns(headline, columns)
           n == Len(headline)
<1> SUFFICES ASSUME \A f, g \in DOMAIN headline : headline[f] = headline[g] => f = g
             PROVE  IF \A c \in DOMAIN columns : \E f \in DOMAIN headline : headline[f] = columns[c]
                    THEN found # {} /\ \A index \in found, c \in DOMAIN columns : headline[index[c]] = columns[c]
                    ELSE found = {}
  BY DEF ColumnsRight
<1>1. found = IF n < 3 \/ Cardinality(ColumnFields(headline)) # 3 THEN {}
              ELSE {[c \in 1 .. 3 |-> IF FieldsOf(headline, c) = {} THEN 1 ELSE Max(FieldsOf(headline, c))]}
  BY FindColumnsIs
<1>2. DOMAIN columns = 1 .. 3 /\ \A c \in 1 .. 3 : columns[c] = c
  OBVIOUS
<1> HIDE DEF found, columns
<1>3. n \in Nat /\ DOMAIN headline = 1 .. n
  OBVIOUS
<1>4. CASE \A c \in 1 .. 3 : \E f \in DOMAIN headline : headline[f] = c
  <2>1. PICK f1 \in DOMAIN headline : headline[f1] = 1
    BY <1>4
  <2>2. PICK f2 \in DOMAIN headline : headline[f2] = 2
    BY <1>4
  <2>3. PICK f3 \in DOMAIN headline : headline[f3] = 3
    BY <1>4
  <2> DEFINE F == {f1, f2, f3}
  <2>4. f1 # f2 /\ f1 # f3 /\ f2 # f3
    BY <2>1, <2>2, <2>3
  <2>5. Cardinality(F) = 3
    BY <2>4, CardOfThree
  <2>6. ColumnFields(headline) = F
    <3>1. \A f \in DOMAIN headline : headline[f] \in 1 .. 3 => (headline[f] = 1 \/ headline[f] = 2 \/ headline[f] = 3)
      OBVIOUS
    <3>2. \A f \in DOMAIN headline : headline[f] \in 1 .. 3 => f \in F
      BY <2>1, <2>2, <2>3, <3>1
    <3>3. \A f \in F : f \in DOMAIN headline /\ headline[f] \in 1 .. 3
      BY <2>1, <2>2, <2>3
    <3> HIDE DEF F
    <3> QED BY <3>2, <3>3 DEF ColumnFields
  <2>7. ~(n < 3)
    <3>1. F \subseteq 1 .. n
      BY <1>3, <2>1, <2>2, <2>3
    <3>2. IsFiniteSet(1 .. n) /\ Cardinality(1 .. n) = n
      <4> HIDE DEF n
      <4> QED BY <1>3, FS_Interval
    <3> HIDE DEF F, n
    <3>3. Cardinality(F) <= Cardinality(1 .. n)
      BY <3>1, <3>2, FS_Subset
    <3> QED BY <1>3, <2>5, <3>2, <3>3
  <2> DEFINE index == [c \in 1 .. 3 |-> IF FieldsOf(headline, c) = {} THEN 1 ELSE Max(FieldsOf(headline, c))]
  <2>8. found = {index}
    <3> HIDE DEF n, F, index
    <3> QED BY <1>1, <2>5, <2>6, <2>7 DEF index
  <2>9. ASSUME NEW c \in 1 .. 3 PROVE headline[index[c]] = c
    <3> DEFINE S == FieldsOf(headline, c)
    <3>1. S \in SUBSET (0 .. n) /\ S # {}
      BY <1>3, <1>4 DEF FieldsOf
    <3>2. \A f \in S : headline[f] = c
      BY DEF FieldsOf
    <3>3. index[c] = Max(S)
      BY <3>1
    <3> HIDE DEF S, index, n
    <3>4. Max(S) \in S
      BY <1>3, <3>1, MaxIs
    <3> QED BY <3>2, <3>3, <3>4
  <2> HIDE DEF index
  <2> QED BY <1>2, <1>4, <2>8, <2>9
<1>5. CASE ~\A c \in 1 .. 3 : \E f \in DOMAIN headline : headline[f] = c
  <2>1. PICK c \in 1 .. 3 : FieldsOf(headline, c) = {}
    BY <1>5 DEF FieldsOf
  <2>2. Cardinality(ColumnFields(headline)) # 3
    BY <2>1, TwoFields
  <2>3. found = {}
    BY <1>1, <2>2
  <2> QED BY <1>2, <1>5, <2>3
<1> QED BY <1>4, <1>5

-----------------------------------------------------------------------------
(* Text: the names of hosts *)

LEMMA PrefixElements ==
  ASSUME NEW s \in Texts, NEW t \in Texts
  PROVE  IsPrefix(s, t) <=> (Len(s) <= Len(t) /\ \A j \in 1 .. Len(s) : t[j] = s[j])
<1> DEFINE n == Len(s)
           a == SubSeq(s, 1, n)
           b == SubSeq(t, 1, n)
<1>1. s \in Seq(Nat) /\ t \in Seq(Nat) /\ n \in Nat
  BY DEF Texts
<1>2. IsPrefix(s, t) <=> (n <= Len(t) /\ a = b)
  BY DEF IsPrefix
<1>3. ASSUME n <= Len(t) PROVE a = b <=> \A j \in 1 .. n : t[j] = s[j]
  <2>1. 1 \in Nat \ {0} /\ 1 <= n + 1 /\ n <= Len(s)
    BY <1>1
  <2>2. Part(Nat, s, 1, n, a) /\ Part(Nat, t, 1, n, b)
    BY <1>1, <1>3, <2>1, SubSeqIs
  <2> HIDE DEF a, b
  <2>3. /\ a \in Seq(Nat) /\ b \in Seq(Nat) /\ Len(a) = n /\ Len(b) = n
        /\ \A i \in 1 .. n : a[i] = s[i] /\ b[i] = t[i]
    <3>1. /\ a \in Seq(Nat) /\ b \in Seq(Nat) /\ Len(a) = n - 1 + 1 /\ Len(b) = n - 1 + 1
          /\ \A i \in 1 .. n - 1 + 1 : a[i] = s[1 + i - 1] /\ b[i] = t[1 + i - 1]
      BY <2>2 DEF Part
    <3>2. n - 1 + 1 = n /\ \A i \in 1 .. n : 1 + i - 1 = i
      BY <1>1
    <3> QED BY <3>1, <3>2
  <2> HIDE DEF n
  <2>4. ASSUME \A j \in 1 .. n : t[j] = s[j] PROVE a = b
    <3>1. \A i \in 1 .. Len(a) : a[i] = b[i]
      BY <2>3, <2>4
    <3> QED BY <2>3, <3>1, SameSeq
  <2> QED BY <2>3, <2>4
<1> QED BY <1>2, <1>3

LEMMA HostnameIs ==
  ASSUME NEW buffer \in Texts, NEW name \in gethostname(0, buffer)
  PROVE  /\ name \in Texts /\ Where(name, Dot) = {} /\ Where(name, NUL) = {} /\ IsPrefix(name, buffer)
<1> DEFINE ends == Where(buffer, Dot) \cup Where(buffer, NUL)
           n == Len(buffer)
<1>1. buffer \in Seq(Nat) /\ n \in Nat /\ DOMAIN buffer = 1 .. n
  BY DEF Texts
<1>2. name = IF ends = {} THEN buffer ELSE SubSeq(buffer, 1, Min(ends) - 1)
  BY DEF gethostname
<1>3. \A i \in 1 .. n : buffer[i] \in {Dot, NUL} <=> i \in ends
  BY <1>1 DEF Where
<1>4. ends \in SUBSET (1 .. n)
  BY <1>1 DEF Where
<1> HIDE DEF ends
<1>5. \E k \in 0 .. n : name = SubSeq(buffer, 1, k) /\ \A i \in 1 .. k : i \notin ends
  <2>1. CASE ends = {}
    <3>1. name = SubSeq(buffer, 1, n)
      BY <1>1, <1>2, <2>1
    <3>2. n \in 0 .. n /\ \A i \in 1 .. n : i \notin ends
      BY <1>1, <2>1
    <3> HIDE DEF n
    <3> QED BY <3>1, <3>2
  <2>2. CASE ends # {}
    <3>1. ends \in SUBSET Nat
      BY <1>1, <1>4
    <3>2. Min(ends) \in ends /\ \A y \in ends : Min(ends) <= y
      BY <2>2, <3>1, MinIs
    <3> DEFINE x == Min(ends)
               k == x - 1
    <3> HIDE DEF x, n
    <3>3. x \in 1 .. n /\ \A y \in ends : x <= y
      BY <1>4, <3>2 DEF x
    <3>4. k \in 0 .. n /\ \A i \in 1 .. k : i \notin ends
      BY <1>1, <3>3
    <3>5. name = SubSeq(buffer, 1, k)
      BY <1>2, <2>2 DEF x
    <3> QED BY <3>4, <3>5
  <2> QED BY <2>1, <2>2
<1>6. PICK k \in 0 .. n : name = SubSeq(buffer, 1, k) /\ \A i \in 1 .. k : i \notin ends
  BY <1>5
<1>7. name \in Seq(Nat) /\ Len(name) = k /\ \A i \in 1 .. k : name[i] = buffer[i]
  <2>1. 1 \in Nat \ {0} /\ k \in Nat /\ 1 <= k + 1 /\ k <= Len(buffer)
    BY <1>1
  <2>2. Part(Nat, buffer, 1, k, name)
    BY <1>1, <1>6, <2>1, SubSeqIs
  <2>3. name \in Seq(Nat) /\ Len(name) = k - 1 + 1 /\ \A i \in 1 .. k - 1 + 1 : name[i] = buffer[1 + i - 1]
    BY <2>2 DEF Part
  <2>4. k - 1 + 1 = k /\ \A i \in 1 .. k : 1 + i - 1 = i
    BY <1>1
  <2> QED BY <2>3, <2>4
<1>8. \A i \in 1 .. k : name[i] # Dot /\ name[i] # NUL
  <2>1. \A i \in 1 .. k : i \in 1 .. n
    BY <1>1
  <2> QED BY <1>3, <1>6, <1>7, <2>1
<1>9. DOMAIN name = 1 .. k /\ name \in Texts /\ k <= n
  BY <1>1, <1>7 DEF Texts
<1>10. IsPrefix(name, buffer)
  BY <1>7, <1>9, PrefixElements
<1> QED BY <1>8, <1>9, <1>10 DEF Where

\* The host h is of the domain behind a name and a dot.
Ours(name, h) == IsPrefix(Append(name, Dot), h)

LEMMA OursIs ==
  ASSUME NEW name \in Texts, NEW h \in Texts
  PROVE  Ours(name, h) <=> /\ Len(name) + 1 <= Len(h) /\ h[Len(name) + 1] = Dot
                           /\ \A j \in 1 .. Len(name) : h[j] = name[j]
<1> DEFINE a == Append(name, Dot)
           n == Len(name)
<1>1. /\ a \in Texts /\ Len(a) = n + 1 /\ a[n + 1] = Dot /\ n \in Nat
      /\ \A j \in 1 .. n : a[j] = name[j]
  BY DEF Texts, Dot
<1> HIDE DEF a, n
<1>2. IsPrefix(a, h) <=> (Len(a) <= Len(h) /\ \A j \in 1 .. Len(a) : h[j] = a[j])
  BY <1>1, PrefixElements
<1>3. \A j : j \in 1 .. n + 1 <=> (j \in 1 .. n \/ j = n + 1)
  BY <1>1
<1>4. IsPrefix(a, h) <=> (n + 1 <= Len(h) /\ h[n + 1] = Dot /\ \A j \in 1 .. n : h[j] = name[j])
  BY <1>1, <1>2, <1>3
<1> QED BY <1>4 DEF a, n, Ours

LEMMA DomainOf ==
  ASSUME NEW name \in Texts, NEW h \in Texts, Ours(name, h)
  PROVE  Append(name, Dot) \o SubSeq(h, Len(name) + 2, Len(h)) = h
<1> DEFINE a == Append(name, Dot)
           n == Len(name)
           b == SubSeq(h, n + 2, Len(h))
           r == a \o b
           m == Len(h)
<1>1. /\ a \in Seq(Nat) /\ Len(a) = n + 1 /\ a[n + 1] = Dot /\ n \in Nat /\ h \in Seq(Nat) /\ m \in Nat
      /\ \A j \in 1 .. n : a[j] = name[j]
  BY DEF Texts, Dot
<1>2. n + 1 <= m /\ h[n + 1] = Dot /\ \A j \in 1 .. n : h[j] = name[j]
  BY OursIs
<1> HIDE DEF n, a
<1>3. b \in Seq(Nat) /\ Len(b) = m - (n + 2) + 1 /\ \A i \in 1 .. m - (n + 2) + 1 : b[i] = h[(n + 2) + i - 1]
  <2>1. n + 2 \in Nat \ {0} /\ n + 2 <= m + 1 /\ m <= Len(h)
    BY <1>1, <1>2
  <2>2. Part(Nat, h, n + 2, m, b)
    BY <1>1, <2>1, SubSeqIs
  <2> HIDE DEF b, m
  <2> QED BY <2>2 DEF Part
<1> HIDE DEF b
<1>4. Joins(Nat, a, b, r)
  BY <1>1, <1>3, ConcatIs
<1> HIDE DEF r
<1>5. /\ r \in Seq(Nat) /\ Len(r) = m
      /\ (\A j \in 1 .. n + 1 : r[j] = a[j]) /\ \A j \in n + 2 .. m : r[j] = b[j - (n + 1)]
  <2>1. /\ r \in Seq(Nat) /\ Len(r) = (n + 1) + (m - (n + 2) + 1)
        /\ (\A j \in 1 .. n + 1 : r[j] = a[j]) /\ \A j \in (n + 1) + 1 .. Len(r) : r[j] = b[j - (n + 1)]
    BY <1>1, <1>3, <1>4 DEF Joins
  <2>2. (n + 1) + (m - (n + 2) + 1) = m /\ (n + 1) + 1 = n + 2
    BY <1>1
  <2> QED BY <2>1, <2>2
<1> HIDE DEF m
<1>6. ASSUME NEW j \in 1 .. m PROVE r[j] = h[j]
  <2>1. CASE j <= n
    BY <1>1, <1>2, <1>5, <2>1
  <2>2. CASE j = n + 1
    BY <1>1, <1>2, <1>5, <2>2
  <2>3. CASE n + 2 <= j
    <3> DEFINE i == j - (n + 1)
    <3>1. i \in 1 .. m - (n + 2) + 1 /\ (n + 2) + i - 1 = j /\ j \in n + 2 .. m
      BY <1>1, <2>3
    <3>2. r[j] = b[i] /\ b[i] = h[(n + 2) + i - 1]
      BY <1>3, <1>5, <3>1
    <3> QED BY <3>1, <3>2
  <2> QED BY <1>1, <2>1, <2>2, <2>3
<1>7. Len(h) = m
  BY DEF m
<1>8. r = h
  BY <1>1, <1>5, <1>6, <1>7, SameSeq
<1> QED BY <1>8 DEF r, a, b, n, m

LEMMA DomainIs ==
  ASSUME NEW name \in Texts, NEW hosts \in Seq(Texts)
  PROVE  /\ \A domain \in HostentDomain(name, hosts) : Append(name, Dot) \o domain \in ToSet(hosts)
         /\ HostentDomain(name, hosts) = {} => \A k \in DOMAIN hosts : ~Ours(name, hosts[k])
<1> DEFINE K == {j \in DOMAIN hosts : Ours(name, hosts[j])}
           d == HostentDomain(name, hosts)
<1>1. d = IF ~\E k \in DOMAIN hosts : Ours(name, hosts[k]) THEN {}
          ELSE {SubSeq(hosts[Min(K)], Len(name) + 2, Len(hosts[Min(K)]))}
  BY DEF HostentDomain, Ours
<1> HIDE DEF d
<1>2. CASE K = {}
  <2>1. \A k \in DOMAIN hosts : ~Ours(name, hosts[k])
    BY <1>2
  <2>2. d = {}
    BY <1>1, <2>1
  <2> QED BY <2>1, <2>2 DEF d
<1>3. CASE K # {}
  <2>1. K \in SUBSET Nat /\ K \subseteq DOMAIN hosts /\ \A k \in K : Ours(name, hosts[k])
    OBVIOUS
  <2>2. \E k \in DOMAIN hosts : Ours(name, hosts[k])
    BY <1>3
  <2> HIDE DEF K
  <2>3. Min(K) \in K
    BY <1>3, <2>1, MinIs
  <2> DEFINE k == Min(K)
             h == hosts[k]
             x == SubSeq(h, Len(name) + 2, Len(h))
  <2>4. d = {x}
    BY <1>1, <2>2
  <2>5. k \in DOMAIN hosts /\ h \in Texts /\ Ours(name, h) /\ h \in ToSet(hosts)
    <3>1. k \in DOMAIN hosts /\ Ours(name, h)
      BY <2>1, <2>3
    <3> HIDE DEF k
    <3> QED BY <3>1 DEF ToSet
  <2> HIDE DEF h, k
  <2>6. Append(name, Dot) \o x = h
    BY <2>5, DomainOf
  <2> HIDE DEF x
  <2>7. \A y \in d : Append(name, Dot) \o y \in ToSet(hosts)
    BY <2>4, <2>5, <2>6
  <2> QED BY <2>4, <2>7 DEF d
<1> QED BY <1>2, <1>3

\* A host whose name ends at its first dot is one of this name.
LEMMA FirstDotIsOurs ==
  ASSUME NEW name \in Texts, NEW h \in Texts, Where(h, Dot) # {},
         SubSeq(h, 1, Min(Where(h, Dot)) - 1) = name
  PROVE  Ours(name, h)
<1> DEFINE W == Where(h, Dot)
           x == Min(W)
           m == Len(h)
<1>1. h \in Seq(Nat) /\ m \in Nat /\ W \in SUBSET (1 .. m) /\ \A i \in W : h[i] = Dot
  BY DEF Texts, Where
<1>2. name = SubSeq(h, 1, x - 1)
  OBVIOUS
<1>3. W # {}
  OBVIOUS
<1> HIDE DEF W
<1>4. x \in 1 .. m /\ h[x] = Dot
  <2>1. W \in SUBSET Nat
    BY <1>1
  <2>2. x \in W
    BY <1>3, <2>1, MinIs
  <2> HIDE DEF x
  <2> QED BY <1>1, <2>2
<1> HIDE DEF x
<1>5. name \in Seq(Nat) /\ Len(name) = x - 1 /\ \A i \in 1 .. x - 1 : name[i] = h[i]
  <2>1. 1 \in Nat \ {0} /\ x - 1 \in Nat /\ 1 <= (x - 1) + 1 /\ x - 1 <= Len(h)
    BY <1>1, <1>4
  <2>2. Part(Nat, h, 1, x - 1, name)
    BY <1>1, <1>2, <2>1, SubSeqIs
  <2>3. /\ name \in Seq(Nat) /\ Len(name) = (x - 1) - 1 + 1
        /\ \A i \in 1 .. (x - 1) - 1 + 1 : name[i] = h[1 + i - 1]
    BY <2>2 DEF Part
  <2>4. (x - 1) - 1 + 1 = x - 1 /\ \A i \in 1 .. x - 1 : 1 + i - 1 = i
    BY <1>1, <1>4
  <2> QED BY <2>3, <2>4
<1>6. Len(name) + 1 = x /\ Len(name) + 1 <= Len(h)
  BY <1>1, <1>4, <1>5
<1>7. h[Len(name) + 1] = Dot /\ \A j \in 1 .. Len(name) : h[j] = name[j]
  BY <1>4, <1>5, <1>6
<1> QED BY <1>6, <1>7, OursIs

\* The first address that has a name.
LEMMA NameinfoIs ==
  ASSUME NEW hosts \in Seq(Texts)
  PROVE  LET infos == [k \in DOMAIN hosts |-> IF hosts[k] = <<>> THEN {} ELSE {hosts[k]}]
         IN  IF \A k \in DOMAIN hosts : hosts[k] = <<>> THEN NameinfoDomain(infos) = {}
             ELSE \E k \in DOMAIN hosts : hosts[k] # <<>> /\ NameinfoDomain(infos) = {hosts[k]}
<1> DEFINE infos == [k \in DOMAIN hosts |-> IF hosts[k] = <<>> THEN {} ELSE {hosts[k]}]
           named == {k \in DOMAIN hosts : infos[k] # {}}
           d == NameinfoDomain(infos)
<1>1. d = IF named = {} THEN {} ELSE infos[Min(named)]
  BY DEF NameinfoDomain
<1>2. \A k \in DOMAIN hosts : infos[k] = IF hosts[k] = <<>> THEN {} ELSE {hosts[k]}
  OBVIOUS
<1>3. \A k \in DOMAIN hosts : infos[k] # {} <=> hosts[k] # <<>>
  BY <1>2
<1> HIDE DEF d, infos
<1>4. CASE named = {}
  <2>1. (\A k \in DOMAIN hosts : hosts[k] = <<>>) /\ d = {}
    BY <1>1, <1>3, <1>4
  <2> QED BY <2>1 DEF d, infos
<1>5. CASE named # {}
  <2>1. named \in SUBSET Nat /\ \A k \in named : k \in DOMAIN hosts /\ hosts[k] # <<>>
    BY <1>3
  <2> HIDE DEF named
  <2>2. Min(named) \in named
    BY <1>5, <2>1, MinIs
  <2> DEFINE k == Min(named)
  <2>3. k \in DOMAIN hosts /\ hosts[k] # <<>> /\ d = infos[k]
    BY <1>1, <1>5, <2>1, <2>2
  <2> HIDE DEF k
  <2>4. d = {hosts[k]}
    BY <1>2, <2>3
  <2> QED BY <2>3, <2>4 DEF d, infos
<1> QED BY <1>4, <1>5

LEMMA HostIsRight ==
  ASSUME NEW buffer \in Texts, NEW hosts \in Seq(Texts)
  PROVE  HostRight(buffer, hosts)
<1>1. gethostname(1, buffer) = {}
  BY DEF gethostname
<1>2. ASSUME NEW name \in gethostname(0, buffer)
      PROVE  /\ Where(name, Dot) = {} /\ Where(name, NUL) = {} /\ IsPrefix(name, buffer)
             /\ \A domain \in HostentDomain(name, hosts) : Append(name, Dot) \o domain \in ToSet(hosts)
             /\ HostentDomain(name, hosts) = {} =>
                   \A k \in DOMAIN hosts : Where(hosts[k], Dot) # {} =>
                       SubSeq(hosts[k], 1, Min(Where(hosts[k], Dot)) - 1) # name
  <2>1. name \in Texts /\ Where(name, Dot) = {} /\ Where(name, NUL) = {} /\ IsPrefix(name, buffer)
    BY HostnameIs
  <2>2. /\ \A domain \in HostentDomain(name, hosts) : Append(name, Dot) \o domain \in ToSet(hosts)
        /\ HostentDomain(name, hosts) = {} => \A k \in DOMAIN hosts : ~Ours(name, hosts[k])
    BY <2>1, DomainIs
  <2>3. ASSUME HostentDomain(name, hosts) = {}, NEW k \in DOMAIN hosts, Where(hosts[k], Dot) # {}
        PROVE  SubSeq(hosts[k], 1, Min(Where(hosts[k], Dot)) - 1) # name
    <3>1. hosts[k] \in Texts /\ ~Ours(name, hosts[k])
      BY <2>2, <2>3
    <3> QED BY <2>1, <2>3, <3>1, FirstDotIsOurs
  <2> QED BY <2>1, <2>2, <2>3
<1> QED BY <1>1, <1>2, NameinfoIs DEF HostRight

-----------------------------------------------------------------------------
(* Text: numbers *)

Decimal(s) == FoldLeft(LAMBDA v, d : 10 * v + d, 0, s)
\* The values of the digits so far.
DecimalsOf(g, s, n) ==
  g = [S \in SUBSET (1 .. n) |-> IF S = {} THEN 0 ELSE 10 * g[S \ {Max(S)}] + s[Max(S)]]
DecimalsGo(s, n) == \E g : DecimalsOf(g, s, n)
Decimals(h, s) ==
  h[0] = 0 /\ \A i \in 1 .. Len(s) : h[i] = 10 * h[i - 1] + s[i]

LEMMA DecimalsExist ==
  ASSUME NEW s, NEW n \in Nat
  PROVE  DecimalsGo(s, n)
<1> DEFINE P == {m \in Nat : DecimalsGo(s, m)}
<1>1. 0 \in P
  <2> DEFINE g == [S \in SUBSET (1 .. 0) |-> 0]
  <2>1. \A S \in SUBSET (1 .. 0) : S = {}
    OBVIOUS
  <2>2. DecimalsOf(g, s, 0)
    BY <2>1 DEF DecimalsOf
  <2> HIDE DEF g
  <2>3. DecimalsGo(s, 0)
    BY <2>2, Zenon DEF DecimalsGo
  <2> QED BY <2>3
<1>2. ASSUME NEW m \in Nat, m \in P PROVE m + 1 \in P
  <2>0. DecimalsGo(s, m)
    BY <1>2
  <2>1. PICK g : DecimalsOf(g, s, m)
    BY <2>0, Zenon DEF DecimalsGo
  <2> DEFINE D == SUBSET (1 .. m + 1)
             h == [S \in D |-> IF m + 1 \in S THEN 10 * g[S \ {m + 1}] + s[m + 1] ELSE g[S]]
  <2>2. ASSUME NEW S \in D
        PROVE  h[S] = IF S = {} THEN 0 ELSE 10 * h[S \ {Max(S)}] + s[Max(S)]
    <3>1. CASE m + 1 \in S
      <4>1. Max(S) = m + 1 /\ S \ {m + 1} \in SUBSET (1 .. m) /\ S \ {m + 1} \in D
        BY <3>1, MaxOfPrefix
      <4>2. h[S \ {m + 1}] = g[S \ {m + 1}]
        BY <4>1
      <4> QED BY <3>1, <4>1, <4>2
    <3>2. CASE m + 1 \notin S
      <4>1. S \in SUBSET (1 .. m) /\ h[S] = g[S]
        BY <3>2
      <4>2. CASE S = {}
        BY <2>1, <4>1, <4>2 DEF DecimalsOf
      <4>3. CASE S # {}
        <5>1. S \ {Max(S)} \in D /\ m + 1 \notin S \ {Max(S)}
          BY <3>2
        <5>2. h[S \ {Max(S)}] = g[S \ {Max(S)}]
          BY <5>1
        <5>3. g[S] = 10 * g[S \ {Max(S)}] + s[Max(S)]
          BY <2>1, <4>1, <4>3 DEF DecimalsOf
        <5> QED BY <4>1, <4>3, <5>2, <5>3
      <4> QED BY <4>2, <4>3
    <3> QED BY <3>1, <3>2
  <2>3. h = [S \in D |-> h[S]]
    OBVIOUS
  <2> HIDE DEF h
  <2>4. DecimalsOf(h, s, m + 1)
    BY <2>2, <2>3 DEF DecimalsOf
  <2>5. DecimalsGo(s, m + 1)
    BY <2>4, Zenon DEF DecimalsGo
  <2> QED BY <2>5
<1>3. Nat \subseteq P
  <2>1. \A m \in Nat : m \in P => m + 1 \in P
    BY <1>2
  <2> HIDE DEF P
  <2> QED BY <1>1, <2>1, NatsByInduction
<1> QED BY <1>3

LEMMA DecimalsAre ==
  ASSUME NEW s, s \in Seq(Nat)
  PROVE  \E h : Decimals(h, s) /\ Decimal(s) = h[Len(s)]
<1> DEFINE n == Len(s)
           g == CHOOSE f : DecimalsOf(f, s, n)
           h == [i \in 0 .. n |-> g[1 .. i]]
<1>1. n \in Nat /\ DOMAIN (s) = 1 .. n
  OBVIOUS
<1>2. Decimal(s) = g[1 .. n]
  BY <1>1 DEF FoldLeft, MapThenFoldSet, DecimalsOf, Decimal
<1>3. DecimalsOf(g, s, n)
  <2>1. DecimalsGo(s, n)
    BY <1>1, DecimalsExist
  <2> QED BY <2>1, Zenon DEF DecimalsGo
<1> HIDE DEF g
<1>4. h[0] = 0
  BY <1>1, <1>3 DEF DecimalsOf
<1>5. ASSUME NEW i \in 1 .. n PROVE h[i] = 10 * h[i - 1] + s[i]
  <2> DEFINE S == 1 .. i
  <2>1. S \in SUBSET (1 .. n) /\ S # {} /\ Max(S) = i /\ S \ {i} = 1 .. i - 1
    BY <1>1, PrefixIs
  <2> HIDE DEF S
  <2>2. g[S] = 10 * g[S \ {i}] + s[i]
    BY <1>3, <2>1 DEF DecimalsOf
  <2>3. h[i] = g[S] /\ h[i - 1] = g[1 .. i - 1]
    BY <1>1 DEF S
  <2> QED BY <2>1, <2>2, <2>3
<1>6. g[1 .. n] = h[n]
  BY <1>1
<1> HIDE DEF h
<1>7. Decimals(h, s)
  BY <1>4, <1>5 DEF Decimals
<1> QED BY <1>2, <1>6, <1>7, Zenon

LEMMA DecimalType ==
  ASSUME NEW s \in Seq(Nat)
  PROVE  Decimal(s) \in Nat
<1> DEFINE n == Len(s)
<1>1. PICK h : Decimals(h, s) /\ Decimal(s) = h[n]
  BY DecimalsAre
<1>2. n \in Nat /\ h[0] = 0 /\ \A i \in 1 .. n : h[i] = 10 * h[i - 1] + s[i] /\ s[i] \in Nat
  BY <1>1 DEF Decimals
<1> HIDE DEF n
<1> DEFINE P == {i \in 0 .. n : h[i] \in Nat}
<1>3. 0 \in P
  BY <1>2
<1>4. ASSUME NEW i \in 0 .. n - 1, i \in P PROVE i + 1 \in P
  <2>1. i + 1 \in 1 .. n /\ (i + 1) - 1 = i /\ i + 1 \in 0 .. n
    BY <1>2
  <2>2. h[i + 1] = 10 * h[(i + 1) - 1] + s[i + 1] /\ s[i + 1] \in Nat
    BY <1>2, <2>1
  <2>3. h[i] \in Nat
    BY <1>4
  <2> QED BY <2>1, <2>2, <2>3
<1>5. 0 .. n \subseteq P
  <2> HIDE DEF P
  <2> QED BY <1>2, <1>3, <1>4, UpToByInduction
<1> QED BY <1>1, <1>2, <1>5

LEMMA ParseIntIs ==
  ASSUME NEW s \in Seq(Nat), NEW word
  PROVE  /\ parse_int(s, word) = IF IsDigits(s, 10) /\ Decimal(s) < word THEN {Decimal(s)} ELSE {}
         /\ Decimal(s) \in Nat
<1>1. parse_int(s, word) = IF IsDigits(s, 10) /\ Decimal(s) < word THEN {Decimal(s)} ELSE {}
  BY DEF parse_int, Decimal
<1> QED BY <1>1, DecimalType

-----------------------------------------------------------------------------
(* Text: ports in network order *)

LEMMA DivMod ==
  ASSUME NEW a \in Nat, NEW w \in Nat \ {0}
  PROVE  a \div w \in Nat /\ a % w \in 0 .. w - 1 /\ a = w * (a \div w) + (a % w)
OBVIOUS

LEMMA DivModUnique ==
  ASSUME NEW a \in Nat, NEW w \in Nat \ {0}, NEW q \in Nat, NEW r \in 0 .. w - 1, a = w * q + r
  PROVE  a % w = r /\ a \div w = q
BY Z3

LEMMA BelowSquare ==
  ASSUME NEW w \in Nat \ {0}, NEW q \in Nat, NEW r \in Nat, w * q + r < w * w
  PROVE  q < w
<1> SUFFICES ASSUME w <= q PROVE FALSE
  OBVIOUS
<1>1. PICK d \in Nat : q = w + d
  <2>1. q - w \in Nat /\ q = w + (q - w)
    OBVIOUS
  <2> QED BY <2>1
<1>2. w * q = w * w + w * d /\ w * d \in Nat /\ w * w \in Nat
  BY <1>1, Z3
<1> QED BY <1>2, Z3

LEMMA HtonsTwice ==
  ASSUME NEW b \in Nat \ {0}, NEW p \in Nat, p < b * b
  PROVE  htons(htons(p, b), b) = p
<1> DEFINE q == p \div b
           r == p % b
           t == htons(p, b)
<1>1. q \in Nat /\ r \in 0 .. b - 1 /\ p = b * q + r
  BY DivMod
<1>2. t = r * b + q
  BY DEF htons
<1> HIDE DEF q, r, t
<1>3. q \in 0 .. b - 1
  <2>1. q < b
    BY <1>1, BelowSquare
  <2> QED BY <1>1, <2>1
<1>4. r \in Nat /\ t \in Nat /\ t = b * r + q
  BY <1>1, <1>2, <1>3, Z3
<1>5. t % b = q /\ t \div b = r
  BY <1>3, <1>4, DivModUnique
<1>6. htons(t, b) = q * b + r
  BY <1>5 DEF htons
<1>7. q * b + r = p
  BY <1>1, Z3
<1> QED BY <1>6, <1>7 DEF t

\* Where the last colon is, and what is around it.
LastColon(s) == Max(Where(s, Colon) \cup {0})
PortOf(s, b) == IF LastColon(s) = 0 THEN {0} ELSE parse_int(SubSeq(s, LastColon(s) + 1, Len(s)), b * b)
HostOf(s) == IF LastColon(s) = 0 THEN s ELSE SubSeq(s, 1, LastColon(s) - 1)

LEMMA ParsedIs ==
  ASSUME NEW s, NEW addr \in [host : Nat, port : Nat, family : STRING], NEW b
  PROVE  /\ parse_sockaddr(s, addr, b).ok <=> LastColon(s) # 1 /\ PortOf(s, b) # {} /\ inet_pton(HostOf(s))
         /\ parse_sockaddr(s, addr, b).ok =>
               /\ parse_sockaddr(s, addr, b).addr.family = "inet"
               /\ parse_sockaddr(s, addr, b).addr.port = htons(CHOOSE p \in PortOf(s, b) : TRUE, b)
<1> DEFINE sep == LastColon(s)
           port == PortOf(s, b)
           host == HostOf(s)
           x == htons(CHOOSE p \in port : TRUE, b)
           withport == [addr EXCEPT !.port = x]
           r == parse_sockaddr(s, addr, b)
<1>1. r = IF sep = 1 \/ port = {} THEN [ok |-> FALSE, addr |-> addr]
          ELSE IF ~inet_pton(host) THEN [ok |-> FALSE, addr |-> withport]
          ELSE [ok |-> TRUE, addr |-> [withport EXCEPT !.host = s_addr(host), !.family = "inet"]]
  BY DEF parse_sockaddr, LastColon, PortOf, HostOf
<1> HIDE DEF r, sep, port, host, x
<1>2. /\ [withport EXCEPT !.host = s_addr(host), !.family = "inet"].family = "inet"
      /\ [withport EXCEPT !.host = s_addr(host), !.family = "inet"].port = x
  OBVIOUS
<1>3. CASE sep = 1 \/ port = {}
  <2>1. r = [ok |-> FALSE, addr |-> addr]
    BY <1>1, <1>3
  <2>2. ~r.ok
    BY <2>1
  <2> QED BY <1>3, <2>2 DEF r, sep, port
<1>4. CASE sep # 1 /\ port # {} /\ ~inet_pton(host)
  <2>1. r = [ok |-> FALSE, addr |-> withport]
    BY <1>1, <1>4
  <2> HIDE DEF withport
  <2>2. ~r.ok
    BY <2>1
  <2> QED BY <1>4, <2>2 DEF r, sep, port, host
<1>5. CASE sep # 1 /\ port # {} /\ inet_pton(host)
  <2> DEFINE a == [withport EXCEPT !.host = s_addr(host), !.family = "inet"]
  <2>1. r = [ok |-> TRUE, addr |-> a]
    BY <1>1, <1>5
  <2>2. a.family = "inet" /\ a.port = x
    BY <1>2
  <2> HIDE DEF a
  <2>3. r.ok /\ r.addr = a
    BY <2>1
  <2> QED BY <1>5, <2>2, <2>3 DEF r, sep, port, host, x
<1> QED BY <1>3, <1>4, <1>5

LEMMA LastColonIs ==
  ASSUME NEW s \in Texts
  PROVE  /\ LastColon(s) \in 0 .. Len(s)
         /\ LastColon(s) # 0 => s[LastColon(s)] = Colon
         /\ \A i \in LastColon(s) + 1 .. Len(s) : s[i] # Colon
<1> DEFINE S == Where(s, Colon) \cup {0}
           x == LastColon(s)
           n == Len(s)
<1>1. n \in Nat /\ S \in SUBSET (0 .. n) /\ S # {} /\ x = Max(S)
  BY DEF Where, LastColon, Texts
<1>2. /\ \A i \in 1 .. n : s[i] = Colon => i \in S
      /\ \A i \in S : i # 0 => s[i] = Colon
  BY DEF Where, Texts
<1> HIDE DEF S, x
<1>3. x \in S /\ \A y \in S : y <= x
  BY <1>1, MaxIs
<1>4. x \in 0 .. n
  BY <1>1, <1>3
<1>5. \A i \in x + 1 .. n : i \notin S /\ i \in 1 .. n
  BY <1>3, <1>4
<1> QED BY <1>2, <1>3, <1>4, <1>5 DEF x

LEMMA PtonIs ==
  ASSUME NEW s \in Texts
  PROVE  inet_pton(s) <=> (Len(s) = 1 /\ s[1] \in {Address, AnyAddress})
<1>1. s \in Seq(Nat)
  BY DEF Texts
<1>2. \A x : s = <<x>> <=> (Len(s) = 1 /\ s[1] = x)
  <2> SUFFICES ASSUME NEW x, Len(s) = 1, s[1] = x PROVE s = <<x>>
    OBVIOUS
  <2> QED BY <1>1
<1> QED BY <1>2 DEF inet_pton

\* The text of an address and a port, or of an address alone.
Wellformed(s, b) ==
  IF s = <<>> THEN FALSE
  ELSE /\ Head(s) \in {Address, AnyAddress}
       /\ Len(s) > 1 => s[2] = Colon /\ parse_int(SubSeq(s, 3, Len(s)), b * b) # {}

LEMMA OkIsWellformed ==
  ASSUME NEW s \in Texts, NEW b \in Nat \ {0}
  PROVE  /\ (LastColon(s) # 1 /\ PortOf(s, b) # {} /\ inet_pton(HostOf(s))) <=> Wellformed(s, b)
         /\ Wellformed(s, b) /\ Len(s) > 1 => LastColon(s) = 2
<1> DEFINE x == LastColon(s)
           n == Len(s)
<1>1. s \in Seq(Nat) /\ n \in Nat /\ (n = 0 <=> s = <<>>) /\ (n # 0 => Head(s) = s[1])
  BY DEF Texts
<1>2. x \in 0 .. n /\ (x # 0 => s[x] = Colon) /\ \A i \in x + 1 .. n : s[i] # Colon
  BY LastColonIs
<1>3. PortOf(s, b) = IF x = 0 THEN {0} ELSE parse_int(SubSeq(s, x + 1, n), b * b)
  BY DEF PortOf
<1>4. HostOf(s) = IF x = 0 THEN s ELSE SubSeq(s, 1, x - 1)
  BY DEF HostOf
<1>5. Colon # Address /\ Colon # AnyAddress /\ Colon \in Nat /\ ~(Colon < 10)
  BY DEF Colon, Address, AnyAddress
<1> HIDE DEF x, n
<1>6. Wellformed(s, b) <=> /\ n # 0 /\ s[1] \in {Address, AnyAddress}
                           /\ n > 1 => s[2] = Colon /\ parse_int(SubSeq(s, 3, n), b * b) # {}
  BY <1>1 DEF Wellformed, n
<1>7. CASE x = 0
  <2>1. inet_pton(s) <=> (n = 1 /\ s[1] \in {Address, AnyAddress})
    BY PtonIs DEF n
  <2>2. n > 1 => s[2] # Colon
    BY <1>1, <1>2, <1>7
  <2>3. {0} # {}
    OBVIOUS
  <2>4. HostOf(s) = s /\ PortOf(s, b) # {} /\ LastColon(s) # 1
    BY <1>3, <1>4, <1>7, <2>3 DEF x
  <2>5. Wellformed(s, b) <=> (n = 1 /\ s[1] \in {Address, AnyAddress})
    <3>1. Wellformed(s, b) => ~(n > 1) /\ n # 0 /\ s[1] \in {Address, AnyAddress}
      BY <1>6, <2>2
    <3>2. n = 1 => n # 0 /\ ~(n > 1)
      OBVIOUS
    <3>3. n # 0 /\ ~(n > 1) => n = 1
      BY <1>1
    <3> QED BY <1>6, <3>1, <3>2, <3>3
  <2>6. (LastColon(s) # 1 /\ PortOf(s, b) # {} /\ inet_pton(HostOf(s))) <=> Wellformed(s, b)
    BY <2>1, <2>4, <2>5
  <2>7. ~(Wellformed(s, b) /\ Len(s) > 1)
    <3>1. n = 1 => ~(n > 1)
      OBVIOUS
    <3>2. ~(Wellformed(s, b) /\ n > 1)
      BY <2>5, <3>1
    <3> QED BY <3>2 DEF n
  <2> QED BY <2>6, <2>7
<1>8. CASE x # 0
  <2> DEFINE h == SubSeq(s, 1, x - 1)
  <2>1. h \in Texts /\ Len(h) = x - 1 /\ (x > 1 => h[1] = s[1])
    <3>1. 1 \in Nat \ {0} /\ x - 1 \in Nat /\ 1 <= (x - 1) + 1 /\ x - 1 <= Len(s)
      BY <1>1, <1>2, <1>8 DEF n
    <3>2. Part(Nat, s, 1, x - 1, h)
      BY <1>1, <3>1, SubSeqIs
    <3> HIDE DEF h
    <3>3. h \in Seq(Nat) /\ Len(h) = (x - 1) - 1 + 1 /\ \A i \in 1 .. (x - 1) - 1 + 1 : h[i] = s[1 + i - 1]
      BY <3>2 DEF Part
    <3>4. (x - 1) - 1 + 1 = x - 1 /\ (x > 1 => 1 \in 1 .. (x - 1) - 1 + 1) /\ 1 + 1 - 1 = 1
      BY <1>1, <1>2
    <3> QED BY <3>3, <3>4 DEF Texts
  <2>2. inet_pton(h) <=> (x = 2 /\ s[1] \in {Address, AnyAddress})
    <3> HIDE DEF h
    <3>1. inet_pton(h) <=> (Len(h) = 1 /\ h[1] \in {Address, AnyAddress})
      BY <2>1, PtonIs
    <3> QED BY <1>1, <1>2, <2>1, <3>1
  <2> HIDE DEF h
  <2>3. /\ HostOf(s) = h /\ PortOf(s, b) = parse_int(SubSeq(s, x + 1, n), b * b)
    BY <1>3, <1>4, <1>8 DEF h
  <2>4. x = 2 => s[2] = Colon /\ n > 1 /\ n # 0 /\ x + 1 = 3
    BY <1>1, <1>2
  <2>5. ASSUME Wellformed(s, b) PROVE x = 2 /\ n > 1
    <3>1. s[1] # Colon /\ n # 0
      BY <1>5, <1>6, <2>5
    <3>2. x >= 2 /\ n > 1
      BY <1>1, <1>2, <1>8, <3>1
    <3>3. parse_int(SubSeq(s, 3, n), b * b) # {}
      BY <1>6, <2>5, <3>2
    <3> DEFINE t == SubSeq(s, 3, n)
    <3>4. t \in Seq(Nat) /\ Len(t) = n - 3 + 1 /\ \A i \in 1 .. n - 3 + 1 : t[i] = s[3 + i - 1]
      <4>1. 3 \in Nat \ {0} /\ n \in Nat /\ 3 <= n + 1 /\ n <= Len(s)
        BY <1>1, <3>2 DEF n
      <4>2. Part(Nat, s, 3, n, t)
        BY <1>1, <4>1, SubSeqIs
      <4> HIDE DEF t
      <4> QED BY <4>2 DEF Part
    <3> HIDE DEF t
    <3>5. IsDigits(t, 10)
      <4>1. parse_int(t, b * b) # {}
        BY <3>3 DEF t
      <4> QED BY <3>4, <4>1, ParseIntIs
    <3>6. ASSUME x > 2 PROVE FALSE
      <4> DEFINE i == x - 2
      <4>1. i \in 1 .. n - 3 + 1 /\ 3 + i - 1 = x /\ i \in DOMAIN t
        BY <1>1, <1>2, <3>4, <3>6
      <4>2. t[i] = s[3 + i - 1] /\ t[i] < 10
        BY <3>4, <3>5, <4>1 DEF IsDigits
      <4>3. s[x] = Colon
        BY <1>2, <1>8
      <4> QED BY <1>5, <4>1, <4>2, <4>3
    <3> QED BY <1>1, <1>2, <3>2, <3>6
  <2> QED BY <1>6, <1>8, <2>2, <2>3, <2>4, <2>5 DEF x, n
<1> QED BY <1>7, <1>8

LEMMA SockaddrIsRight ==
  ASSUME NEW s \in Texts, NEW addr \in [host : Nat, port : Nat, family : STRING], NEW b \in Nat \ {0}
  PROVE  SockaddrRight(s, addr, b)
<1> DEFINE r == parse_sockaddr(s, addr, b)
<1>1. /\ r.ok <=> LastColon(s) # 1 /\ PortOf(s, b) # {} /\ inet_pton(HostOf(s))
      /\ r.ok => r.addr.family = "inet" /\ r.addr.port = htons(CHOOSE p \in PortOf(s, b) : TRUE, b)
  BY ParsedIs
<1> HIDE DEF r
<1>2. r.ok <=> Wellformed(s, b)
  BY <1>1, OkIsWellformed
<1>3. ASSUME r.ok, Len(s) > 1
      PROVE  {htons(r.addr.port, b)} = parse_int(SubSeq(s, 3, Len(s)), b * b)
  <2> DEFINE t == SubSeq(s, 3, Len(s))
             v == Decimal(t)
  <2>1. LastColon(s) = 2
    BY <1>2, <1>3, OkIsWellformed
  <2>2. PortOf(s, b) = parse_int(t, b * b)
    BY <2>1 DEF PortOf
  <2>3. t \in Seq(Nat)
    BY DEF Texts
  <2> HIDE DEF t
  <2>4. parse_int(t, b * b) = IF IsDigits(t, 10) /\ v < b * b THEN {v} ELSE {}
    BY <2>3, ParseIntIs
  <2>5. v \in Nat
    BY <2>3, ParseIntIs
  <2> HIDE DEF v
  <2>6. PortOf(s, b) # {}
    BY <1>1, <1>3
  <2>7. parse_int(t, b * b) = {v} /\ v < b * b
    BY <2>2, <2>4, <2>6
  <2>8. r.addr.port = htons(v, b)
    <3>1. (CHOOSE p \in {v} : TRUE) = v
      OBVIOUS
    <3> QED BY <1>1, <1>3, <2>2, <2>7, <3>1
  <2>9. htons(htons(v, b), b) = v
    BY <2>5, <2>7, HtonsTwice
  <2> QED BY <2>7, <2>8, <2>9 DEF t
<1> QED BY <1>1, <1>2, <1>3 DEF SockaddrRight, Wellformed, r

-----------------------------------------------------------------------------
(* Text: numbers in hexadecimal *)

Hex16(t) == FoldLeft(LAMBDA v, d : 16 * v + d, 0, t)
HexLow(t, w) == FoldLeft(LAMBDA v, d : (16 * v + d) % w, 0, t)

\* The values of the starts of a number.
HexesOf(g, s, n) ==
  g = [S \in SUBSET (1 .. n) |-> IF S = {} THEN 0 ELSE 16 * g[S \ {Max(S)}] + s[Max(S)]]
HexesGo(s, n) == \E g : HexesOf(g, s, n)
Hexes(h, s) ==
  h[0] = 0 /\ \A i \in 1 .. Len(s) : h[i] = 16 * h[i - 1] + s[i]

LEMMA HexesExist ==
  ASSUME NEW s, NEW n \in Nat
  PROVE  HexesGo(s, n)
<1> DEFINE P == {m \in Nat : HexesGo(s, m)}
<1>1. 0 \in P
  <2> DEFINE g == [S \in SUBSET (1 .. 0) |-> 0]
  <2>1. \A S \in SUBSET (1 .. 0) : S = {}
    OBVIOUS
  <2>2. HexesOf(g, s, 0)
    BY <2>1 DEF HexesOf
  <2> HIDE DEF g
  <2>3. HexesGo(s, 0)
    BY <2>2, Zenon DEF HexesGo
  <2> QED BY <2>3
<1>2. ASSUME NEW m \in Nat, m \in P PROVE m + 1 \in P
  <2>0. HexesGo(s, m)
    BY <1>2
  <2>1. PICK g : HexesOf(g, s, m)
    BY <2>0, Zenon DEF HexesGo
  <2> DEFINE D == SUBSET (1 .. m + 1)
             h == [S \in D |-> IF m + 1 \in S THEN 16 * g[S \ {m + 1}] + s[m + 1] ELSE g[S]]
  <2>2. ASSUME NEW S \in D
        PROVE  h[S] = IF S = {} THEN 0 ELSE 16 * h[S \ {Max(S)}] + s[Max(S)]
    <3>1. CASE m + 1 \in S
      <4>1. Max(S) = m + 1 /\ S \ {m + 1} \in SUBSET (1 .. m) /\ S \ {m + 1} \in D
        BY <3>1, MaxOfPrefix
      <4>2. h[S \ {m + 1}] = g[S \ {m + 1}]
        BY <4>1
      <4> QED BY <3>1, <4>1, <4>2
    <3>2. CASE m + 1 \notin S
      <4>1. S \in SUBSET (1 .. m) /\ h[S] = g[S]
        BY <3>2
      <4>2. CASE S = {}
        BY <2>1, <4>1, <4>2 DEF HexesOf
      <4>3. CASE S # {}
        <5>1. S \ {Max(S)} \in D /\ m + 1 \notin S \ {Max(S)}
          BY <3>2
        <5>2. h[S \ {Max(S)}] = g[S \ {Max(S)}]
          BY <5>1
        <5>3. g[S] = 16 * g[S \ {Max(S)}] + s[Max(S)]
          BY <2>1, <4>1, <4>3 DEF HexesOf
        <5> QED BY <4>1, <4>3, <5>2, <5>3
      <4> QED BY <4>2, <4>3
    <3> QED BY <3>1, <3>2
  <2>3. h = [S \in D |-> h[S]]
    OBVIOUS
  <2> HIDE DEF h
  <2>4. HexesOf(h, s, m + 1)
    BY <2>2, <2>3 DEF HexesOf
  <2>5. HexesGo(s, m + 1)
    BY <2>4, Zenon DEF HexesGo
  <2> QED BY <2>5
<1>3. Nat \subseteq P
  <2>1. \A m \in Nat : m \in P => m + 1 \in P
    BY <1>2
  <2> HIDE DEF P
  <2> QED BY <1>1, <2>1, NatsByInduction
<1> QED BY <1>3

LEMMA HexesAre ==
  ASSUME NEW s, s \in Seq(Nat)
  PROVE  \E h : Hexes(h, s) /\ Hex16(s) = h[Len(s)]
<1> DEFINE n == Len(s)
           g == CHOOSE f : HexesOf(f, s, n)
           h == [i \in 0 .. n |-> g[1 .. i]]
<1>1. n \in Nat /\ DOMAIN (s) = 1 .. n
  OBVIOUS
<1>2. Hex16(s) = g[1 .. n]
  BY <1>1 DEF FoldLeft, MapThenFoldSet, HexesOf, Hex16
<1>3. HexesOf(g, s, n)
  <2>1. HexesGo(s, n)
    BY <1>1, HexesExist
  <2> QED BY <2>1, Zenon DEF HexesGo
<1> HIDE DEF g
<1>4. h[0] = 0
  BY <1>1, <1>3 DEF HexesOf
<1>5. ASSUME NEW i \in 1 .. n PROVE h[i] = 16 * h[i - 1] + s[i]
  <2> DEFINE S == 1 .. i
  <2>1. S \in SUBSET (1 .. n) /\ S # {} /\ Max(S) = i /\ S \ {i} = 1 .. i - 1
    BY <1>1, PrefixIs
  <2> HIDE DEF S
  <2>2. g[S] = 16 * g[S \ {i}] + s[i]
    BY <1>3, <2>1 DEF HexesOf
  <2>3. h[i] = g[S] /\ h[i - 1] = g[1 .. i - 1]
    BY <1>1 DEF S
  <2> QED BY <2>1, <2>2, <2>3
<1>6. g[1 .. n] = h[n]
  BY <1>1
<1> HIDE DEF h
<1>7. Hexes(h, s)
  BY <1>4, <1>5 DEF Hexes
<1> QED BY <1>2, <1>6, <1>7, Zenon

\* The same, each cut to the low bits of the type.
LowsOf(g, s, w, n) ==
  g = [S \in SUBSET (1 .. n) |-> IF S = {} THEN 0 ELSE (16 * g[S \ {Max(S)}] + s[Max(S)]) % w]
LowsGo(s, w, n) == \E g : LowsOf(g, s, w, n)
Lows(h, s, w) ==
  h[0] = 0 /\ \A i \in 1 .. Len(s) : h[i] = (16 * h[i - 1] + s[i]) % w

LEMMA LowsExist ==
  ASSUME NEW s, NEW w, NEW n \in Nat
  PROVE  LowsGo(s, w, n)
<1> DEFINE P == {m \in Nat : LowsGo(s, w, m)}
<1>1. 0 \in P
  <2> DEFINE g == [S \in SUBSET (1 .. 0) |-> 0]
  <2>1. \A S \in SUBSET (1 .. 0) : S = {}
    OBVIOUS
  <2>2. LowsOf(g, s, w, 0)
    BY <2>1 DEF LowsOf
  <2> HIDE DEF g
  <2>3. LowsGo(s, w, 0)
    BY <2>2, Zenon DEF LowsGo
  <2> QED BY <2>3
<1>2. ASSUME NEW m \in Nat, m \in P PROVE m + 1 \in P
  <2>0. LowsGo(s, w, m)
    BY <1>2
  <2>1. PICK g : LowsOf(g, s, w, m)
    BY <2>0, Zenon DEF LowsGo
  <2> DEFINE D == SUBSET (1 .. m + 1)
             h == [S \in D |-> IF m + 1 \in S THEN (16 * g[S \ {m + 1}] + s[m + 1]) % w ELSE g[S]]
  <2>2. ASSUME NEW S \in D
        PROVE  h[S] = IF S = {} THEN 0 ELSE (16 * h[S \ {Max(S)}] + s[Max(S)]) % w
    <3>1. CASE m + 1 \in S
      <4>1. Max(S) = m + 1 /\ S \ {m + 1} \in SUBSET (1 .. m) /\ S \ {m + 1} \in D
        BY <3>1, MaxOfPrefix
      <4>2. h[S \ {m + 1}] = g[S \ {m + 1}]
        BY <4>1
      <4> QED BY <3>1, <4>1, <4>2
    <3>2. CASE m + 1 \notin S
      <4>1. S \in SUBSET (1 .. m) /\ h[S] = g[S]
        BY <3>2
      <4>2. CASE S = {}
        BY <2>1, <4>1, <4>2 DEF LowsOf
      <4>3. CASE S # {}
        <5>1. S \ {Max(S)} \in D /\ m + 1 \notin S \ {Max(S)}
          BY <3>2
        <5>2. h[S \ {Max(S)}] = g[S \ {Max(S)}]
          BY <5>1
        <5>3. g[S] = (16 * g[S \ {Max(S)}] + s[Max(S)]) % w
          BY <2>1, <4>1, <4>3 DEF LowsOf
        <5> QED BY <4>1, <4>3, <5>2, <5>3
      <4> QED BY <4>2, <4>3
    <3> QED BY <3>1, <3>2
  <2>3. h = [S \in D |-> h[S]]
    OBVIOUS
  <2> HIDE DEF h
  <2>4. LowsOf(h, s, w, m + 1)
    BY <2>2, <2>3 DEF LowsOf
  <2>5. LowsGo(s, w, m + 1)
    BY <2>4, Zenon DEF LowsGo
  <2> QED BY <2>5
<1>3. Nat \subseteq P
  <2>1. \A m \in Nat : m \in P => m + 1 \in P
    BY <1>2
  <2> HIDE DEF P
  <2> QED BY <1>1, <2>1, NatsByInduction
<1> QED BY <1>3

LEMMA LowsAre ==
  ASSUME NEW s, NEW w, s \in Seq(Nat)
  PROVE  \E h : Lows(h, s, w) /\ HexLow(s, w) = h[Len(s)]
<1> DEFINE n == Len(s)
           g == CHOOSE f : LowsOf(f, s, w, n)
           h == [i \in 0 .. n |-> g[1 .. i]]
<1>1. n \in Nat /\ DOMAIN (s) = 1 .. n
  OBVIOUS
<1>2. HexLow(s, w) = g[1 .. n]
  BY <1>1 DEF FoldLeft, MapThenFoldSet, LowsOf, HexLow
<1>3. LowsOf(g, s, w, n)
  <2>1. LowsGo(s, w, n)
    BY <1>1, LowsExist
  <2> QED BY <2>1, Zenon DEF LowsGo
<1> HIDE DEF g
<1>4. h[0] = 0
  BY <1>1, <1>3 DEF LowsOf
<1>5. ASSUME NEW i \in 1 .. n PROVE h[i] = (16 * h[i - 1] + s[i]) % w
  <2> DEFINE S == 1 .. i
  <2>1. S \in SUBSET (1 .. n) /\ S # {} /\ Max(S) = i /\ S \ {i} = 1 .. i - 1
    BY <1>1, PrefixIs
  <2> HIDE DEF S
  <2>2. g[S] = (16 * g[S \ {i}] + s[i]) % w
    BY <1>3, <2>1 DEF LowsOf
  <2>3. h[i] = g[S] /\ h[i - 1] = g[1 .. i - 1]
    BY <1>1 DEF S
  <2> QED BY <2>1, <2>2, <2>3
<1>6. g[1 .. n] = h[n]
  BY <1>1
<1> HIDE DEF h
<1>7. Lows(h, s, w)
  BY <1>4, <1>5 DEF Lows
<1> QED BY <1>2, <1>6, <1>7, Zenon

LEMMA CutLater ==
  ASSUME NEW a \in Nat, NEW d \in Nat, NEW w \in Nat \ {0}
  PROVE  (16 * (a % w) + d) % w = (16 * a + d) % w
<1> DEFINE q == a \div w
           r == a % w
           x == 16 * r + d
           u == x \div w
           v == x % w
<1>1. q \in Nat /\ r \in Nat /\ a = w * q + r
  BY DivMod
<1>2. x \in Nat
  BY <1>1
<1> HIDE DEF x
<1>3. u \in Nat /\ v \in 0 .. w - 1 /\ x = w * u + v
  BY <1>2, DivMod
<1>4. x = 16 * r + d
  BY DEF x
<1> HIDE DEF q, r, u, v
<1>5. 16 * a + d \in Nat /\ 16 * q + u \in Nat
  BY <1>1, <1>3
<1>6. w * (16 * q + u) = 16 * (w * q) + w * u
  BY <1>1, <1>3, Z3
<1>7. 16 * a + d = w * (16 * q + u) + v
  <2> DEFINE y == w * q
             z == w * u
  <2>1. y \in Nat /\ z \in Nat
    BY <1>1, <1>3
  <2>2. a = y + r /\ x = z + v
    BY <1>1, <1>3
  <2> HIDE DEF y, z
  <2>3. 16 * a + d = 16 * y + z + v
    BY <1>1, <1>3, <1>4, <2>1, <2>2
  <2>4. w * (16 * q + u) = 16 * y + z
    BY <1>6 DEF y, z
  <2> QED BY <2>3, <2>4
<1>8. (16 * a + d) % w = v
  BY <1>3, <1>5, <1>7, DivModUnique
<1> QED BY <1>8 DEF x, r, v

LEMMA HexLowIs ==
  ASSUME NEW s \in Seq(Nat), NEW w \in Nat \ {0}
  PROVE  HexLow(s, w) = Hex16(s) % w
<1> DEFINE n == Len(s)
<1>1. PICK h : Hexes(h, s) /\ Hex16(s) = h[n]
  BY HexesAre
<1>2. PICK l : Lows(l, s, w) /\ HexLow(s, w) = l[n]
  BY LowsAre
<1>3. /\ n \in Nat /\ h[0] = 0 /\ l[0] = 0
      /\ \A i \in 1 .. n : h[i] = 16 * h[i - 1] + s[i] /\ s[i] \in Nat
  BY <1>1, <1>2 DEF Hexes, Lows
<1>4. \A i \in 1 .. n : l[i] = (16 * l[i - 1] + s[i]) % w
  BY <1>2 DEF Lows
<1> HIDE DEF n
<1> DEFINE P == {i \in 0 .. n : h[i] \in Nat /\ l[i] = h[i] % w}
<1>5. 0 \in P
  <2>1. 0 % w = 0
    BY DivModUnique
  <2> QED BY <1>3, <2>1
<1>6. ASSUME NEW i \in 0 .. n - 1, i \in P PROVE i + 1 \in P
  <2>1. i + 1 \in 1 .. n /\ (i + 1) - 1 = i /\ i + 1 \in 0 .. n
    BY <1>3
  <2>2. h[i + 1] = 16 * h[i] + s[i + 1] /\ s[i + 1] \in Nat
    BY <1>3, <2>1
  <2>3. l[i + 1] = (16 * l[i] + s[i + 1]) % w
    BY <1>4, <2>1
  <2>4. h[i] \in Nat /\ l[i] = h[i] % w
    BY <1>6
  <2> DEFINE a == h[i]
             d == s[i + 1]
  <2>5. a \in Nat /\ d \in Nat
    BY <2>2, <2>4
  <2>6. l[i + 1] = (16 * (a % w) + d) % w
    BY <2>3, <2>4
  <2>7. h[i + 1] = 16 * a + d
    BY <2>2
  <2> HIDE DEF a, d
  <2>8. l[i + 1] = (16 * a + d) % w
    BY <2>5, <2>6, CutLater
  <2> QED BY <2>1, <2>5, <2>7, <2>8
<1>7. 0 .. n \subseteq P
  <2> HIDE DEF P
  <2> QED BY <1>3, <1>5, <1>6, UpToByInduction
<1>8. n \in P
  BY <1>3, <1>7
<1> QED BY <1>1, <1>2, <1>8

\* The digits that are taken: up to the first symbol that is none.
Bad(s) == {i \in DOMAIN s : s[i] > 15}
Used(s) == IF Bad(s) = {} THEN Len(s) ELSE Min(Bad(s)) - 1

LEMMA FromCharsIs ==
  ASSUME NEW s \in Seq(Nat), NEW w
  PROVE  /\ from_chars_hex(s, w).value = HexLow(SubSeq(s, 1, Used(s)), w)
         /\ from_chars_hex(s, w).used = Used(s)
         /\ from_chars_hex(s, w).ok <=> Bad(s) = {}
BY DEF from_chars_hex, HexLow, Used, Bad

LEMMA UsedIs ==
  ASSUME NEW s \in Seq(Nat)
  PROVE  /\ Used(s) \in Nat /\ Used(s) <= Len(s)
         /\ s # <<>> => (IsDigits(s, 16) <=> Bad(s) = {})
<1>1. Used(s) \in Nat /\ Used(s) <= Len(s)
  <2>1. CASE Bad(s) = {}
    BY <2>1 DEF Used
  <2>2. CASE Bad(s) # {}
    <3> DEFINE B == Bad(s)
    <3>1. B \in SUBSET Nat /\ B # {} /\ \A i \in B : i \in 1 .. Len(s)
      BY <2>2 DEF Bad
    <3> HIDE DEF B
    <3>2. Min(B) \in B
      BY <3>1, MinIs
    <3>3. Used(s) = Min(B) - 1
      BY <2>2 DEF Used, B
    <3> DEFINE k == Min(B)
               n == Len(s)
    <3>4. n \in Nat /\ k \in B /\ Used(s) = k - 1 /\ \A i \in B : i \in 1 .. n
      BY <3>1, <3>2, <3>3
    <3> HIDE DEF k, n
    <3>5. Used(s) \in Nat /\ Used(s) <= n
      BY <3>4
    <3> QED BY <3>5 DEF n
  <2> QED BY <2>1, <2>2
<1>2. Bad(s) = {} <=> \A i \in DOMAIN s : s[i] < 16
  <2>1. \A i \in DOMAIN s : s[i] \in Nat
    OBVIOUS
  <2>2. \A i \in DOMAIN s : s[i] > 15 <=> ~(s[i] < 16)
    BY <2>1
  <2> QED BY <2>2 DEF Bad
<1> QED BY <1>1, <1>2 DEF IsDigits

LEMMA CutAgain ==
  ASSUME NEW A, NEW a \in Seq(A), NEW b \in Seq(A)
  PROVE  /\ SubSeq(a \o b, 1, Len(a)) = a
         /\ SubSeq(a \o b, Len(a) + 1, Len(a) + Len(b)) = b
<1> DEFINE k == Len(a)
           l == Len(b)
           r == a \o b
           s == SubSeq(r, 1, k)
           t == SubSeq(r, k + 1, k + l)
<1>1. k \in Nat /\ l \in Nat
  OBVIOUS
<1>2. Joins(A, a, b, r)
  BY ConcatIs
<1> HIDE DEF r
<1>3. /\ r \in Seq(A) /\ Len(r) = k + l /\ (\A j \in 1 .. k : r[j] = a[j])
      /\ \A j \in k + 1 .. k + l : r[j] = b[j - k]
  BY <1>2 DEF Joins
<1>4. k = Len(a) /\ l = Len(b)
  OBVIOUS
<1> HIDE DEF k, l
<1>5. Part(A, r, 1, k, s)
  <2>1. 1 \in Nat \ {0} /\ 1 <= k + 1 /\ k <= Len(r)
    BY <1>1, <1>3
  <2> QED BY <1>1, <1>3, <2>1, SubSeqIs
<1>6. Part(A, r, k + 1, k + l, t)
  <2>1. k + 1 \in Nat \ {0} /\ k + l \in Nat /\ k + 1 <= (k + l) + 1 /\ k + l <= Len(r)
    BY <1>1, <1>3
  <2> QED BY <1>3, <2>1, SubSeqIs
<1> HIDE DEF s, t
<1>7. s = a
  <2>1. s \in Seq(A) /\ Len(s) = k - 1 + 1 /\ \A i \in 1 .. k - 1 + 1 : s[i] = r[1 + i - 1]
    BY <1>5 DEF Part
  <2>2. k - 1 + 1 = k /\ \A i \in 1 .. k : 1 + i - 1 = i
    BY <1>1
  <2>3. Len(s) = Len(a) /\ \A i \in 1 .. Len(s) : s[i] = a[i]
    BY <1>3, <1>4, <2>1, <2>2
  <2> QED BY <2>1, <2>3, SameSeq
<1>8. t = b
  <2>1. /\ t \in Seq(A) /\ Len(t) = (k + l) - (k + 1) + 1
        /\ \A i \in 1 .. (k + l) - (k + 1) + 1 : t[i] = r[(k + 1) + i - 1]
    BY <1>6 DEF Part
  <2>2. (k + l) - (k + 1) + 1 = l
    BY <1>1
  <2>3. \A i \in 1 .. l : (k + 1) + i - 1 = k + i /\ k + i \in k + 1 .. k + l /\ (k + i) - k = i
    BY <1>1
  <2>4. ASSUME NEW i \in 1 .. l PROVE t[i] = b[i]
    <3>1. t[i] = r[k + i]
      BY <2>1, <2>2, <2>3
    <3>2. r[k + i] = b[(k + i) - k]
      BY <1>3, <2>3
    <3> QED BY <2>3, <3>1, <3>2
  <2> QED BY <1>4, <2>1, <2>2, <2>4, SameSeq
<1> QED BY <1>7, <1>8 DEF r, s, t, k, l

LEMMA HexIsRight ==
  ASSUME NEW s \in Texts, NEW w \in Nat \ {0}
  PROVE  HexRight(s, w)
<1> DEFINE h == from_chars_hex(s, w)
           r == <<0, X>> \o s
<1>1. s \in Seq(Nat)
  BY DEF Texts
<1>2. h.value = HexLow(SubSeq(s, 1, Used(s)), w) /\ h.used = Used(s) /\ (h.ok <=> Bad(s) = {})
  BY <1>1, FromCharsIs
<1>3. Used(s) \in Nat /\ Used(s) <= Len(s) /\ (s # <<>> => (IsDigits(s, 16) <=> Bad(s) = {}))
  BY <1>1, UsedIs
<1> HIDE DEF h
<1>4. h.value = Hex16(SubSeq(s, 1, h.used)) % w
  <2> DEFINE t == SubSeq(s, 1, Used(s))
  <2>1. Part(Nat, s, 1, Used(s), t)
    <3>1. 1 \in Nat \ {0} /\ 1 <= Used(s) + 1
      BY <1>3
    <3> QED BY <1>1, <1>3, <3>1, SubSeqIs
  <2>2. t \in Seq(Nat)
    <3> HIDE DEF t
    <3> QED BY <2>1 DEF Part
  <2>3. h.value = HexLow(t, w) /\ h.used = Used(s)
    BY <1>2
  <2> HIDE DEF t
  <2>4. h.value = Hex16(t) % w
    BY <2>2, <2>3, HexLowIs
  <2> QED BY <2>3, <2>4 DEF t
<1>5. get_hex(r, w) = IF IsDigits(s, 16) THEN {Hex16(s) % w} ELSE {}
  <2> DEFINE p == <<0, X>>
  <2>1. p \in Seq(Nat) /\ Len(p) = 2
    BY DEF X
  <2> HIDE DEF p
  <2>2. /\ SubSeq(p \o s, 1, Len(p)) = p
        /\ SubSeq(p \o s, Len(p) + 1, Len(p) + Len(s)) = s
        /\ Joins(Nat, p, s, p \o s)
    BY <1>1, <2>1, CutAgain, ConcatIs
  <2>3. r = p \o s
    BY DEF p
  <2> HIDE DEF r
  <2>4. Len(r) = 2 + Len(s) /\ Len(s) \in Nat
    BY <1>1, <2>1, <2>2, <2>3 DEF Joins
  <2>5. SubSeq(r, 1, 2) = p /\ SubSeq(r, 3, Len(r)) = s
    <3>1. Len(p) + 1 = 3 /\ Len(p) + Len(s) = Len(r)
      BY <2>1, <2>4
    <3> QED BY <2>1, <2>2, <2>3, <3>1
  <2>6. get_hex(r, w) = IF Len(r) < 3 THEN {} ELSE IF h.ok THEN {h.value} ELSE {}
    BY <2>5 DEF get_hex, p, h
  <2>7. CASE s = <<>>
    <3>1. Len(r) < 3 /\ ~IsDigits(s, 16)
      <4>1. Len(s) = 0
        BY <2>7
      <4> QED BY <2>4, <2>7, <4>1 DEF IsDigits
    <3> QED BY <2>6, <3>1
  <2>8. CASE s # <<>>
    <3>1. ~(Len(r) < 3)
      <4>1. Len(s) # 0
        BY <1>1, <2>8
      <4> QED BY <2>4, <4>1
    <3>2. ASSUME h.ok PROVE h.value = Hex16(s) % w
      <4>1. h.used = Len(s)
        BY <1>2, <3>2 DEF Used
      <4>2. SubSeq(s, 1, Len(s)) = s
        BY <1>1
      <4> QED BY <1>4, <4>1, <4>2
    <3>3. h.ok <=> IsDigits(s, 16)
      BY <1>2, <1>3, <2>8
    <3> QED BY <2>6, <3>1, <3>2, <3>3
  <2> QED BY <2>7, <2>8
<1>6. s # <<>> => (h.value = Hex16(SubSeq(s, 1, h.used)) % w /\ (h.ok <=> IsDigits(s, 16)))
  BY <1>2, <1>3, <1>4
<1> QED BY <1>5, <1>6 DEF HexRight, Hex16, h, r

-----------------------------------------------------------------------------
(* Text: the fields of a text *)

\* split_args() with one more symbol.
Taken(parts, c, fields) ==
  IF Splits(parts, c, fields) THEN Append(parts, <<>>)
  ELSE [parts EXCEPT ![Len(parts)] = Append(@, c)]
\* A field after the others.
After(t, p) == t \o <<Comma>> \o p
Glue(b, t) == FoldLeft(LAMBDA x, p : x \o <<Comma>> \o p, b, t)
Fields == Seq(Seq(Nat))

\* The fields of the starts of a text.
TakesOf(g, s, fields, n) ==
  g = [S \in SUBSET (1 .. n) |-> IF S = {} THEN <<<<>>>> ELSE Taken(g[S \ {Max(S)}], s[Max(S)], fields)]
TakesGo(s, fields, n) == \E g : TakesOf(g, s, fields, n)
Takes(h, s, fields) ==
  h[0] = <<<<>>>> /\ \A i \in 1 .. Len(s) : h[i] = Taken(h[i - 1], s[i], fields)

LEMMA TakesExist ==
  ASSUME NEW s, NEW fields, NEW n \in Nat
  PROVE  TakesGo(s, fields, n)
<1> DEFINE P == {m \in Nat : TakesGo(s, fields, m)}
<1>1. 0 \in P
  <2> DEFINE g == [S \in SUBSET (1 .. 0) |-> <<<<>>>>]
  <2>1. \A S \in SUBSET (1 .. 0) : S = {}
    OBVIOUS
  <2>2. TakesOf(g, s, fields, 0)
    BY <2>1 DEF TakesOf
  <2> HIDE DEF g
  <2>3. TakesGo(s, fields, 0)
    BY <2>2, Zenon DEF TakesGo
  <2> QED BY <2>3
<1>2. ASSUME NEW m \in Nat, m \in P PROVE m + 1 \in P
  <2>0. TakesGo(s, fields, m)
    BY <1>2
  <2>1. PICK g : TakesOf(g, s, fields, m)
    BY <2>0, Zenon DEF TakesGo
  <2> DEFINE D == SUBSET (1 .. m + 1)
             h == [S \in D |-> IF m + 1 \in S THEN Taken(g[S \ {m + 1}], s[m + 1], fields) ELSE g[S]]
  <2>2. ASSUME NEW S \in D
        PROVE  h[S] = IF S = {} THEN <<<<>>>> ELSE Taken(h[S \ {Max(S)}], s[Max(S)], fields)
    <3>1. CASE m + 1 \in S
      <4>1. Max(S) = m + 1 /\ S \ {m + 1} \in SUBSET (1 .. m) /\ S \ {m + 1} \in D
        BY <3>1, MaxOfPrefix
      <4>2. h[S \ {m + 1}] = g[S \ {m + 1}]
        BY <4>1
      <4> QED BY <3>1, <4>1, <4>2
    <3>2. CASE m + 1 \notin S
      <4>1. S \in SUBSET (1 .. m) /\ h[S] = g[S]
        BY <3>2
      <4>2. CASE S = {}
        BY <2>1, <4>1, <4>2 DEF TakesOf
      <4>3. CASE S # {}
        <5>1. S \ {Max(S)} \in D /\ m + 1 \notin S \ {Max(S)}
          BY <3>2
        <5>2. h[S \ {Max(S)}] = g[S \ {Max(S)}]
          BY <5>1
        <5>3. g[S] = Taken(g[S \ {Max(S)}], s[Max(S)], fields)
          BY <2>1, <4>1, <4>3 DEF TakesOf
        <5> QED BY <4>1, <4>3, <5>2, <5>3
      <4> QED BY <4>2, <4>3
    <3> QED BY <3>1, <3>2
  <2>3. h = [S \in D |-> h[S]]
    OBVIOUS
  <2> HIDE DEF h
  <2>4. TakesOf(h, s, fields, m + 1)
    BY <2>2, <2>3 DEF TakesOf
  <2>5. TakesGo(s, fields, m + 1)
    BY <2>4, Zenon DEF TakesGo
  <2> QED BY <2>5
<1>3. Nat \subseteq P
  <2>1. \A m \in Nat : m \in P => m + 1 \in P
    BY <1>2
  <2> HIDE DEF P
  <2> QED BY <1>1, <2>1, NatsByInduction
<1> QED BY <1>3

LEMMA TakesAre ==
  ASSUME NEW s, NEW fields, s \in Seq(Nat)
  PROVE  \E h : Takes(h, s, fields) /\ split_args(s, fields) = h[Len(s)]
<1> DEFINE n == Len(s)
           g == CHOOSE f : TakesOf(f, s, fields, n)
           h == [i \in 0 .. n |-> g[1 .. i]]
<1>1. n \in Nat /\ DOMAIN (s) = 1 .. n
  OBVIOUS
<1>2. split_args(s, fields) = g[1 .. n]
  BY <1>1 DEF FoldLeft, MapThenFoldSet, TakesOf, split_args, Taken
<1>3. TakesOf(g, s, fields, n)
  <2>1. TakesGo(s, fields, n)
    BY <1>1, TakesExist
  <2> QED BY <2>1, Zenon DEF TakesGo
<1> HIDE DEF g
<1>4. h[0] = <<<<>>>>
  BY <1>1, <1>3 DEF TakesOf
<1>5. ASSUME NEW i \in 1 .. n PROVE h[i] = Taken(h[i - 1], s[i], fields)
  <2> DEFINE S == 1 .. i
  <2>1. S \in SUBSET (1 .. n) /\ S # {} /\ Max(S) = i /\ S \ {i} = 1 .. i - 1
    BY <1>1, PrefixIs
  <2> HIDE DEF S
  <2>2. g[S] = Taken(g[S \ {i}], s[i], fields)
    BY <1>3, <2>1 DEF TakesOf
  <2>3. h[i] = g[S] /\ h[i - 1] = g[1 .. i - 1]
    BY <1>1 DEF S
  <2> QED BY <2>1, <2>2, <2>3
<1>6. g[1 .. n] = h[n]
  BY <1>1
<1> HIDE DEF h
<1>7. Takes(h, s, fields)
  BY <1>4, <1>5 DEF Takes
<1> QED BY <1>2, <1>6, <1>7, Zenon

\* The joined starts of a sequence of fields.
GluesOf(g, b, t, n) ==
  g = [S \in SUBSET (1 .. n) |-> IF S = {} THEN b ELSE After(g[S \ {Max(S)}], t[Max(S)])]
GluesGo(b, t, n) == \E g : GluesOf(g, b, t, n)
Glues(h, b, t) ==
  h[0] = b /\ \A i \in 1 .. Len(t) : h[i] = After(h[i - 1], t[i])

LEMMA GluesExist ==
  ASSUME NEW b, NEW t, NEW n \in Nat
  PROVE  GluesGo(b, t, n)
<1> DEFINE P == {m \in Nat : GluesGo(b, t, m)}
<1>1. 0 \in P
  <2> DEFINE g == [S \in SUBSET (1 .. 0) |-> b]
  <2>1. \A S \in SUBSET (1 .. 0) : S = {}
    OBVIOUS
  <2>2. GluesOf(g, b, t, 0)
    BY <2>1 DEF GluesOf
  <2> HIDE DEF g
  <2>3. GluesGo(b, t, 0)
    BY <2>2, Zenon DEF GluesGo
  <2> QED BY <2>3
<1>2. ASSUME NEW m \in Nat, m \in P PROVE m + 1 \in P
  <2>0. GluesGo(b, t, m)
    BY <1>2
  <2>1. PICK g : GluesOf(g, b, t, m)
    BY <2>0, Zenon DEF GluesGo
  <2> DEFINE D == SUBSET (1 .. m + 1)
             h == [S \in D |-> IF m + 1 \in S THEN After(g[S \ {m + 1}], t[m + 1]) ELSE g[S]]
  <2>2. ASSUME NEW S \in D
        PROVE  h[S] = IF S = {} THEN b ELSE After(h[S \ {Max(S)}], t[Max(S)])
    <3>1. CASE m + 1 \in S
      <4>1. Max(S) = m + 1 /\ S \ {m + 1} \in SUBSET (1 .. m) /\ S \ {m + 1} \in D
        BY <3>1, MaxOfPrefix
      <4>2. h[S \ {m + 1}] = g[S \ {m + 1}]
        BY <4>1
      <4> QED BY <3>1, <4>1, <4>2
    <3>2. CASE m + 1 \notin S
      <4>1. S \in SUBSET (1 .. m) /\ h[S] = g[S]
        BY <3>2
      <4>2. CASE S = {}
        BY <2>1, <4>1, <4>2 DEF GluesOf
      <4>3. CASE S # {}
        <5>1. S \ {Max(S)} \in D /\ m + 1 \notin S \ {Max(S)}
          BY <3>2
        <5>2. h[S \ {Max(S)}] = g[S \ {Max(S)}]
          BY <5>1
        <5>3. g[S] = After(g[S \ {Max(S)}], t[Max(S)])
          BY <2>1, <4>1, <4>3 DEF GluesOf
        <5> QED BY <4>1, <4>3, <5>2, <5>3
      <4> QED BY <4>2, <4>3
    <3> QED BY <3>1, <3>2
  <2>3. h = [S \in D |-> h[S]]
    OBVIOUS
  <2> HIDE DEF h
  <2>4. GluesOf(h, b, t, m + 1)
    BY <2>2, <2>3 DEF GluesOf
  <2>5. GluesGo(b, t, m + 1)
    BY <2>4, Zenon DEF GluesGo
  <2> QED BY <2>5
<1>3. Nat \subseteq P
  <2>1. \A m \in Nat : m \in P => m + 1 \in P
    BY <1>2
  <2> HIDE DEF P
  <2> QED BY <1>1, <2>1, NatsByInduction
<1> QED BY <1>3

LEMMA GluesAre ==
  ASSUME NEW b, NEW t, t \in Fields
  PROVE  \E h : Glues(h, b, t) /\ Glue(b, t) = h[Len(t)]
<1> DEFINE n == Len(t)
           g == CHOOSE f : GluesOf(f, b, t, n)
           h == [i \in 0 .. n |-> g[1 .. i]]
<1>1. n \in Nat /\ DOMAIN (t) = 1 .. n
  OBVIOUS
<1>2. Glue(b, t) = g[1 .. n]
  BY <1>1 DEF FoldLeft, MapThenFoldSet, GluesOf, Glue, After, Fields
<1>3. GluesOf(g, b, t, n)
  <2>1. GluesGo(b, t, n)
    BY <1>1, GluesExist
  <2> QED BY <2>1, Zenon DEF GluesGo
<1> HIDE DEF g
<1>4. h[0] = b
  BY <1>1, <1>3 DEF GluesOf
<1>5. ASSUME NEW i \in 1 .. n PROVE h[i] = After(h[i - 1], t[i])
  <2> DEFINE S == 1 .. i
  <2>1. S \in SUBSET (1 .. n) /\ S # {} /\ Max(S) = i /\ S \ {i} = 1 .. i - 1
    BY <1>1, PrefixIs
  <2> HIDE DEF S
  <2>2. g[S] = After(g[S \ {i}], t[i])
    BY <1>3, <2>1 DEF GluesOf
  <2>3. h[i] = g[S] /\ h[i - 1] = g[1 .. i - 1]
    BY <1>1 DEF S
  <2> QED BY <2>1, <2>2, <2>3
<1>6. g[1 .. n] = h[n]
  BY <1>1
<1> HIDE DEF h
<1>7. Glues(h, b, t)
  BY <1>4, <1>5 DEF Glues
<1> QED BY <1>2, <1>6, <1>7, Zenon

\* The same from the first field on.
JoinsTo(g, parts) ==
  g[1] = parts[1] /\ \A i \in 2 .. Len(parts) : g[i] = After(g[i - 1], parts[i])

LEMMA JoinedIs ==
  ASSUME NEW parts \in Fields, parts # <<>>
  PROVE  \E g : JoinsTo(g, parts) /\ Joined(parts) = g[Len(parts)]
<1> DEFINE n == Len(parts)
           b == Head(parts)
           t == Tail(parts)
<1>1. /\ n \in Nat \ {0} /\ b = parts[1] /\ t \in Fields /\ Len(t) = n - 1
      /\ \A i \in 1 .. n - 1 : t[i] = parts[i + 1]
  BY DEF Fields
<1>2. Joined(parts) = Glue(b, t)
  BY DEF Joined, Glue
<1> HIDE DEF b, t
<1>3. PICK h : Glues(h, b, t) /\ Glue(b, t) = h[Len(t)]
  BY <1>1, GluesAre
<1>4. h[0] = b /\ \A i \in 1 .. n - 1 : h[i] = After(h[i - 1], t[i])
  BY <1>1, <1>3 DEF Glues
<1> HIDE DEF n
<1> DEFINE g == [i \in 1 .. n |-> h[i - 1]]
<1>5. g[1] = parts[1]
  BY <1>1, <1>4
<1>6. ASSUME NEW i \in 2 .. n PROVE g[i] = After(g[i - 1], parts[i])
  <2>1. i - 1 \in 1 .. n - 1 /\ i - 1 \in 1 .. n /\ i \in 1 .. n /\ (i - 1) + 1 = i
    BY <1>1
  <2>2. h[i - 1] = After(h[(i - 1) - 1], t[i - 1])
    BY <1>4, <2>1
  <2>3. t[i - 1] = parts[i]
    BY <1>1, <2>1
  <2>4. g[i] = h[i - 1] /\ g[i - 1] = h[(i - 1) - 1]
    BY <2>1
  <2> QED BY <2>2, <2>3, <2>4
<1>7. g[n] = h[Len(t)]
  BY <1>1
<1> HIDE DEF g
<1>8. JoinsTo(g, parts)
  BY <1>5, <1>6 DEF JoinsTo, n
<1>9. Joined(parts) = g[Len(parts)]
  BY <1>2, <1>3, <1>7 DEF n
<1> QED BY <1>8, <1>9, Zenon

LEMMA AfterIs ==
  ASSUME NEW t \in Seq(Nat), NEW p \in Seq(Nat)
  PROVE  After(t, p) \in Seq(Nat)
BY DEF After, Comma

\* What is joined is a text, and depends on the fields so far only.
LEMMA JoinType ==
  ASSUME NEW parts \in Fields, NEW g, JoinsTo(g, parts), NEW k \in 1 .. Len(parts)
  PROVE  g[k] \in Seq(Nat)
<1> DEFINE n == Len(parts)
<1>1. n \in Nat /\ \A i \in 1 .. n : parts[i] \in Seq(Nat)
  BY DEF Fields
<1>2. g[1] = parts[1] /\ \A i \in 2 .. n : g[i] = After(g[i - 1], parts[i])
  BY DEF JoinsTo
<1>3. k \in 1 .. n
  OBVIOUS
<1> HIDE DEF n
<1> DEFINE P == {i \in 0 .. n : i # 0 => g[i] \in Seq(Nat)}
<1>4. 0 \in P
  BY <1>1
<1>5. ASSUME NEW i \in 0 .. n - 1, i \in P PROVE i + 1 \in P
  <2>1. CASE i = 0
    <3>1. i + 1 = 1 /\ 1 \in 1 .. n
      BY <1>1, <2>1
    <3>2. g[1] \in Seq(Nat)
      BY <1>1, <1>2, <3>1
    <3> QED BY <1>1, <3>1, <3>2
  <2>2. CASE i # 0
    <3>1. i + 1 \in 2 .. n /\ i + 1 \in 1 .. n /\ (i + 1) - 1 = i
      BY <1>1, <2>2
    <3>2. g[i] \in Seq(Nat) /\ parts[i + 1] \in Seq(Nat)
      BY <1>1, <1>5, <2>2, <3>1
    <3>3. g[i + 1] = After(g[i], parts[i + 1])
      BY <1>2, <3>1
    <3>4. g[i + 1] \in Seq(Nat)
      BY <3>2, <3>3, AfterIs
    <3> QED BY <1>1, <3>1, <3>4
  <2> QED BY <2>1, <2>2
<1>6. 0 .. n \subseteq P
  <2> HIDE DEF P
  <2> QED BY <1>1, <1>4, <1>5, UpToByInduction
<1>7. k \in P /\ k # 0
  BY <1>1, <1>3, <1>6
<1> QED BY <1>7

LEMMA JoinPrefix ==
  ASSUME NEW parts \in Fields, NEW q \in Fields, NEW g, NEW h, JoinsTo(g, parts), JoinsTo(h, q),
         NEW k \in 1 .. Len(parts), k <= Len(q), \A i \in 1 .. k : parts[i] = q[i]
  PROVE  g[k] = h[k]
<1> DEFINE n == Len(parts)
           m == Len(q)
<1>1. n \in Nat /\ m \in Nat /\ k \in 1 .. n /\ k <= m /\ k \in Nat
  BY DEF Fields
<1>2. /\ g[1] = parts[1] /\ \A i \in 2 .. n : g[i] = After(g[i - 1], parts[i])
      /\ h[1] = q[1] /\ \A i \in 2 .. m : h[i] = After(h[i - 1], q[i])
  BY DEF JoinsTo
<1> HIDE DEF n, m
<1> DEFINE P == {i \in 0 .. k : i # 0 => g[i] = h[i]}
<1>3. 0 \in P
  BY <1>1
<1>4. ASSUME NEW i \in 0 .. k - 1, i \in P PROVE i + 1 \in P
  <2>1. CASE i = 0
    <3>1. i + 1 = 1 /\ 1 \in 1 .. k
      BY <1>1, <2>1
    <3>2. g[1] = h[1]
      BY <1>2, <3>1
    <3> QED BY <1>1, <3>1, <3>2
  <2>2. CASE i # 0
    <3>1. i + 1 \in 2 .. n /\ i + 1 \in 2 .. m /\ i + 1 \in 1 .. k /\ (i + 1) - 1 = i /\ i + 1 \in 0 .. k
      BY <1>1, <2>2
    <3>2. g[i] = h[i] /\ parts[i + 1] = q[i + 1]
      BY <1>4, <2>2, <3>1
    <3>3. g[i + 1] = After(g[i], parts[i + 1]) /\ h[i + 1] = After(h[i], q[i + 1])
      BY <1>2, <3>1
    <3> QED BY <3>1, <3>2, <3>3
  <2> QED BY <2>1, <2>2
<1>5. 0 .. k \subseteq P
  <2> HIDE DEF P
  <2> QED BY <1>1, <1>3, <1>4, UpToByInduction
<1>6. k \in P /\ k # 0
  BY <1>1, <1>5
<1> QED BY <1>6

LEMMA AfterNothing ==
  ASSUME NEW t \in Seq(Nat)
  PROVE  After(t, <<>>) = Append(t, Comma)
<1> DEFINE c == Comma
<1>1. c \in Nat
  BY DEF Comma
<1>2. After(t, <<>>) = t \o <<c>> \o <<>>
  BY DEF After
<1> HIDE DEF c
<1>3. t \o <<c>> \o <<>> = Append(t, c)
  BY <1>1
<1> QED BY <1>2, <1>3 DEF c

LEMMA AppendLater ==
  ASSUME NEW a \in Seq(Nat), NEW b \in Seq(Nat), NEW c \in Nat
  PROVE  a \o Append(b, c) = Append(a \o b, c)
OBVIOUS

LEMMA AfterAppend ==
  ASSUME NEW t \in Seq(Nat), NEW p \in Seq(Nat), NEW c \in Nat
  PROVE  After(t, Append(p, c)) = Append(After(t, p), c)
<1> DEFINE a == t \o <<Comma>>
<1>1. a \in Seq(Nat)
  BY DEF Comma
<1>2. After(t, Append(p, c)) = a \o Append(p, c) /\ After(t, p) = a \o p
  BY DEF After
<1> HIDE DEF a
<1> QED BY <1>1, <1>2, AppendLater

LEMMA AppendIs ==
  ASSUME NEW A, NEW s \in Seq(A), NEW e \in A
  PROVE  /\ Append(s, e) \in Seq(A) /\ Len(Append(s, e)) = Len(s) + 1 /\ Append(s, e)[Len(s) + 1] = e
         /\ \A i \in 1 .. Len(s) : Append(s, e)[i] = s[i]
OBVIOUS

LEMMA JoinOneMore ==
  ASSUME NEW parts \in Fields, parts # <<>>
  PROVE  Joined(Append(parts, <<>>)) = Append(Joined(parts), Comma)
<1> DEFINE n == Len(parts)
           q == Append(parts, <<>>)
<1>1. /\ n \in Nat \ {0} /\ q \in Fields /\ q # <<>> /\ Len(q) = n + 1 /\ q[n + 1] = <<>>
      /\ \A i \in 1 .. n : q[i] = parts[i]
  <2> DEFINE A == Seq(Nat)
             e == <<>>
  <2>1. e \in A /\ parts \in Seq(A) /\ q = Append(parts, e)
    BY DEF Fields
  <2>2. n \in Nat \ {0}
    BY <2>1
  <2>3. Fields = Seq(A)
    BY DEF Fields
  <2> HIDE DEF A, e, n, q
  <2>4. q \in Seq(A) /\ Len(q) = n + 1 /\ q[n + 1] = e /\ \A i \in 1 .. n : q[i] = parts[i]
    BY <2>1, AppendIs DEF n
  <2>5. q # <<>>
    BY <2>2, <2>4
  <2> QED BY <2>2, <2>3, <2>4, <2>5 DEF e
<1> HIDE DEF q
<1>2. PICK g : JoinsTo(g, parts) /\ Joined(parts) = g[n]
  BY JoinedIs
<1>3. PICK h : JoinsTo(h, q) /\ Joined(q) = h[n + 1]
  <2>1. \E h : JoinsTo(h, q) /\ Joined(q) = h[Len(q)]
    BY <1>1, JoinedIs
  <2> QED BY <1>1, <2>1
<1>4. n \in 1 .. Len(parts) /\ n <= Len(q)
  BY <1>1
<1>5. g[n] = h[n]
  BY <1>1, <1>2, <1>3, <1>4, JoinPrefix
<1>6. h[n + 1] = After(h[n], <<>>)
  <2>1. n + 1 \in 2 .. Len(q) /\ (n + 1) - 1 = n
    BY <1>1
  <2>2. h[n + 1] = After(h[(n + 1) - 1], q[n + 1])
    BY <1>3, <2>1 DEF JoinsTo
  <2> QED BY <1>1, <2>1, <2>2
<1>7. h[n] \in Seq(Nat)
  BY <1>2, <1>4, <1>5, JoinType
<1>8. Joined(q) = Append(Joined(parts), Comma)
  BY <1>2, <1>3, <1>5, <1>6, <1>7, AfterNothing
<1> QED BY <1>8 DEF q

\* The last field of q is one symbol longer.
LongerBy(parts, c, q) ==
  /\ Len(parts) \in Nat \ {0} /\ q # <<>> /\ Len(q) = Len(parts)
  /\ q[Len(parts)] = Append(parts[Len(parts)], c)
  /\ (\A i \in 1 .. Len(parts) - 1 : q[i] = parts[i]) /\ parts[Len(parts)] \in Seq(Nat)

LEMMA LongerIs ==
  ASSUME NEW parts \in Fields, parts # <<>>, NEW c \in Nat
  PROVE  /\ [parts EXCEPT ![Len(parts)] = Append(@, c)] \in Fields
         /\ LongerBy(parts, c, [parts EXCEPT ![Len(parts)] = Append(@, c)])
BY DEF Fields, LongerBy

LEMMA JoinLonger ==
  ASSUME NEW parts \in Fields, parts # <<>>, NEW c \in Nat, NEW q \in Fields, LongerBy(parts, c, q)
  PROVE  Joined(q) = Append(Joined(parts), c)
<1> DEFINE n == Len(parts)
<1>1. /\ n \in Nat \ {0} /\ q \in Fields /\ q # <<>> /\ Len(q) = n /\ q[n] = Append(parts[n], c)
      /\ (\A i \in 1 .. n - 1 : q[i] = parts[i]) /\ parts[n] \in Seq(Nat)
  BY DEF LongerBy
<1>2. PICK g : JoinsTo(g, parts) /\ Joined(parts) = g[n]
  BY JoinedIs
<1>3. PICK h : JoinsTo(h, q) /\ Joined(q) = h[n]
  <2>1. \E h : JoinsTo(h, q) /\ Joined(q) = h[Len(q)]
    BY <1>1, JoinedIs
  <2> QED BY <1>1, <2>1
<1>4. n = Len(parts)
  OBVIOUS
<1> HIDE DEF n
<1>5. CASE n = 1
  <2>1. g[1] = parts[1] /\ h[1] = q[1]
    BY <1>2, <1>3 DEF JoinsTo
  <2> QED BY <1>1, <1>2, <1>3, <1>5, <2>1
<1>6. CASE n # 1
  <2> DEFINE k == n - 1
  <2>1. k \in 1 .. Len(parts) /\ k <= Len(q) /\ n \in 2 .. Len(parts) /\ n \in 2 .. Len(q)
    <3>1. n - 1 \in 1 .. n /\ n - 1 <= n /\ n \in 2 .. n
      BY <1>1, <1>6
    <3>2. Len(q) = n /\ Len(parts) = n
      BY <1>1, <1>4
    <3> QED BY <3>1, <3>2
  <2>2. \A i \in 1 .. k : parts[i] = q[i]
    BY <1>1
  <2>3. h[n] = After(h[k], q[n]) /\ g[n] = After(g[k], parts[n])
    BY <1>2, <1>3, <2>1 DEF JoinsTo
  <2> HIDE DEF k
  <2>4. g[k] = h[k]
    <3>1. JoinsTo(g, parts) /\ JoinsTo(h, q) /\ q \in Fields
      BY <1>1, <1>2, <1>3
    <3> QED BY <2>1, <2>2, <3>1, JoinPrefix
  <2>5. g[k] \in Seq(Nat)
    BY <1>2, <2>1, JoinType
  <2>6. h[n] = After(g[k], Append(parts[n], c))
    BY <1>1, <2>3, <2>4
  <2>7. h[n] = Append(g[n], c)
    BY <1>1, <2>3, <2>5, <2>6, AfterAppend
  <2> QED BY <1>2, <1>3, <2>7
<1> QED BY <1>5, <1>6

\* What SplitRight says of the fields, but for the text they are of.
FieldsAre(parts, fields) ==
  /\ parts \in Fields /\ parts # <<>> /\ (fields # 0 => Len(parts) <= fields)
  /\ \A k \in DOMAIN parts : Where(parts[k], Comma) # {} => k = Len(parts) /\ k = fields

LEMMA CommaAppended ==
  ASSUME NEW p \in Seq(Nat), NEW c \in Nat, Where(Append(p, c), Comma) # {}
  PROVE  Where(p, Comma) # {} \/ c = Comma
<1> DEFINE r == Append(p, c)
<1>1. PICK j \in DOMAIN r : r[j] = Comma
  BY DEF Where
<1>2. j \in 1 .. Len(p) => j \in DOMAIN p /\ r[j] = p[j]
  OBVIOUS
<1>3. j \notin 1 .. Len(p) => r[j] = c
  OBVIOUS
<1> HIDE DEF r
<1> QED BY <1>1, <1>2, <1>3 DEF Where

LEMMA TakenIs ==
  ASSUME NEW parts, NEW fields \in Nat, NEW c \in Nat, FieldsAre(parts, fields)
  PROVE  /\ FieldsAre(Taken(parts, c, fields), fields)
         /\ Joined(Taken(parts, c, fields)) = Append(Joined(parts), c)
<1> DEFINE n == Len(parts)
<1>1. parts \in Fields /\ parts # <<>> /\ (fields # 0 => n <= fields)
  BY DEF FieldsAre
<1>2. n \in Nat \ {0} /\ DOMAIN parts = 1 .. n
  BY <1>1 DEF Fields
<1>3. \A k \in 1 .. n : Where(parts[k], Comma) # {} => k = n /\ k = fields
  BY <1>2 DEF FieldsAre
<1>4. CASE Splits(parts, c, fields)
  <2> DEFINE e == <<>>
             q == Append(parts, e)
             A == Seq(Nat)
  <2>1. c = Comma /\ (fields = 0 \/ n < fields)
    BY <1>4 DEF Splits
  <2>2. Taken(parts, c, fields) = q
    BY <1>4 DEF Taken
  <2>3. e \in A /\ parts \in Seq(A) /\ Fields = Seq(A) /\ Where(e, Comma) = {}
    BY <1>1 DEF Fields, Where
  <2>4. Joined(q) = Append(Joined(parts), c)
    BY <1>1, <2>1, JoinOneMore
  <2> HIDE DEF e, A, q
  <2>5. q \in Seq(A) /\ Len(q) = n + 1 /\ q[n + 1] = e /\ \A i \in 1 .. n : q[i] = parts[i]
    BY <2>3, AppendIs DEF q
  <2> HIDE DEF n
  <2>6. q # <<>> /\ DOMAIN q = 1 .. n + 1
    BY <1>2, <2>5
  <2>7. ASSUME NEW k \in DOMAIN q, Where(q[k], Comma) # {} PROVE FALSE
    <3>1. k # n + 1
      BY <2>3, <2>5, <2>7
    <3>2. k \in 1 .. n
      BY <1>2, <2>6, <3>1
    <3>3. k = n /\ k = fields
      BY <1>3, <2>5, <2>7, <3>2
    <3> QED BY <1>2, <2>1, <3>3
  <2>8. fields # 0 => Len(q) <= fields
    BY <1>2, <2>1, <2>5
  <2>9. FieldsAre(q, fields)
    BY <2>3, <2>5, <2>6, <2>7, <2>8 DEF FieldsAre
  <2> QED BY <2>2, <2>4, <2>9
<1>5. CASE ~Splits(parts, c, fields)
  <2> DEFINE q == [parts EXCEPT ![Len(parts)] = Append(@, c)]
  <2>1. c = Comma => fields # 0 /\ ~(n < fields)
    BY <1>5 DEF Splits
  <2>2. Taken(parts, c, fields) = q
    BY <1>5 DEF Taken
  <2>3. q \in Fields /\ LongerBy(parts, c, q)
    BY <1>1, LongerIs
  <2> HIDE DEF q
  <2>4. Joined(q) = Append(Joined(parts), c)
    BY <1>1, <2>3, JoinLonger
  <2>5. /\ q # <<>> /\ Len(q) = n /\ q[n] = Append(parts[n], c)
        /\ (\A i \in 1 .. n - 1 : q[i] = parts[i]) /\ parts[n] \in Seq(Nat)
    BY <2>3 DEF LongerBy
  <2> HIDE DEF n
  <2>6. DOMAIN q = 1 .. n
    BY <1>2, <2>3, <2>5 DEF Fields
  <2>7. ASSUME NEW k \in DOMAIN q, Where(q[k], Comma) # {} PROVE k = n /\ k = fields
    <3>1. CASE k = n
      <4>1. Where(parts[n], Comma) # {} \/ c = Comma
        BY <2>5, <2>7, <3>1, CommaAppended
      <4>2. ASSUME Where(parts[n], Comma) # {} PROVE n = fields
        BY <1>2, <1>3, <4>2
      <4>3. ASSUME c = Comma PROVE n = fields
        <5>1. n <= fields /\ ~(n < fields) /\ n \in Nat
          BY <1>1, <1>2, <2>1, <4>3 DEF n
        <5> QED BY <5>1
      <4> QED BY <3>1, <4>1, <4>2, <4>3
    <3>2. CASE k # n
      <4>1. k \in 1 .. n - 1 /\ k \in 1 .. n
        BY <1>2, <2>6, <3>2
      <4>2. q[k] = parts[k]
        BY <2>5, <4>1
      <4> QED BY <1>3, <2>7, <3>2, <4>1, <4>2
    <3> QED BY <3>1, <3>2
  <2>8. FieldsAre(q, fields)
    BY <1>1, <2>3, <2>5, <2>7 DEF FieldsAre, n
  <2> QED BY <2>2, <2>4, <2>8
<1> QED BY <1>4, <1>5

\* The start of a text, one symbol longer.
LEMMA StartIs ==
  ASSUME NEW s \in Seq(Nat), NEW i \in Nat, i < Len(s)
  PROVE  SubSeq(s, 1, i + 1) = Append(SubSeq(s, 1, i), s[i + 1])
<1> DEFINE a == SubSeq(s, 1, i)
           b == SubSeq(s, 1, i + 1)
           c == s[i + 1]
           r == Append(a, c)
<1>1. a \in Seq(Nat) /\ Len(a) = i /\ \A j \in 1 .. i : a[j] = s[j]
  <2>1. Part(Nat, s, 1, i, a)
    <3>1. 1 \in Nat \ {0} /\ 1 <= i + 1 /\ i <= Len(s)
      OBVIOUS
    <3> QED BY <3>1, SubSeqIs
  <2> HIDE DEF a
  <2>2. i - 1 + 1 = i /\ \A j \in 1 .. i : 1 + j - 1 = j
    OBVIOUS
  <2> QED BY <2>1, <2>2 DEF Part
<1>2. b \in Seq(Nat) /\ Len(b) = i + 1 /\ \A j \in 1 .. i + 1 : b[j] = s[j]
  <2>1. Part(Nat, s, 1, i + 1, b)
    <3>1. 1 \in Nat \ {0} /\ i + 1 \in Nat /\ 1 <= (i + 1) + 1 /\ i + 1 <= Len(s)
      OBVIOUS
    <3> QED BY <3>1, SubSeqIs
  <2> HIDE DEF b
  <2>2. (i + 1) - 1 + 1 = i + 1 /\ \A j \in 1 .. i + 1 : 1 + j - 1 = j
    OBVIOUS
  <2> QED BY <2>1, <2>2 DEF Part
<1> HIDE DEF a, b
<1>3. c \in Nat
  OBVIOUS
<1>4. r \in Seq(Nat) /\ Len(r) = i + 1 /\ r[i + 1] = c /\ \A j \in 1 .. i : r[j] = a[j]
  <2> HIDE DEF c
  <2> QED BY <1>1, <1>3, AppendIs
<1> HIDE DEF r
<1>5. ASSUME NEW j \in 1 .. i + 1 PROVE b[j] = r[j]
  <2>1. CASE j = i + 1
    BY <1>2, <1>4, <2>1 DEF c
  <2>2. CASE j # i + 1
    <3>1. j \in 1 .. i
      BY <2>2
    <3> QED BY <1>1, <1>2, <1>4, <3>1
  <2> QED BY <2>1, <2>2
<1>6. b = r
  BY <1>2, <1>4, <1>5, SameSeq
<1> QED BY <1>6 DEF a, b, c, r

LEMMA SplitIs ==
  ASSUME NEW s \in Seq(Nat), NEW fields \in Nat
  PROVE  FieldsAre(split_args(s, fields), fields) /\ Joined(split_args(s, fields)) = s
<1> DEFINE n == Len(s)
<1>1. PICK h : Takes(h, s, fields) /\ split_args(s, fields) = h[n]
  BY TakesAre
<1>2. n \in Nat /\ h[0] = <<<<>>>> /\ \A i \in 1 .. n : h[i] = Taken(h[i - 1], s[i], fields)
  BY <1>1 DEF Takes
<1>3. SubSeq(s, 1, n) = s /\ SubSeq(s, 1, 0) = <<>>
  OBVIOUS
<1> DEFINE Right(i) == FieldsAre(h[i], fields) /\ Joined(h[i]) = SubSeq(s, 1, i)
           P == {i \in 0 .. n : Right(i)}
<1>4. 0 \in P
  <2> DEFINE e == <<>>
             p == <<e>>
  <2>1. e \in Seq(Nat) /\ p \in Fields /\ p # <<>> /\ Len(p) = 1 /\ DOMAIN p = {1} /\ p[1] = e
    BY DEF Fields
  <2>2. Where(e, Comma) = {} /\ (fields # 0 => 1 <= fields)
    BY DEF Where
  <2>3. h[0] = p
    BY <1>2
  <2>4. SubSeq(s, 1, 0) = e
    BY <1>3
  <2> HIDE DEF e, p
  <2>5. FieldsAre(p, fields)
    BY <2>1, <2>2 DEF FieldsAre
  <2>6. Joined(p) = e
    <3>1. PICK g : JoinsTo(g, p) /\ Joined(p) = g[Len(p)]
      BY <2>1, JoinedIs
    <3>2. g[1] = p[1]
      BY <3>1 DEF JoinsTo
    <3> QED BY <2>1, <3>1, <3>2
  <2>7. Right(0)
    BY <2>3, <2>4, <2>5, <2>6
  <2> HIDE DEF Right
  <2> QED BY <1>2, <2>7
<1>5. ASSUME NEW i \in 0 .. n - 1, i \in P PROVE i + 1 \in P
  <2>1. i + 1 \in 1 .. n /\ (i + 1) - 1 = i /\ i + 1 \in 0 .. n /\ i \in Nat /\ i < Len(s)
    BY <1>2
  <2>2. FieldsAre(h[i], fields) /\ Joined(h[i]) = SubSeq(s, 1, i)
    BY <1>5
  <2>3. s[i + 1] \in Nat /\ h[i + 1] = Taken(h[i], s[i + 1], fields)
    BY <1>2, <2>1
  <2> DEFINE c == s[i + 1]
             p == h[i]
  <2>4. SubSeq(s, 1, i + 1) = Append(SubSeq(s, 1, i), c)
    BY <2>1, StartIs
  <2>5. c \in Nat /\ FieldsAre(p, fields) /\ Joined(p) = SubSeq(s, 1, i) /\ h[i + 1] = Taken(p, c, fields)
    BY <2>2, <2>3
  <2> HIDE DEF c, p
  <2>6. FieldsAre(Taken(p, c, fields), fields) /\ Joined(Taken(p, c, fields)) = Append(Joined(p), c)
    BY <2>5, TakenIs
  <2>7. Right(i + 1)
    BY <2>4, <2>5, <2>6
  <2> HIDE DEF Right
  <2> QED BY <2>1, <2>7
<1>6. 0 .. n \subseteq P
  <2> HIDE DEF P
  <2> QED BY <1>2, <1>4, <1>5, UpToByInduction
<1>7. Right(n)
  BY <1>2, <1>6
<1> QED BY <1>1, <1>3, <1>7

\* The numbers of the fields.
Parsed(s, word) == [k \in DOMAIN split_args(s, 0) |-> parse_int(split_args(s, 0)[k], word)]

LEMMA NumbersAre ==
  ASSUME NEW s \in Seq(Nat), NEW word
  PROVE  LET numbers == split_args_int(s, word)
         IN  IF numbers = <<>> THEN \E k \in DOMAIN split_args(s, 0) : parse_int(split_args(s, 0)[k], word) = {}
             ELSE \A k \in DOMAIN numbers : numbers[k] \in parse_int(split_args(s, 0)[k], word)
<1> DEFINE p == split_args(s, 0)
           f == [k \in DOMAIN p |-> parse_int(p[k], word)]
           numbers == split_args_int(s, word)
           r == [k \in DOMAIN f |-> CHOOSE v \in f[k] : TRUE]
<1>1. numbers = IF \E k \in DOMAIN f : f[k] = {} THEN <<>> ELSE r
  BY DEF split_args_int
<1>2. 1 \in DOMAIN p
  <2>1. FieldsAre(p, 0)
    BY SplitIs
  <2> HIDE DEF p
  <2> QED BY <2>1 DEF FieldsAre, Fields
<1>3. DOMAIN f = DOMAIN p /\ DOMAIN r = DOMAIN f /\ \A k \in DOMAIN p : f[k] = parse_int(p[k], word)
  OBVIOUS
<1>4. \A k \in DOMAIN r : f[k] # {} => r[k] \in f[k]
  OBVIOUS
<1> HIDE DEF p, f, r, numbers
<1>5. CASE \E k \in DOMAIN f : f[k] = {}
  <2>1. numbers = <<>> /\ \E k \in DOMAIN p : parse_int(p[k], word) = {}
    BY <1>1, <1>3, <1>5
  <2> QED BY <2>1 DEF numbers, p
<1>6. CASE ~\E k \in DOMAIN f : f[k] = {}
  <2>1. numbers = r
    BY <1>1, <1>6
  <2>2. r # <<>>
    BY <1>2, <1>3
  <2>3. \A k \in DOMAIN r : r[k] \in parse_int(p[k], word)
    BY <1>3, <1>4, <1>6
  <2> QED BY <2>1, <2>2, <2>3 DEF numbers, p
<1> QED BY <1>5, <1>6

LEMMA SplitIsRight ==
  ASSUME NEW s \in Texts, NEW fields \in Nat, NEW word
  PROVE  SplitRight(s, fields, word)
<1>1. s \in Seq(Nat)
  BY DEF Texts
<1>2. FieldsAre(split_args(s, fields), fields) /\ Joined(split_args(s, fields)) = s
  BY <1>1, SplitIs
<1>3. LET numbers == split_args_int(s, word)
      IN  IF numbers = <<>> THEN \E k \in DOMAIN split_args(s, 0) : parse_int(split_args(s, 0)[k], word) = {}
          ELSE \A k \in DOMAIN numbers : numbers[k] \in parse_int(split_args(s, 0)[k], word)
  BY <1>1, NumbersAre
<1> QED BY <1>2, <1>3 DEF SplitRight, FieldsAre

-----------------------------------------------------------------------------
\* For every text, buffer and table of hosts: the fields of a text are the text
\* without its commas, a number in hexadecimal is cut to its type and no other
\* text is taken for one, a copy ends within its size, an address is accepted
\* when it is one and its port is in network order, the name of a host has no
\* domain and the domain is that of the host, and the columns of a headline are
\* found (string.h, string.cpp, net_common.cpp, pid_mapping.cpp).
THEOREM TextIsRight == FSpec => []TextRight
<1>1. Called => TextRight
  <2> SUFFICES ASSUME Called PROVE TextRight
    OBVIOUS
  <2>0. IntWord \in Nat \ {0} /\ HexWord \in Nat \ {0} /\ NetByte \in Nat \ {0}
    BY FunctionsAssumption
  <2>1. ASSUME call.fn = "split" PROVE SplitRight(call.s, call.fields, IntWord)
    <3>1. call \in [fn : {"split"}, s : Texts, fields : Nat]
      BY <2>1, CallSets, FunctionsAssumption
    <3>2. call.s \in Texts /\ call.fields \in Nat
      BY <3>1
    <3> QED BY <3>2, SplitIsRight
  <2>2. ASSUME call.fn = "hex" PROVE HexRight(call.s, HexWord)
    <3>1. call \in [fn : {"hex"}, s : Texts]
      BY <2>2, CallSets, FunctionsAssumption
    <3>2. call.s \in Texts
      BY <3>1
    <3> QED BY <2>0, <3>2, HexIsRight
  <2>3. ASSUME call.fn = "copy" PROVE CopyRight(call.dst, call.src, call.size)
    <3>1. call \in [fn : {"copy"}, dst : Texts, src : Texts, size : Nat] /\ Fits(call)
      BY <2>3, CallSets, FunctionsAssumption
    <3>2. call.dst \in Texts /\ call.src \in Texts /\ call.size \in Nat
      BY <3>1
    <3>3. NUL \notin ToSet(call.src) /\ call.size <= Len(call.dst)
      BY <3>1 DEF Fits
    <3> QED BY <3>2, <3>3, CopyIsRight
  <2>4. ASSUME call.fn = "sockaddr" PROVE SockaddrRight(call.s, call.addr, NetByte)
    <3>1. call \in [fn : {"sockaddr"}, s : Texts, addr : [host : Nat, port : Nat, family : STRING]]
      BY <2>4, CallSets, FunctionsAssumption
    <3>2. call.s \in Texts /\ call.addr \in [host : Nat, port : Nat, family : STRING]
      BY <3>1
    <3> QED BY <2>0, <3>2, SockaddrIsRight
  <2>5. ASSUME call.fn = "host" PROVE HostRight(call.buffer, call.hosts)
    <3>1. call \in [fn : {"host"}, buffer : Texts, hosts : Seq(Texts)]
      BY <2>5, CallSets, FunctionsAssumption
    <3>2. call.buffer \in Texts /\ call.hosts \in Seq(Texts)
      BY <3>1
    <3> QED BY <3>2, HostIsRight
  <2>6. ASSUME call.fn = "columns" PROVE ColumnsRight(call.headline, <<1, 2, 3>>)
    <3>1. call \in [fn : {"columns"}, headline : Seq(Nat)]
      BY <2>6, CallSets, FunctionsAssumption
    <3>2. call.headline \in Seq(Nat)
      BY <3>1
    <3> QED BY <3>2, ColumnsAreRight
  <2> QED BY <2>1, <2>2, <2>3, <2>4, <2>5, <2>6 DEF TextRight
<1> QED BY <1>1, CalledAlways, PTL
=============================================================================
