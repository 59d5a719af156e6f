-------------------------- MODULE StrInternProofs --------------------------
(***************************************************************************)
(* For any strings, hash function and number of buckets, interning is what *)
(* StringPool promises.  The inductive invariant ties the index, the       *)
(* copies and what was given to callers to each other: a block is in the   *)
(* bucket of its hash (BlocksInPlace), points to the copy callers have     *)
(* (BlocksGiven), and every copy a caller has can be found (GivenIndexed). *)
(* A second one is about growth: what is counted, where growing stops and  *)
(* how late the threshold of a rehash may be (GrowthInv).                  *)
(***************************************************************************)
EXTENDS StrIntern, FiniteSetTheorems, TLAPS

USE InternAssumption

\* The numbers of buckets there can be.
Sizes == (Args \ {0}) \cup PowersOf2

TypeInv ==
  /\ svh \in [Strings -> Hashes]
  /\ strings \in Seq(Strings)
  /\ buckets \in Sizes /\ hashMask = buckets - 1
  /\ set \in [0 .. buckets - 1 -> SUBSET Block]
  /\ interned \in Nat /\ Len(strings) <= interned /\ interned <= MaxCopies
  /\ maxBuckets \in Args \ {0}
  /\ maxLoad \in Nat \ {0} /\ rehashCount \in Nat
  /\ given \in [Strings -> 0 .. Len(strings)] /\ failed \in BOOLEAN

\* The copy a block points to is the one callers have.
BlocksGiven ==
  \A i \in 0 .. buckets - 1 : \A b \in set[i] : given[strings[b.at]] = b.at

\* What callers have is found again.
GivenIndexed ==
  \A x \in Strings : given[x] # 0 =>
    /\ strings[given[x]] = x
    /\ [hash |-> svh[x], at |-> given[x]] \in set[BitAnd(svh[x], hashMask)]

IInv == TypeInv /\ BlocksInPlace /\ BlocksGiven /\ GivenIndexed

-----------------------------------------------------------------------------

\* A number of buckets is positive and masking a hash gives one of them.
LEMMA MaskInRange ==
  ASSUME NEW n \in Sizes, NEW h \in Hashes
  PROVE  n \in Nat \ {0} /\ BitAnd(h, n - 1) \in 0 .. n - 1
BY DEF Sizes

\* next_size() is a number of buckets there can be.
LEMMA NextSizeInSizes ==
  ASSUME TypeInv
  PROVE  NextSize \in Sizes
<1> DEFINE n == CeilDiv((interned + 1) * LoadUnit, maxLoad)
<1>1. maxBuckets \in Sizes /\ maxBuckets \in Nat
  BY DEF TypeInv, Sizes
<1>2. n \in Nat \ {0}
  <2>1. (interned + 1) * LoadUnit \in Nat \ {0} /\ maxLoad \in Nat \ {0}
    BY DEF TypeInv
  <2>2. \A a, b \in Nat \ {0} : (a + b - 1) \div b \in Nat \ {0}
    OBVIOUS
  <2> QED  BY <2>1, <2>2 DEF CeilDiv
<1>3. CASE n >= maxBuckets
  BY <1>1, <1>3 DEF NextSize
<1>4. CASE ~(n >= maxBuckets)
  <2>1. maxBuckets \in Args /\ n \in 1 .. maxBuckets
    BY <1>1, <1>2, <1>4 DEF TypeInv
  <2>2. \E p \in PowersOf2 : IsBitCeil(p, n)
    BY <2>1
  <2>3. BitCeil(n) \in PowersOf2
    BY <2>2 DEF BitCeil
  <2> QED  BY <1>4, <2>3 DEF NextSize, Sizes
<1> QED  BY <1>3, <1>4

\* A rehash keeps every block, adds none, and puts each where its hash leads.
LEMMA RehashedBlocks ==
  ASSUME TypeInv, NEW n \in Sizes
  PROVE  /\ Rehashed(n) \in [0 .. n - 1 -> SUBSET Block]
         /\ \A i \in 0 .. n - 1 : \A b \in Rehashed(n)[i] :
              /\ BitAnd(b.hash, n - 1) = i
              /\ \E j \in 0 .. buckets - 1 : b \in set[j]
         /\ \A j \in 0 .. buckets - 1 : \A b \in set[j] :
              b \in Rehashed(n)[BitAnd(b.hash, n - 1)]
<1>1. \A j \in 0 .. buckets - 1 : set[j] \subseteq Block
  BY DEF TypeInv
<1>2. \A j \in 0 .. buckets - 1 : \A b \in set[j] :
         BitAnd(b.hash, n - 1) \in 0 .. n - 1
  <2> SUFFICES ASSUME NEW j \in 0 .. buckets - 1, NEW b \in set[j]
               PROVE  BitAnd(b.hash, n - 1) \in 0 .. n - 1
    OBVIOUS
  <2>1. b.hash \in Hashes
    BY <1>1 DEF Block
  <2> QED  BY <2>1, MaskInRange
<1> QED  BY <1>1, <1>2 DEF Rehashed

-----------------------------------------------------------------------------

LEMMA InitIInv == Init => IInv
<1> SUFFICES ASSUME Init PROVE IInv
  OBVIOUS
<1>1. PICK b \in Args, m \in Args :
         /\ Accepted(b, m)
         /\ buckets = b /\ hashMask = b - 1 /\ maxBuckets = m
         /\ rehashCount = IF b = m THEN 0 ELSE b
         /\ set = [i \in 0 .. b - 1 |-> {}]
  BY DEF Init
<1>2. b \in Nat \ {0} /\ m \in Nat \ {0}
  BY <1>1 DEF Accepted
<1>3. strings = << >> /\ Len(strings) = 0 /\ strings \in Seq(Strings)
  BY DEF Init
<1>4. TypeInv
  <2>1. b \in Sizes /\ m \in Args \ {0} /\ rehashCount \in Nat
    BY <1>1, <1>2 DEF Sizes
  <2>2. set \in [0 .. b - 1 -> SUBSET Block]
    BY <1>1
  <2>3. given \in [Strings -> 0 .. Len(strings)]
    BY <1>3 DEF Init
  <2>4. interned = 0 /\ maxLoad \in Nat \ {0} /\ MaxCopies \in Nat
    BY DEF Init
  <2>5. svh \in [Strings -> Hashes] /\ failed \in BOOLEAN
    BY DEF Init
  <2> QED  BY <1>1, <1>3, <2>1, <2>2, <2>3, <2>4, <2>5 DEF TypeInv
<1>5. BlocksInPlace /\ BlocksGiven /\ GivenIndexed
  BY <1>1, <1>3 DEF Init, BlocksInPlace, BlocksGiven, GivenIndexed
<1> QED  BY <1>4, <1>5 DEF IInv

\* A string that has no block where its hash leads was never given to a caller.
LEMMA NotFoundNotGiven ==
  ASSUME IInv, NEW x \in Strings, Found(x) = {}
  PROVE  given[x] = 0
<1> SUFFICES ASSUME given[x] # 0 PROVE FALSE
  OBVIOUS
<1> DEFINE b == [hash |-> svh[x], at |-> given[x]]
<1>1. strings[given[x]] = x /\ b \in set[BitAnd(svh[x], hashMask)]
  BY DEF IInv, GivenIndexed
<1>2. b.hash = svh[x] /\ b.at = given[x]
  OBVIOUS
<1>3. b \in Found(x)
  BY <1>1, <1>2 DEF Found
<1> QED  BY <1>3

\* A string found is the one callers have: intern() changes nothing.
LEMMA HitChangesNothing ==
  ASSUME IInv, NEW x \in Strings, InternHit(x)
  PROVE  UNCHANGED vars
<1>1. PICK b \in Found(x) : given' = [given EXCEPT ![x] = b.at]
  BY DEF InternHit
<1>2. BitAnd(svh[x], hashMask) \in 0 .. buckets - 1
  BY MaskInRange DEF IInv, TypeInv
<1>3. given[x] = b.at
  BY <1>1, <1>2 DEF IInv, BlocksGiven, Found
<1>4. given' = given
  BY <1>1, <1>3 DEF IInv, TypeInv
<1> QED  BY <1>4 DEF InternHit, vars

\* Adding a string to an index with the blocks there are, in n buckets.
LEMMA AddKeepsIInv ==
  ASSUME IInv, NEW x \in Strings, Found(x) = {},
         NEW n \in Sizes, NEW index \in [0 .. n - 1 -> SUBSET Block],
         \A i \in 0 .. n - 1 : \A b \in index[i] :
           /\ BitAnd(b.hash, n - 1) = i
           /\ \E j \in 0 .. buckets - 1 : b \in set[j],
         \A j \in 0 .. buckets - 1 : \A b \in set[j] :
           b \in index[BitAnd(b.hash, n - 1)],
         Add(x, index, BitAnd(svh[x], n - 1)),
         buckets' = n, hashMask' = n - 1, rehashCount' \in Nat,
         UNCHANGED <<svh, maxBuckets, maxLoad>>
  PROVE  IInv' /\ [Pool!Next]_given
<1> DEFINE at == Len(strings) + 1
           k == BitAnd(svh[x], n - 1)
           new == [hash |-> svh[x], at |-> at]
<1> USE DEF IInv
<1>0. /\ k \in 0 .. n - 1 /\ n \in Nat \ {0} /\ svh[x] \in Hashes
      /\ Len(strings) \in Nat /\ interned \in Nat /\ MaxCopies \in Nat
      /\ new \in Block /\ new.hash = svh[x] /\ new.at = at
  <2>1. svh[x] \in Hashes /\ Len(strings) \in Nat /\ interned \in Nat
    BY DEF TypeInv
  <2>2. k \in 0 .. n - 1 /\ n \in Nat \ {0}
    BY <2>1, MaskInRange
  <2>3. at \in Nat \ {0}
    BY <2>1
  <2>4. new \in Block
    BY <2>1, <2>3 DEF Block
  <2> QED  BY <2>1, <2>2, <2>4
<1> HIDE InternAssumption
<1>1. given[x] = 0
  BY NotFoundNotGiven
<1>2. interned < MaxCopies /\ interned' = interned + 1
  BY DEF Add
<1>3. \A j \in 0 .. buckets - 1 : \A b \in set[j] :
        /\ b.at \in 1 .. Len(strings) /\ strings[b.at] \in Strings
        /\ b.hash = svh[strings[b.at]] /\ given[strings[b.at]] = b.at
        /\ strings[b.at] # x
  BY <1>0, <1>1 DEF TypeInv, BlocksInPlace, BlocksGiven
<1>4. \A i \in 0 .. n - 1 : \A b \in index[i] :
        /\ b.at \in 1 .. Len(strings) /\ strings[b.at] \in Strings
        /\ b.hash = svh[strings[b.at]] /\ given[strings[b.at]] = b.at
        /\ strings[b.at] # x
        /\ BitAnd(b.hash, n - 1) = i
  BY <1>3
<1>5. \A y \in Strings : given[y] # 0 =>
        /\ y # x
        /\ given[y] \in 1 .. Len(strings)
        /\ strings[given[y]] = y
        /\ [hash |-> svh[y], at |-> given[y]] \in index[BitAnd(svh[y], n - 1)]
  <2> SUFFICES ASSUME NEW y \in Strings, given[y] # 0
               PROVE  /\ y # x
                      /\ given[y] \in 1 .. Len(strings)
                      /\ strings[given[y]] = y
                      /\ [hash |-> svh[y], at |-> given[y]]
                            \in index[BitAnd(svh[y], n - 1)]
    OBVIOUS
  <2>1. BitAnd(svh[y], hashMask) \in 0 .. buckets - 1
    BY MaskInRange DEF TypeInv
  <2>2. [hash |-> svh[y], at |-> given[y]] \in set[BitAnd(svh[y], hashMask)]
    BY DEF GivenIndexed
  <2>3. [hash |-> svh[y], at |-> given[y]] \in index[BitAnd(svh[y], n - 1)]
    BY <2>1, <2>2
  <2>4. given[y] \in 0 .. Len(strings) /\ strings[given[y]] = y
    BY DEF TypeInv, GivenIndexed
  <2>5. given[y] \in 1 .. Len(strings)
    BY <1>0, <2>4
  <2> QED  BY <1>1, <2>3, <2>4, <2>5
<1>6. CASE /\ strings' = Append(strings, x)
           /\ set' = [index EXCEPT ![k] = @ \cup {new}]
           /\ given' = [given EXCEPT ![x] = at]
           /\ UNCHANGED failed
  <2>1. /\ strings' \in Seq(Strings) /\ Len(strings') = at /\ strings'[at] = x
        /\ \A i \in 1 .. Len(strings) : strings'[i] = strings[i]
    BY <1>0, <1>6 DEF TypeInv
  <2>2. given'[x] = at /\ \A y \in Strings \ {x} : given'[y] = given[y]
    BY <1>6 DEF TypeInv
  <2>3. /\ set' \in [0 .. n - 1 -> SUBSET Block]
        /\ \A i \in 0 .. n - 1 : index[i] \subseteq set'[i]
        /\ \A i \in 0 .. n - 1 : \A b \in set'[i] :
              b \in index[i] \/ (i = k /\ b = new)
        /\ new \in set'[k]
    BY <1>0, <1>6
  <2>4. TypeInv'
    <3>1. interned' \in Nat /\ Len(strings') <= interned' /\ interned' <= MaxCopies
      BY <1>0, <1>2, <2>1 DEF TypeInv
    <3>2. given' \in [Strings -> 0 .. Len(strings')]
      BY <1>0, <1>6, <2>1 DEF TypeInv
    <3> QED  BY <1>6, <2>1, <2>3, <3>1, <3>2 DEF TypeInv
  <2>5. BlocksInPlace'
    <3> SUFFICES ASSUME NEW i \in 0 .. n - 1, NEW b \in set'[i]
                 PROVE  /\ BitAnd(b.hash, n - 1) = i
                        /\ b.at \in 1 .. Len(strings')
                        /\ b.hash = svh[strings'[b.at]]
      BY DEF BlocksInPlace
    <3>1. CASE b \in index[i]
      BY <1>0, <1>4, <2>1, <3>1
    <3>2. CASE i = k /\ b = new
      BY <1>0, <2>1, <3>2
    <3> QED  BY <2>3, <3>1, <3>2
  <2>6. BlocksGiven'
    <3> SUFFICES ASSUME NEW i \in 0 .. n - 1, NEW b \in set'[i]
                 PROVE  given'[strings'[b.at]] = b.at
      BY DEF BlocksGiven
    <3>1. CASE b \in index[i]
      BY <1>4, <2>1, <2>2, <3>1
    <3>2. CASE i = k /\ b = new
      BY <1>0, <2>1, <2>2, <3>2
    <3> QED  BY <2>3, <3>1, <3>2
  <2>7. GivenIndexed'
    <3> SUFFICES ASSUME NEW y \in Strings, given'[y] # 0
                 PROVE  /\ strings'[given'[y]] = y
                        /\ [hash |-> svh[y], at |-> given'[y]]
                              \in set'[BitAnd(svh[y], n - 1)]
      BY DEF GivenIndexed
    <3>1. CASE y = x
      BY <2>1, <2>2, <2>3, <3>1
    <3>2. CASE y # x
      <4>1. BitAnd(svh[y], n - 1) \in 0 .. n - 1
        BY MaskInRange DEF TypeInv
      <4>2. given'[y] = given[y] /\ given[y] # 0
        BY <2>2, <3>2
      <4>3. /\ given[y] \in 1 .. Len(strings) /\ strings[given[y]] = y
            /\ [hash |-> svh[y], at |-> given[y]] \in index[BitAnd(svh[y], n - 1)]
        BY <1>5, <4>2
      <4>4. strings'[given[y]] = y
        BY <2>1, <4>3
      <4>5. [hash |-> svh[y], at |-> given[y]] \in set'[BitAnd(svh[y], n - 1)]
        BY <2>3, <4>1, <4>3
      <4> QED  BY <4>2, <4>4, <4>5
    <3> QED  BY <3>1, <3>2
  <2>8. Pool!Next
    <3>1. at \in 1 .. MaxCopies
      BY <1>0, <1>2 DEF TypeInv
    <3>2. \A y \in Strings : given[y] # at
      BY <1>0 DEF TypeInv
    <3>3. Pool!Add(x, at)
      BY <1>1, <1>6, <3>2 DEF Pool!Add
    <3> QED  BY <3>1, <3>3 DEF Pool!Next
  <2> QED  BY <2>4, <2>5, <2>6, <2>7, <2>8
<1>7. CASE /\ strings' \in {strings, Append(strings, x)}
           /\ set' = index
           /\ failed' = TRUE
           /\ UNCHANGED given
  <2>1. /\ strings' \in Seq(Strings)
        /\ Len(strings) <= Len(strings') /\ Len(strings') <= Len(strings) + 1
        /\ \A i \in 1 .. Len(strings) : strings'[i] = strings[i]
    <3>1. strings \in Seq(Strings)
      BY DEF TypeInv
    <3>2. CASE strings' = strings
      BY <1>0, <3>1, <3>2
    <3>3. CASE strings' = Append(strings, x)
      BY <1>0, <3>1, <3>3
    <3> QED  BY <1>7, <3>2, <3>3
  <2>2. TypeInv'
    <3>1. /\ interned' \in Nat /\ Len(strings') \in Nat
          /\ Len(strings') <= interned' /\ interned' <= MaxCopies
      BY <1>0, <1>2, <2>1 DEF TypeInv
    <3>2. given' \in [Strings -> 0 .. Len(strings')]
      BY <1>0, <1>7, <2>1, <3>1 DEF TypeInv
    <3> QED  BY <1>7, <2>1, <3>1, <3>2 DEF TypeInv
  <2>3. BlocksInPlace'
    BY <1>0, <1>4, <1>7, <2>1 DEF BlocksInPlace
  <2>4. BlocksGiven'
    BY <1>4, <1>7, <2>1 DEF BlocksGiven
  <2>5. GivenIndexed'
    BY <1>5, <1>7, <2>1 DEF GivenIndexed
  <2> QED  BY <1>7, <2>2, <2>3, <2>4, <2>5
<1> QED  BY <1>6, <1>7 DEF Add

-----------------------------------------------------------------------------

\* A load factor that is set is positive.
LEMMA Positive ==
  ASSUME NEW ml \in LoadFactors, ~TooSmall(ml)
  PROVE  ml \in Nat \ {0}
BY DEF TooSmall

\* A step keeps the invariant and is a step of the pool, or none.
LEMMA NextIInv == IInv /\ [Next]_vars => IInv' /\ [Pool!Next]_given
<1> SUFFICES ASSUME IInv, [Next]_vars PROVE IInv' /\ [Pool!Next]_given
  OBVIOUS
<1>1. CASE UNCHANGED vars
  BY <1>1 DEF IInv, TypeInv, BlocksInPlace, BlocksGiven, GivenIndexed, vars
<1>2. ASSUME NEW x \in Strings, InternHit(x)
      PROVE  IInv' /\ [Pool!Next]_given
  <2>1. UNCHANGED vars
    BY <1>2, HitChangesNothing
  <2> QED  BY <1>1, <2>1
<1>3. ASSUME NEW x \in Strings, InternNew(x)
      PROVE  IInv' /\ [Pool!Next]_given
  <2>1. /\ Found(x) = {}
        /\ Add(x, set, BitAnd(svh[x], buckets - 1))
        /\ buckets' = buckets /\ hashMask' = buckets - 1
        /\ rehashCount' \in Nat /\ UNCHANGED <<svh, maxBuckets, maxLoad>>
    BY <1>3 DEF InternNew, IInv, TypeInv
  <2>2. /\ buckets \in Sizes
        /\ set \in [0 .. buckets - 1 -> SUBSET Block]
    BY DEF IInv, TypeInv
  <2>3. \A i \in 0 .. buckets - 1 : \A b \in set[i] :
          BitAnd(b.hash, buckets - 1) = i
    BY DEF IInv, TypeInv, BlocksInPlace
  <2> QED  BY <2>1, <2>2, <2>3, AddKeepsIInv
<1>4. ASSUME NEW x \in Strings, InternRehash(x)
      PROVE  IInv' /\ [Pool!Next]_given
  <2> DEFINE n == NextSize
  <2>1. n \in Sizes
    BY NextSizeInSizes DEF IInv
  <2>2. /\ Found(x) = {}
        /\ Add(x, Rehashed(n), BitAnd(svh[x], n - 1))
        /\ buckets' = n /\ hashMask' = n - 1
        /\ UNCHANGED <<svh, maxBuckets, maxLoad>>
    BY <1>4 DEF InternRehash, IndexAfter
  <2>3. rehashCount' \in Nat
    <3>1. n \in Nat \ {0} /\ maxLoad \in Nat /\ LoadUnit \in Nat \ {0}
      BY <2>1 DEF Sizes, IInv, TypeInv
    <3>2. n * maxLoad \in Nat
      BY <3>1
    <3>3. (n * maxLoad) \div LoadUnit \in Nat
      BY <3>1, <3>2
    <3> QED  BY <1>4, <3>3 DEF InternRehash, CountAfter
  <2> HIDE DEF n
  <2> QED  BY <2>1, <2>2, <2>3, RehashedBlocks, AddKeepsIInv DEF IInv
<1>5. ASSUME NEW ml \in LoadFactors, SetMaxLoad(ml)
      PROVE  IInv' /\ [Pool!Next]_given
  <2>1. /\ UNCHANGED <<svh, strings, set, buckets, hashMask, interned,
                       maxBuckets, given, failed>>
        /\ maxLoad' \in Nat \ {0}
    BY <1>5, Positive DEF SetMaxLoad
  <2>2. rehashCount' \in Nat
    <3>1. buckets \in Nat \ {0} /\ ml \in Nat \ {0} /\ LoadUnit \in Nat \ {0}
      BY <1>5, Positive DEF IInv, TypeInv, Sizes, SetMaxLoad
    <3>2. buckets * ml \in Nat
      BY <3>1
    <3>3. \A a, b \in Nat : b # 0 => (a + b - 1) \div b \in Nat
      OBVIOUS
    <3>4. CeilDiv(buckets * ml, LoadUnit) \in Nat
      BY <3>1, <3>2, <3>3 DEF CeilDiv
    <3> QED  BY <1>5, <3>1, <3>4 DEF SetMaxLoad
  <2> QED
    BY <2>1, <2>2 DEF IInv, TypeInv, BlocksInPlace, BlocksGiven, GivenIndexed
<1>6. ASSUME NEW ml \in LoadFactors, LoadRefused(ml)
      PROVE  IInv' /\ [Pool!Next]_given
  BY <1>1, <1>6 DEF LoadRefused
<1> QED  BY <1>1, <1>2, <1>3, <1>4, <1>5, <1>6 DEF Next, Intern

\* The index, the copies and the callers' references agree in every state.
THEOREM Invariance == Spec => []IInv
<1>1. Init => IInv
  BY InitIInv
<1>2. IInv /\ [Next]_vars => IInv'
  BY NextIInv
<1> QED  BY <1>1, <1>2, PTL DEF Spec

\* Every variable has its type, and there are never more copies than counted.
THEOREM TypeCorrect == Spec => []TypeOK
<1>1. IInv => TypeOK
  BY DEF IInv, TypeInv, TypeOK, Sizes
<1> QED  BY <1>1, Invariance, PTL

\* Every block is where its hash leads, for every number of buckets.
THEOREM InPlace == Spec => []BlocksInPlace
<1>1. IInv => BlocksInPlace
  BY DEF IInv
<1> QED  BY <1>1, Invariance, PTL

\* Interning is a pool of unique strings whose addresses never change: for any
\* strings, hashes, load factors and rehashes, and whatever allocation fails.
THEOREM Implements == Spec => ImplementsPool
<1>1. Init => Pool!Init
  BY DEF Init, Pool!Init
<1>2. Init => IInv
  BY InitIInv
<1>3. IInv /\ [Next]_vars => IInv' /\ [Pool!Next]_given
  BY NextIInv
<1> QED  BY <1>1, <1>2, <1>3, PTL DEF Spec, ImplementsPool, Pool!Spec

-----------------------------------------------------------------------------
(* Growth *)

\* A quotient rounded up or down, without the division.
LEMMA CeilDivBounds ==
  ASSUME NEW a \in Nat, NEW b \in Nat \ {0}
  PROVE  CeilDiv(a, b) \in Nat /\ a <= CeilDiv(a, b) * b
<1> DEFINE q == (a + b - 1) \div b
<1>1. a + b - 1 \in Nat /\ q \in Nat /\ q * b <= a + b - 1 /\ a + b - 1 < (q + 1) * b
  OBVIOUS
<1>2. (q + 1) * b = q * b + b
  BY <1>1
<1> HIDE DEF q
<1>3. q * b \in Nat
  BY <1>1
<1>4. a <= q * b
  BY <1>1, <1>2, <1>3
<1> QED
  BY <1>1, <1>4 DEF CeilDiv, q

LEMMA DivBounds ==
  ASSUME NEW a \in Nat, NEW b \in Nat \ {0}
  PROVE  /\ a \div b \in Nat
         /\ a < (a \div b + 1) * b
         /\ \A k \in Nat : k * b <= a => k <= a \div b
OBVIOUS

LEMMA TimesOrder ==
  ASSUME NEW a \in Nat, NEW b \in Nat, NEW c \in Nat \ {0}
  PROVE  /\ a * c \in Nat
         /\ a <= b => a * c <= b * c
         /\ a * c < b * c => a < b
OBVIOUS

\* The strings callers have.
Known == {x \in Strings : given[x] # 0}

\* size() counts them until an allocation fails.
Counted == IsFiniteSet(Known) /\ SizeCounts

\* The threshold is at most one string short of the load that the buckets
\* there are may have: a rehash that is due finds them too few.
ThresholdLate ==
  rehashCount # 0 => (rehashCount + 1) * LoadUnit > buckets * maxLoad

GrowthInv == Counted /\ StopsAtMaximum /\ ThresholdLate

LEMMA GrowthInit == Init => GrowthInv
<1> SUFFICES ASSUME Init PROVE GrowthInv
  OBVIOUS
<1>1. PICK b \in Args, m \in Args :
         /\ Accepted(b, m)
         /\ buckets = b /\ maxBuckets = m
         /\ rehashCount = IF b = m THEN 0 ELSE b
  BY DEF Init
<1>2. b \in Nat \ {0} /\ m \in Nat \ {0} /\ b <= m
  BY <1>1 DEF Accepted
<1>3. Known = {} /\ interned = 0
  BY DEF Init, Known
<1>4. Counted
  BY <1>3, FS_EmptySet DEF Counted, SizeCounts, Known
<1>5. StopsAtMaximum
  BY <1>1, <1>2 DEF StopsAtMaximum
<1>6. ThresholdLate
  BY <1>1, <1>2 DEF Init, ThresholdLate
<1> QED  BY <1>4, <1>5, <1>6 DEF GrowthInv

\* A new string is counted, or the allocation failed.
LEMMA AddCounts ==
  ASSUME TypeInv, Counted, NEW x \in Strings, given[x] = 0,
         NEW index, NEW i, Add(x, index, i)
  PROVE  Counted'
<1>1. CASE /\ given' = [given EXCEPT ![x] = Len(strings) + 1]
           /\ UNCHANGED failed
  <2>1. Known' = Known \cup {x} /\ x \notin Known
    BY <1>1 DEF TypeInv, Known
  <2>2. IsFiniteSet(Known) /\ (~failed => interned = Cardinality(Known))
    BY DEF Counted, SizeCounts, Known
  <2>3. IsFiniteSet(Known') /\ Cardinality(Known') = Cardinality(Known) + 1
    BY <2>1, <2>2, FS_AddElement
  <2> QED
    BY <1>1, <2>2, <2>3 DEF Add, Counted, SizeCounts, Known
<1>2. CASE failed' = TRUE /\ UNCHANGED given
  BY <1>2 DEF Counted, SizeCounts, Known
<1> QED  BY <1>1, <1>2 DEF Add

\* The maximum the constructor asks for in its message is a power of two.
\* Below it next_size() is enough for one string more; it is at least twice what
\* there is, which is too little.
LEMMA NextSizeGrows ==
  ASSUME TypeInv, GrowthInv, RehashDue, maxBuckets \in PowersOf2, buckets \in PowersOf2
  PROVE  /\ NextSize \in Nat /\ NextSize >= 2 * buckets /\ NextSize <= maxBuckets
         /\ buckets * maxLoad < (interned + 1) * LoadUnit
         /\ NextSize # maxBuckets => (interned + 1) * LoadUnit <= NextSize * maxLoad
<1> DEFINE need == (interned + 1) * LoadUnit
           n == CeilDiv(need, maxLoad)
<1>1. /\ buckets \in Nat \ {0} /\ maxLoad \in Nat \ {0} /\ LoadUnit \in Nat \ {0}
      /\ interned \in Nat /\ rehashCount \in Nat /\ maxBuckets \in Nat \ {0}
  BY DEF TypeInv, Sizes
<1>2. need \in Nat /\ (rehashCount + 1) * LoadUnit <= need
  BY <1>1, TimesOrder DEF RehashDue
<1>3. buckets * maxLoad < need
  <2>1. /\ buckets * maxLoad < (rehashCount + 1) * LoadUnit
        /\ buckets * maxLoad \in Nat /\ (rehashCount + 1) * LoadUnit \in Nat
    BY <1>1, TimesOrder DEF GrowthInv, ThresholdLate, RehashDue
  <2> HIDE DEF need
  <2> QED  BY <1>2, <2>1
<1>4. n \in Nat /\ need <= n * maxLoad
  BY <1>1, <1>2, CeilDivBounds
<1>5. buckets < n
  <2> HIDE DEF n, need
  <2>1. buckets * maxLoad < n * maxLoad
    BY <1>1, <1>2, <1>3, <1>4, TimesOrder
  <2> QED  BY <1>1, <1>4, <2>1, TimesOrder
<1>6. buckets < maxBuckets
  BY <1>1 DEF GrowthInv, StopsAtMaximum, RehashDue
<1>7. CASE n >= maxBuckets
  <2>1. NextSize = maxBuckets
    BY <1>7 DEF NextSize
  <2>2. 2 * buckets <= maxBuckets
    BY <1>6
  <2> QED  BY <1>1, <1>3, <2>1, <2>2
<1>8. CASE ~(n >= maxBuckets)
  <2>1. n \in 1 .. maxBuckets /\ maxBuckets \in Args
    BY <1>1, <1>4, <1>5, <1>8 DEF TypeInv
  <2>2. IsBitCeil(BitCeil(n), n) /\ BitCeil(n) \in PowersOf2
    BY <2>1 DEF BitCeil
  <2>3. NextSize = BitCeil(n)
    BY <1>8 DEF NextSize
  <2> HIDE DEF n, need
  <2>4. NextSize \in Nat /\ n <= NextSize /\ NextSize <= maxBuckets
    <3>1. NextSize >= n /\ (maxBuckets >= n => NextSize <= maxBuckets)
      BY <2>2, <2>3 DEF IsBitCeil
    <3>2. NextSize \in Nat
      BY <2>2, <2>3
    <3> QED  BY <1>1, <1>4, <1>8, <3>1, <3>2
  <2>5. n * maxLoad <= NextSize * maxLoad
    BY <1>1, <1>4, <2>4, TimesOrder
  <2>6. need <= NextSize * maxLoad
    BY <1>1, <1>2, <1>4, <2>4, <2>5, TimesOrder
  <2>7. NextSize \in PowersOf2 /\ buckets < NextSize
    BY <1>1, <1>4, <1>5, <2>2, <2>3, <2>4
  <2>8. 2 * buckets <= NextSize
    BY <2>7
  <2> QED  BY <1>1, <1>3, <2>4, <2>6, <2>8 DEF need
<1> QED  BY <1>7, <1>8

\* What a step does when it adds a string, and to the number of buckets.
Grows ==
  /\ interned' # interned => rehashCount' = 0 \/ interned' <= rehashCount'
  /\ buckets' # buckets =>
       /\ buckets' >= 2 * buckets
       /\ interned' * LoadUnit > buckets * maxLoad
       /\ interned' * LoadUnit <= buckets' * maxLoad \/ buckets' = maxBuckets

LEMMA GrowthStep ==
  ASSUME \A m \in Args : m # 0 => m \in PowersOf2,
         IInv, GrowthInv, [Next]_vars
  PROVE  GrowthInv' /\ Grows
<1>0. /\ TypeInv /\ maxBuckets \in PowersOf2 /\ buckets \in PowersOf2 /\ buckets \in Nat \ {0}
      /\ maxLoad \in Nat \ {0} /\ LoadUnit \in Nat \ {0} /\ interned \in Nat /\ rehashCount \in Nat
  BY DEF IInv, TypeInv, Sizes
<1>1. CASE UNCHANGED vars
  BY <1>1 DEF vars, GrowthInv, Counted, Known, SizeCounts, StopsAtMaximum,
     Unlimited, ThresholdLate, Grows
<1>2. ASSUME NEW x \in Strings, InternHit(x) PROVE GrowthInv' /\ Grows
  <2>1. UNCHANGED vars
    BY <1>2, HitChangesNothing
  <2> QED  BY <1>1, <2>1
<1>3. ASSUME NEW x \in Strings, InternNew(x) PROVE GrowthInv' /\ Grows
  <2>1. Counted'
    BY <1>0, <1>3, AddCounts, NotFoundNotGiven DEF InternNew, GrowthInv
  <2> QED
    BY <1>0, <1>3, <2>1
       DEF InternNew, RehashDue, Add, GrowthInv, StopsAtMaximum, Unlimited, ThresholdLate, Grows
<1>4. ASSUME NEW x \in Strings, InternRehash(x) PROVE GrowthInv' /\ Grows
  <2>1. Counted'
    BY <1>0, <1>4, AddCounts, NotFoundNotGiven DEF InternRehash, GrowthInv
  <2>2. /\ NextSize \in Nat /\ NextSize >= 2 * buckets /\ NextSize <= maxBuckets
        /\ buckets * maxLoad < (interned + 1) * LoadUnit
        /\ NextSize # maxBuckets => (interned + 1) * LoadUnit <= NextSize * maxLoad
    BY <1>0, <1>4, NextSizeGrows DEF InternRehash
  <2>3. /\ buckets' = NextSize /\ maxBuckets' = maxBuckets /\ maxLoad' = maxLoad
        /\ rehashCount' = CountAfter(NextSize) /\ interned' = interned + 1
    BY <1>4 DEF InternRehash, Add
  <2>4. CASE NextSize = maxBuckets
    BY <1>0, <2>1, <2>2, <2>3, <2>4
       DEF CountAfter, GrowthInv, StopsAtMaximum, ThresholdLate, Grows
  <2>5. CASE NextSize # maxBuckets
    <3> DEFINE n == NextSize
               c == (n * maxLoad) \div LoadUnit
    <3>1. n * maxLoad \in Nat /\ (interned + 1) * LoadUnit <= n * maxLoad
      BY <1>0, <2>2, <2>5, TimesOrder
    <3>2. /\ c \in Nat
          /\ n * maxLoad < (c + 1) * LoadUnit
          /\ interned + 1 <= c
      <4> HIDE DEF n
      <4> QED  BY <1>0, <3>1, DivBounds
    <3>3. rehashCount' = c
      BY <2>3, <2>5 DEF CountAfter
    <3> HIDE DEF n, c
    <3>4. interned' <= rehashCount' /\ rehashCount' # 0
      BY <1>0, <2>3, <3>2, <3>3
    <3>5. (rehashCount' + 1) * LoadUnit > buckets' * maxLoad'
      <4>1. (c + 1) * LoadUnit > n * maxLoad
        BY <1>0, <3>1, <3>2, TimesOrder
      <4> QED  BY <2>3, <3>3, <4>1 DEF n
    <3>6. Grows
      BY <1>0, <2>2, <2>3, <2>5, <3>4 DEF Grows
    <3> QED
      BY <1>0, <2>1, <2>2, <2>3, <2>5, <3>4, <3>5, <3>6
         DEF GrowthInv, StopsAtMaximum, ThresholdLate
  <2> QED  BY <2>4, <2>5
<1>5. ASSUME NEW ml \in LoadFactors, SetMaxLoad(ml) PROVE GrowthInv' /\ Grows
  <2> DEFINE c == CeilDiv(buckets * ml, LoadUnit)
  <2>1. /\ UNCHANGED <<buckets, maxBuckets, interned, given, failed>>
        /\ maxLoad' = ml
        /\ rehashCount' = IF maxBuckets = buckets \/ Unlimited(buckets, ml) THEN 0
                          ELSE IF c > buckets THEN c ELSE buckets
    BY <1>5 DEF SetMaxLoad
  <2>2. Counted' /\ Grows
    BY <2>1 DEF GrowthInv, Counted, Known, SizeCounts, Grows
  <2>3. ml \in Nat \ {0} /\ buckets * ml \in Nat
    BY <1>0, <1>5, Positive, TimesOrder DEF SetMaxLoad
  <2>4. c \in Nat /\ buckets * ml <= c * LoadUnit
    BY <1>0, <2>3, CeilDivBounds
  <2> HIDE DEF c
  <2>5. StopsAtMaximum'
    <3>1. Unlimited(buckets, ml) => Unlimited(buckets, maxLoad)'
      BY <2>1 DEF Unlimited
    <3> QED  BY <1>0, <2>1, <2>4, <3>1 DEF GrowthInv, StopsAtMaximum
  <2>6. ASSUME rehashCount' # 0
        PROVE  (rehashCount' + 1) * LoadUnit > buckets * ml
    <3>1. rehashCount' \in Nat /\ c <= rehashCount'
      BY <1>0, <2>1, <2>4, <2>6
    <3>2. c * LoadUnit <= rehashCount' * LoadUnit /\ rehashCount' * LoadUnit \in Nat
      BY <1>0, <2>4, <3>1, TimesOrder
    <3>3. (rehashCount' + 1) * LoadUnit = rehashCount' * LoadUnit + LoadUnit
      BY <1>0, <3>1
    <3>4. c * LoadUnit \in Nat
      BY <1>0, <2>4, TimesOrder
    <3> QED  BY <1>0, <2>3, <2>4, <3>2, <3>3, <3>4
  <2> QED  BY <2>1, <2>2, <2>5, <2>6 DEF GrowthInv, ThresholdLate
<1>6. ASSUME NEW ml \in LoadFactors, LoadRefused(ml) PROVE GrowthInv' /\ Grows
  BY <1>1, <1>6 DEF LoadRefused
<1> QED  BY <1>1, <1>2, <1>3, <1>4, <1>5, <1>6 DEF Next, Intern

\* For a maximum that is a power of two, as the constructor's message asks for
\* (its check lets others pass), size() counts the strings and the buckets stop
\* at the maximum.  A string that is added is within the threshold it leaves;
\* the index grows only for a string that would overload it, doubles at least,
\* and is then large enough for that string, not for the next one, or the
\* maximum: whatever load factors are set and whatever allocation fails.
THEOREM GrowsWhenNeeded ==
  ASSUME \A m \in Args : m # 0 => m \in PowersOf2
  PROVE  Spec => GrowsInTime
<1> DEFINE InTime ==
             /\ SizeCounts' /\ StopsAtMaximum'
             /\ interned' # interned => rehashCount' = 0 \/ interned' <= rehashCount'
             /\ buckets' # buckets =>
                  /\ buckets' >= 2 * buckets
                  /\ interned' * LoadUnit > buckets * maxLoad
                  /\ interned' * LoadUnit <= buckets' * maxLoad \/ buckets' = maxBuckets
<1>1. IInv /\ GrowthInv /\ [Next]_vars => GrowthInv'
  BY GrowthStep
<1>2. IInv /\ GrowthInv /\ [Next]_vars => [InTime]_vars
  BY GrowthStep DEF GrowthInv, Counted, Grows
<1>3. Spec => [][InTime]_vars
  BY <1>1, <1>2, GrowthInit, Invariance, PTL DEF Spec
<1> QED  BY <1>3 DEF GrowsInTime

=============================================================================
