----------------------------- MODULE StrIntern -----------------------------
(***************************************************************************)
(* str_intern: a hash set of strings that grows.  A string is copied once  *)
(* into memory that is never given back and indexed by blocks <<hash,      *)
(* pointer to the copy>> in buckets; the index is rebuilt with more        *)
(* buckets when there are rehash_count_ strings, up to max_buckets_.       *)
(*                                                                         *)
(* An allocation may throw between any two steps of intern().  A load      *)
(* factor is a number of 1/LoadUnit; the rounding of floats is left out.   *)
(***************************************************************************)
EXTENDS Integers, Sequences, FiniteSets

CONSTANTS
  Strings,      \* the strings callers intern
  Hashes,       \* the values of svh_, std::hash<std::string_view>
  BitAnd(_, _), \* operator & of std::size_t
  PowersOf2,    \* the powers of two among the numbers of buckets
  Args,         \* the numbers a caller passes to the constructor
  LoadUnit,     \* the load factor 1.0
  LoadFactors,  \* the load factors a caller sets
  SizeWord,     \* 2^64: the values of a std::size_t
  MaxCopies     \* bound: strings and failed attempts to intern one

\* p is the power of two bit_ceil() rounds n up to.
IsBitCeil(p, n) == p >= n /\ \A q \in PowersOf2 : q >= n => p <= q

\* A load factor of 0.01 or less.
TooSmall(ml) == 100 * ml <= LoadUnit

\* The last two: there is memory for so few strings that neither the number of
\* buckets nor the threshold computed from them is beyond a std::size_t.
ASSUME InternAssumption ==
  /\ Hashes \subseteq Nat
  /\ PowersOf2 \subseteq Nat \ {0} /\ Args \subseteq Nat
  /\ \A p, q \in PowersOf2 : p < q => 2 * p <= q
  /\ \A m \in Args : \A n \in 1 .. m : \E p \in PowersOf2 : IsBitCeil(p, n)
  /\ \A h \in Hashes, n \in (Args \ {0}) \cup PowersOf2 :
       BitAnd(h, n - 1) \in 0 .. n - 1
  /\ LoadUnit \in Nat \ {0}
  /\ LoadFactors \subseteq Nat
  /\ MaxCopies \in Nat /\ SizeWord \in Nat
  /\ 4 * (MaxCopies + 1) <= SizeWord
  /\ \A ml \in LoadFactors :
       TooSmall(ml) \/ (MaxCopies + 1) * LoadUnit < SizeWord * ml

VARIABLES
  svh,          \* svh_: the hash of each string
  strings,      \* strings_: the copies; the index of a copy is its address
  set,          \* set_: the blocks in each bucket
  buckets,      \* set_->size()
  hashMask,     \* hash_mask_
  interned,     \* interned_, what size() returns
  maxBuckets,   \* max_buckets_
  maxLoad,      \* max_load_factor_
  rehashCount,  \* rehash_count_: strings that trigger a rehash, 0 for none
  given,        \* history: the address intern() last returned for a string
  failed        \* history: an allocation ever failed

vars == <<svh, strings, set, buckets, hashMask, interned, maxBuckets, maxLoad,
          rehashCount, given, failed>>

Block == [hash : Hashes, at : Nat \ {0}]

\* The least number not below a/b
CeilDiv(a, b) == (a + b - 1) \div b

\* bit_ceil()
BitCeil(n) == CHOOSE p \in PowersOf2 : IsBitCeil(p, n)

-----------------------------------------------------------------------------

\* The checks of the constructor.
Accepted(b, m) ==
  /\ b # 0 /\ BitAnd(b, b - 1) = 0
  /\ m >= b
  /\ BitAnd(m, b - 1) = 0

Init ==
  /\ svh \in [Strings -> Hashes]
  /\ \E b, m \in Args :
       /\ Accepted(b, m)
       /\ buckets = b /\ hashMask = b - 1 /\ maxBuckets = m
       /\ rehashCount = IF b = m THEN 0 ELSE b
       /\ set = [i \in 0 .. b - 1 |-> {}]
  /\ strings = << >> /\ interned = 0 /\ maxLoad = LoadUnit
  /\ given = [x \in Strings |-> 0] /\ failed = FALSE

\* Mutant of Found: a block with the same hash is taken for the same string.
FoundByHash(x) == {b \in set[BitAnd(svh[x], hashMask)] : b.hash = svh[x]}

\* The blocks of the bucket of x that stand for x.
Found(x) == {b \in set[BitAnd(svh[x], hashMask)] :
               b.hash = svh[x] /\ strings[b.at] = x}

\* intern() finds the string.
InternHit(x) ==
  /\ \E b \in Found(x) : given' = [given EXCEPT ![x] = b.at]
  /\ UNCHANGED <<svh, strings, set, buckets, hashMask, interned, maxBuckets,
                 maxLoad, rehashCount, failed>>

\* The counter, the copy and the block of a new string, put into bucket i of
\* the index.  The copy, or the block after the copy, may not be had.
Add(x, index, i) ==
  LET at == Len(strings) + 1
  IN  /\ interned < MaxCopies
      /\ interned' = interned + 1
      /\ \/ /\ strings' = Append(strings, x)
            /\ set' = [index EXCEPT ![i] = @ \cup {[hash |-> svh[x], at |-> at]}]
            /\ given' = [given EXCEPT ![x] = at]
            /\ UNCHANGED failed
         \/ /\ strings' \in {strings, Append(strings, x)}
            /\ set' = index
            /\ failed' = TRUE
            /\ UNCHANGED given

RehashDue == rehashCount # 0 /\ interned >= rehashCount

\* intern() adds the string to the buckets there are.
InternNew(x) ==
  /\ Found(x) = {} /\ ~RehashDue
  /\ Add(x, set, BitAnd(svh[x], hashMask))
  /\ UNCHANGED <<svh, buckets, hashMask, maxBuckets, maxLoad, rehashCount>>

\* Mutant of NextSize: the string that is added is forgotten.
NextSizeForNow == LET n == CeilDiv(interned * LoadUnit, maxLoad)
                  IN  IF n >= maxBuckets THEN maxBuckets ELSE BitCeil(n)

\* next_size(): the power of two that keeps one more string under the load.
NextSize == LET n == CeilDiv((interned + 1) * LoadUnit, maxLoad)
            IN  IF n >= maxBuckets THEN maxBuckets ELSE BitCeil(n)

\* The index of rehash(): every block moves to its bucket of n.
Rehashed(n) == [i \in 0 .. n - 1 |->
                  {b \in UNION {set[j] : j \in 0 .. buckets - 1} :
                     BitAnd(b.hash, n - 1) = i}]

\* rehash_count_ after rehash(n)
CountAfter(n) == IF n = maxBuckets THEN 0 ELSE (n * maxLoad) \div LoadUnit

\* Mutant of IndexAfter: the index of the smaller set of buckets is used.
IndexKept(x, n) == BitAnd(svh[x], hashMask)

\* The index is looked up again, h & hash_mask_.
IndexAfter(x, n) == BitAnd(svh[x], n - 1)

\* intern() makes more buckets first.  When it cannot, nothing has changed.
InternRehash(x) ==
  /\ Found(x) = {} /\ RehashDue
  /\ buckets' = NextSize
  /\ hashMask' = NextSize - 1
  /\ rehashCount' = CountAfter(NextSize)
  /\ Add(x, Rehashed(NextSize), IndexAfter(x, NextSize))
  /\ UNCHANGED <<svh, maxBuckets, maxLoad>>

Intern(x) == InternHit(x) \/ InternNew(x) \/ InternRehash(x)

\* The load factor ml allows n buckets more strings than a std::size_t counts.
Unlimited(n, ml) == n * ml >= SizeWord * LoadUnit

\* max_load_factor(ml): a later rehash, never one now.
SetMaxLoad(ml) ==
  /\ ~TooSmall(ml)
  /\ maxLoad' = ml
  /\ rehashCount' =
       IF maxBuckets = buckets \/ Unlimited(buckets, ml) THEN 0
       ELSE LET c == CeilDiv(buckets * ml, LoadUnit)
            IN  IF c > buckets THEN c ELSE buckets
  /\ UNCHANGED <<svh, strings, set, buckets, hashMask, interned, maxBuckets,
                 given, failed>>

\* std::invalid_argument is thrown.
LoadRefused(ml) == TooSmall(ml) /\ UNCHANGED vars

Next == \/ \E x \in Strings : Intern(x)
        \/ \E ml \in LoadFactors : SetMaxLoad(ml) \/ LoadRefused(ml)

Spec == Init /\ [][Next]_vars

-----------------------------------------------------------------------------

\* Every variable has its type.
TypeOK ==
  /\ svh \in [Strings -> Hashes]
  /\ strings \in Seq(Strings)
  /\ buckets \in Nat \ {0} /\ hashMask = buckets - 1
  /\ set \in [0 .. buckets - 1 -> SUBSET Block]
  /\ interned \in Nat /\ Len(strings) <= interned
  /\ maxBuckets \in Nat \ {0}
  /\ maxLoad \in Nat \ {0} /\ rehashCount \in Nat
  /\ given \in [Strings -> 0 .. Len(strings)] /\ failed \in BOOLEAN

\* Every block is in the bucket its hash leads to, whatever rehashes there
\* were, and the hash is that of the string it points to.
BlocksInPlace ==
  \A i \in 0 .. buckets - 1 : \A b \in set[i] :
    /\ BitAnd(b.hash, hashMask) = i
    /\ b.at \in 1 .. Len(strings)
    /\ b.hash = svh[strings[b.at]]

\* Interning is what it promises: equal strings are the same object for ever,
\* across rehashes and failed allocations, and different strings never are.
Pool == INSTANCE StringPool WITH Addresses <- 1 .. MaxCopies, pool <- given
ImplementsPool == Pool!Spec

\* size() counts the strings, as long as no allocation has failed.
SizeCounts == ~failed => interned = Cardinality({x \in Strings : given[x] # 0})

\* "When the rehash_count_ == 0, then no more checks should be made [...]. We've
\* reached the maximum": growing stops at max_buckets_, not beyond, and before
\* it only while the load is unlimited.
StopsAtMaximum ==
  /\ buckets <= maxBuckets
  /\ buckets = maxBuckets => rehashCount = 0
  /\ rehashCount = 0 => buckets = maxBuckets \/ Unlimited(buckets, maxLoad)

\* At every step: the pool counts what it holds and stops growing at its
\* maximum.  The string that a step adds is within the threshold that the step
\* leaves, whether it made the index grow or not.  The index grows only for a
\* string that would overload it, to twice its size at least, and to one that
\* the string does not overload, unless that is the maximum.  The next string
\* may well overload it and make it grow again.
GrowsInTime ==
  [][/\ SizeCounts' /\ StopsAtMaximum'
     /\ interned' # interned => rehashCount' = 0 \/ interned' <= rehashCount'
     /\ buckets' # buckets =>
          /\ buckets' >= 2 * buckets
          /\ interned' * LoadUnit > buckets * maxLoad
          /\ interned' * LoadUnit <= buckets' * maxLoad \/ buckets' = maxBuckets]_vars

=============================================================================
