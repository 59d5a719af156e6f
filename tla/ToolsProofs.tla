------------------------------ MODULE ToolsProofs ------------------------------
(****************************************************************************)
(* The programs: core_latency and udp_load.                                 *)
(*                                                                          *)
(* The two threads of either benchmark of core_latency alternate strictly,  *)
(* in every run.  corerw_benchmark, for every even number of exchanges: the *)
(* proof rests on what the two words say about the two counts.  Equal words *)
(* mean equal counts, different words mean that pong is one ahead, and      *)
(* ping_ is PONG after an odd number of exchanges.  The last part is what   *)
(* carries over to the next run, where init() is not called again.          *)
(* core_benchmark, for every number of exchanges and every type of swap:    *)
(* while the one word is PING the counts are equal, while it is PONG ping   *)
(* is one ahead.  At the end of a run both counts are the same, so the word *)
(* is PING again.  For the exclusive store of arm64 the monitor keeps what  *)
(* the load saw: a thread that still has it at its store finds the word it  *)
(* compared.                                                                *)
(*                                                                          *)
(* udp_load, for any number of threads and packets and any order of steps:  *)
(* the threads begin together, share all the packets, and the report is     *)
(* made at the end and is the sum of what they sent.  The invariant says    *)
(* where main() may stand while the threads stand where they do (Phases),   *)
(* what each has counted (Ledgers, Shares, Sums) and what it owns (Owned).  *)
(* The sums need induction over the threads, which the first lemmas give.   *)
(*                                                                          *)
(* Its shaper, for any slots and clock: no slot is given more than it is to *)
(* reach nor long before its time (ShaperInv), and no more packets leave    *)
(* than the slots so far are worth (RateInv).                               *)
(****************************************************************************)
EXTENDS MCTools, Sequences, Functions, FiniteSetTheorems, WellFoundedInduction, NaturalsInduction, TLAPS

-----------------------------------------------------------------------------
(* corerw_benchmark *)

\* The exchanges of a run.
Exchanges == SAMPLES * ITERATIONS

\* An even number of exchanges, without which the next run begins wrongly.
Even == \E k \in Nat : Exchanges = 2 * k

TurnTypes ==
  /\ flag \in BOOLEAN
  /\ ping \in {PING, PONG} /\ pong \in {PING, PONG}
  /\ pc \in [Threads -> {"wait", "load", "store", "done"}]
  /\ v \in [Threads -> {PING, PONG}]
  /\ i \in [Threads -> Nat]

\* Each local is a function of the word its thread writes.
Locals == v["ping"] = 1 - ping /\ v["pong"] = pong

\* Each thread is where its count puts it.
TurnCounts ==
  /\ ~flag => \A t \in Threads : pc[t] = "wait"
  /\ \A t \in Threads : pc[t] = "wait" => i[t] = 0
  /\ \A t \in Threads : pc[t] \in {"load", "store"} => i[t] < Exchanges
  /\ \A t \in Threads : pc[t] = "done" => i[t] = Exchanges

\* The words tell the counts.
Words ==
  /\ ping = pong => i["pong"] = i["ping"]
  /\ ping # pong => i["pong"] = i["ping"] + 1
  /\ ping = i["ping"] % 2

\* The loop that ended its spin still has the word it waited for.
Turn ==
  /\ pc["ping"] = "store" => ping # pong
  /\ pc["pong"] = "store" => ping = pong

IInv == TurnTypes /\ Locals /\ TurnCounts /\ Words /\ Turn

\* Both threads count the same exchanges: the product of the second does not
\* wrap (corerw_benchmark.cpp: the bounds of the two loops).
LEMMA TotalIsT == Exchanges \in Nat \ {0} /\ \A t \in Threads : Total(t) = Exchanges
<1>1. \A a, b \in Nat \ {0} : a * b \in Nat \ {0} /\ a * b = b * a
  OBVIOUS
<1>2. Exchanges \in Nat \ {0} /\ ITERATIONS * SAMPLES = Exchanges
  BY <1>1, ReadWriteAssumption DEF Exchanges
<1>3. \A a, w \in Nat : a < w => a % w = a
  OBVIOUS
<1>4. (ITERATIONS * SAMPLES) % Word = Exchanges
  BY <1>2, <1>3, ReadWriteAssumption
<1>5. QED
  BY <1>2, <1>4 DEF Total, Exchanges

LEMMA InitInv == Init => IInv
<1> SUFFICES ASSUME Init PROVE IInv
  OBVIOUS
<1> USE DEF Init, Threads, PING, PONG
<1>1. TurnTypes
  BY DEF TurnTypes
<1>2. Locals
  BY DEF Locals
<1>3. TurnCounts
  BY DEF TurnCounts
<1>4. Words
  <2>1. i["ping"] = 0 /\ i["pong"] = 0 /\ ping = 0 /\ pong = 0
    OBVIOUS
  <2>2. QED
    BY <2>1 DEF Words
<1>5. Turn
  BY DEF Turn
<1>6. QED
  BY <1>1, <1>2, <1>3, <1>4, <1>5 DEF IInv

LEMMA StepInv == ASSUME Even PROVE IInv /\ [Next]_vars => IInv'
<1> SUFFICES ASSUME IInv, [Next]_vars PROVE IInv'
  OBVIOUS
<1> USE TotalIsT DEF IInv, TurnTypes, Locals, TurnCounts, Words, Turn, Threads, PING, PONG
<1>1. CASE Set
  BY <1>1 DEF Set
<1>2. ASSUME NEW t \in Threads, Begin(t) PROVE IInv'
  BY <1>2 DEF Begin
<1>3. ASSUME NEW t \in Threads, Load(t) PROVE IInv'
  BY <1>3 DEF Load
<1>4. CASE StorePing
  <2> USE <1>4 DEF StorePing, Advance
  <2>1. TurnTypes' /\ Locals'
    <3>1. v' = [v EXCEPT !["ping"] = 1 - @] /\ ping' = v["ping"] /\ pong' = pong
      OBVIOUS
    <3>2. v' \in [Threads -> {PING, PONG}] /\ i' \in [Threads -> Nat]
      <4>1. 1 - v["ping"] \in {PING, PONG} /\ i["ping"] + 1 \in Nat
        OBVIOUS
      <4>2. i' = [i EXCEPT !["ping"] = i["ping"] + 1]
        OBVIOUS
      <4>3. v' = [v EXCEPT !["ping"] = 1 - v["ping"]]
        OBVIOUS
      <4>4. v \in [Threads -> {PING, PONG}] /\ i \in [Threads -> Nat]
        OBVIOUS
      <4> HIDE TotalIsT, <1>4 DEF IInv, TurnTypes, Locals, TurnCounts, Words, Turn, PING, PONG
      <4>5. QED
        BY <4>1, <4>2, <4>3, <4>4
    <3>3. pc' \in [Threads -> {"wait", "load", "store", "done"}] /\ flag' \in BOOLEAN
      OBVIOUS
    <3>4. TurnTypes'
      BY <3>1, <3>2, <3>3
    <3>5. v'["ping"] = 1 - ping' /\ v'["pong"] = pong'
      BY <3>1
    <3>6. QED
      BY <3>4, <3>5
  <2>2. TurnCounts'
    <3>1. flag' = flag /\ flag
      OBVIOUS
    <3>2. pc'["pong"] = pc["pong"] /\ i'["pong"] = i["pong"]
      OBVIOUS
    <3>3. /\ i'["ping"] = i["ping"] + 1
          /\ pc'["ping"] = IF i["ping"] + 1 < Exchanges THEN "load" ELSE "done"
      OBVIOUS
    <3>4. QED
      BY <3>1, <3>2, <3>3
  <2>3. ping' # ping /\ ping' = pong' /\ i'["pong"] = i["pong"] /\ i'["ping"] = i["ping"] + 1
    OBVIOUS
  <2>4. Words'
    BY <2>3
  <2>5. Turn'
    BY <2>3
  <2>6. QED
    BY <2>1, <2>2, <2>4, <2>5
<1>5. CASE StorePong
  BY <1>5 DEF StorePong, Advance
<1>6. CASE Join
  <2>1. i["ping"] = Exchanges /\ i["pong"] = Exchanges
    BY <1>6 DEF Join
  <2>2. ping = PING /\ pong = PING
    <3>1. PICK k \in Nat : Exchanges = 2 * k
      BY DEF Even
    <3>2. i["ping"] % 2 = 0
      BY <2>1, <3>1
    <3>3. QED
      BY <2>1, <3>2
  <2>3. /\ flag' = FALSE /\ ping' = 0 /\ pong' = 0
        /\ pc' = [t \in Threads |-> "wait"] /\ i' = [t \in Threads |-> 0]
        /\ v' = [t \in Threads |-> IF t = "ping" THEN 1 ELSE 0]
    BY <1>6, <2>2 DEF Join, NewThreads
  <2>4. TurnTypes'
    BY <2>3
  <2>5. Locals'
    BY <2>3
  <2>6. TurnCounts' /\ Turn'
    BY <2>3
  <2>7. i'["ping"] = 0 /\ i'["pong"] = 0
    BY <2>3
  <2>8. Words'
    BY <2>3, <2>7
  <2>9. QED
    BY <2>4, <2>5, <2>6, <2>8
<1>7. CASE UNCHANGED vars
  BY <1>7 DEF vars
<1>8. QED
  BY <1>1, <1>2, <1>3, <1>4, <1>5, <1>6, <1>7 DEF Next, Step, Finished

\* Every step of the two threads is a hand-over whose turn it is, or none.
LEMMA StepTurns == IInv /\ IInv' /\ [Next]_vars => [Turns!Next]_(Turns!vars)
<1> SUFFICES ASSUME IInv, [Next]_vars PROVE [Turns!Next]_(Turns!vars)
  OBVIOUS
<1> USE TotalIsT
    DEF IInv, TurnTypes, Locals, TurnCounts, Words, Turn, Threads, PING, PONG, Turns!vars
<1>1. CASE Set
  BY <1>1 DEF Set
<1>2. ASSUME NEW t \in Threads, Step(t) PROVE UNCHANGED Turns!vars
  BY <1>2 DEF Step, Begin, Load
<1>3. CASE StorePing
  BY <1>3 DEF StorePing, Advance, Turns!Next, Turns!Second
<1>4. CASE StorePong
  BY <1>4 DEF StorePong, Advance, Exchanges, Turns!Next, Turns!First
<1>5. CASE Join
  BY <1>5 DEF Join, NewThreads, Exchanges, Turns!Next, Turns!Restart
<1>6. CASE UNCHANGED vars
  BY <1>6 DEF vars
<1>7. QED
  BY <1>1, <1>2, <1>3, <1>4, <1>5, <1>6 DEF Next, Finished

\* The invariant holds throughout.
LEMMA Inductive == ASSUME Even PROVE PSpec => []IInv
<1>1. PInit => IInv
  BY InitInv DEF PInit
<1>2. IInv /\ [PNext]_<<which, vars, casVars, shaperVars, loadVars>> => IInv'
  BY StepInv DEF PNext
<1>3. QED
  BY <1>1, <1>2, PTL DEF PSpec

\* Every run() of corerw_benchmark begins with both words PING, as the
\* comment above its loops wants, although only the first follows init().
THEOREM RunsStartAtPing == ASSUME Even PROVE PSpec => []StartsAtPing
<1>1. IInv => StartsAtPing
  BY DEF IInv, TurnTypes, TurnCounts, Words, StartsAtPing, Threads, PING, PONG
<1>2. QED
  BY <1>1, Inductive, PTL

\* The threads of corerw_benchmark hand over strictly in turn, pong first, in
\* every run: what is measured is ITERATIONS round trips a sample.
THEOREM ThreadsTakeTurns == ASSUME Even PROVE PSpec => TakesTurns
<1>1. PInit => Turns!Init
  BY DEF PInit, Init, Turns!Init, Threads
<1>2. IInv /\ IInv' /\ [PNext]_<<which, vars, casVars, shaperVars, loadVars>> => [Turns!Next]_(Turns!vars)
  BY StepTurns DEF PNext
<1>3. QED
  BY <1>1, <1>2, Inductive, PTL DEF PSpec, TakesTurns, Turns!Spec

-----------------------------------------------------------------------------
(* core_benchmark *)

CasTypes ==
  /\ event \in BOOLEAN
  /\ token \in {C!PING, C!PONG}
  /\ at \in [C!Threads -> {"wait", "load", "store", "done"}]
  /\ monitor \in SUBSET C!Threads
  /\ swaps \in [C!Threads -> Nat]

\* Each thread is where its count puts it.
CasCounts ==
  /\ ~event => \A t \in C!Threads : at[t] = "wait"
  /\ \A t \in C!Threads : at[t] = "wait" => swaps[t] = 0
  /\ \A t \in C!Threads : at[t] \in {"load", "store"} => swaps[t] < Exchanges
  /\ \A t \in C!Threads : at[t] = "done" => swaps[t] = Exchanges

\* The word tells the counts.
CasWord ==
  /\ token = C!PING => swaps["ping"] = swaps["pong"]
  /\ token = C!PONG => swaps["ping"] = swaps["pong"] + 1

\* Only arm64 stores in a step of its own, and the monitor guards the word.
CasExclusive ==
  \A t \in C!Threads : at[t] = "store" => ctype = "arm64" /\ (t \in monitor => token = C!Compare(t))

CasInv == CasTypes /\ CasCounts /\ CasWord /\ CasExclusive

LEMMA CasBegins == C!Init => CasInv
<1> SUFFICES ASSUME C!Init PROVE CasInv
  OBVIOUS
<1> USE DEF C!Init, C!NewThreads, C!Threads, C!PING, C!PONG
<1>1. CasTypes
  BY DEF CasTypes
<1>2. CasCounts
  BY DEF CasCounts
<1>3. CasWord
  BY DEF CasWord
<1>4. CasExclusive
  BY DEF CasExclusive
<1>5. QED
  BY <1>1, <1>2, <1>3, <1>4 DEF CasInv

\* A thread that swaps has the turn: it is in its loop, and the word is the one
\* it compares with.
HasTurn(t) == at[t] \in {"load", "store"} /\ token = C!Compare(t) /\ C!Exchange(t)

LEMMA StoreHasTurn ==
  ASSUME NEW t \in C!Threads, CasInv, C!CompareAndSwap(t) \/ C!StoreExclusive(t)
  PROVE  HasTurn(t)
BY DEF CasInv, CasExclusive, C!CompareAndSwap, C!StoreExclusive, HasTurn

\* A swap keeps the invariant: it passes the turn on and counts itself.
LEMMA SwapInv ==
  ASSUME NEW t \in C!Threads, CasInv, C!CompareAndSwap(t) \/ C!StoreExclusive(t)
  PROVE  CasInv'
<1>1. HasTurn(t)
  BY StoreHasTurn
<1>2. CasTypes
  BY DEF CasInv
<1>3. swaps[t] \in Nat /\ swaps[t] < Exchanges
  BY <1>1, <1>2 DEF CasInv, CasCounts, HasTurn, CasTypes
<1>4. /\ token' = C!Swap(t) /\ event' = event /\ ctype' = ctype
      /\ swaps' = [swaps EXCEPT ![t] = swaps[t] + 1]
      /\ at' = [at EXCEPT ![t] = IF swaps[t] + 1 = Exchanges THEN "done" ELSE "load"]
  BY <1>1 DEF HasTurn, C!Exchange, Exchanges
<1>5. CasTypes'
  <2>1. monitor' \in SUBSET C!Threads
    BY <1>2 DEF CasTypes, C!CompareAndSwap, C!StoreExclusive
  <2>2. swaps' \in [C!Threads -> Nat] /\ at' \in [C!Threads -> {"wait", "load", "store", "done"}]
    BY <1>2, <1>3, <1>4 DEF CasTypes
  <2>3. QED
    BY <1>2, <1>4, <2>1, <2>2 DEF CasTypes, C!Swap
<1>6. CasCounts'
  <2>1. event
    BY <1>1 DEF CasInv, CasCounts, HasTurn
  <2>2. swaps[t] + 1 < Exchanges \/ swaps[t] + 1 = Exchanges
    BY <1>3, TotalIsT
  <2>3. swaps'[t] = swaps[t] + 1 /\ at'[t] = (IF swaps[t] + 1 = Exchanges THEN "done" ELSE "load")
    BY <1>2, <1>4 DEF CasTypes
  <2>4. \A u \in C!Threads : u # t => swaps'[u] = swaps[u] /\ at'[u] = at[u]
    BY <1>2, <1>4 DEF CasTypes
  <2>5. QED
    BY <1>4, <2>1, <2>2, <2>3, <2>4 DEF CasInv, CasCounts
<1>7. CasWord'
  BY <1>1, <1>2, <1>4 DEF CasInv, CasWord, CasTypes, HasTurn, C!Compare, C!Swap, C!Threads, C!PING, C!PONG
<1>8. CasExclusive'
  <2>1. CASE C!CompareAndSwap(t)
    BY <1>2, <1>4, <2>1 DEF CasInv, CasTypes, CasExclusive, C!CompareAndSwap
  <2>2. CASE C!StoreExclusive(t)
    BY <1>2, <1>4, <2>2 DEF CasInv, CasTypes, CasExclusive, C!StoreExclusive
  <2>3. QED
    BY <2>1, <2>2
<1>9. QED
  BY <1>5, <1>6, <1>7, <1>8 DEF CasInv

LEMMA CasKeeps == CasInv /\ [C!Next]_(C!vars) => CasInv'
<1> SUFFICES ASSUME CasInv, [C!Next]_(C!vars) PROVE CasInv'
  OBVIOUS
<1>1. CASE C!Set
  BY <1>1 DEF C!Set, CasInv, CasTypes, CasCounts, CasWord, CasExclusive
<1>2. ASSUME NEW t \in C!Threads, C!CompareAndSwap(t) \/ C!StoreExclusive(t) PROVE CasInv'
  BY <1>2, SwapInv
<1>3. ASSUME NEW t \in C!Threads, C!Begin(t) PROVE CasInv'
  BY <1>3, TotalIsT DEF C!Begin, CasInv, CasTypes, CasCounts, CasWord, CasExclusive
<1>4. ASSUME NEW t \in C!Threads, C!LoadExclusive(t) PROVE CasInv'
  BY <1>4 DEF C!LoadExclusive, CasInv, CasTypes, CasCounts, CasWord, CasExclusive
<1>5. ASSUME NEW t \in C!Threads, C!StoreFails(t) PROVE CasInv'
  BY <1>5 DEF C!StoreFails, CasInv, CasTypes, CasCounts, CasWord, CasExclusive
<1>6. CASE C!Join
  <2>1. swaps["ping"] = Exchanges /\ swaps["pong"] = Exchanges
    BY <1>6 DEF C!Join, CasInv, CasCounts, C!Threads
  <2>2. token = C!PING
    BY <2>1, TotalIsT DEF CasInv, CasTypes, CasWord
  <2>3. /\ event' = FALSE /\ token' = C!PING /\ monitor' = {}
        /\ at' = [t \in C!Threads |-> "wait"] /\ swaps' = [t \in C!Threads |-> 0]
    BY <1>6, <2>2 DEF C!Join, C!NewThreads
  <2>4. CasTypes' /\ CasCounts'
    BY <2>3 DEF CasTypes, CasCounts
  <2>5. CasWord' /\ CasExclusive'
    <3>1. swaps'["ping"] = 0 /\ swaps'["pong"] = 0
      BY <2>3 DEF C!Threads
    <3>2. QED
      BY <2>3, <3>1 DEF CasWord, CasExclusive, C!PING, C!PONG
  <2>6. QED
    BY <2>4, <2>5 DEF CasInv
<1>7. CASE UNCHANGED C!vars
  BY <1>7 DEF C!vars, CasInv, CasTypes, CasCounts, CasWord, CasExclusive
<1>8. QED
  BY <1>1, <1>2, <1>3, <1>4, <1>5, <1>6, <1>7 DEF C!Next, C!Step, C!Finished

\* Every step of the two threads is a swap whose turn it is, or none.
LEMMA CasTurns == CasInv /\ [C!Next]_(C!vars) => [C!Turns!Next]_(C!Turns!vars)
<1> SUFFICES ASSUME CasInv, [C!Next]_(C!vars) PROVE [C!Turns!Next]_(C!Turns!vars)
  OBVIOUS
<1> USE DEF C!Turns!vars
<1>1. ASSUME NEW t \in C!Threads, C!CompareAndSwap(t) \/ C!StoreExclusive(t) PROVE C!Turns!Next
  <2>1. HasTurn(t)
    BY <1>1, StoreHasTurn
  <2>2. swaps[t] < Exchanges /\ swaps["ping"] \in Nat /\ swaps["pong"] \in Nat /\ swaps' = [swaps EXCEPT ![t] = swaps[t] + 1]
    BY <2>1 DEF CasInv, CasTypes, CasCounts, HasTurn, C!Exchange, C!Threads
  <2>3. CASE t = "ping"
    BY <2>1, <2>2, <2>3
    DEF CasInv, CasTypes, CasWord, HasTurn, C!Compare, C!Threads, Exchanges, C!Turns!Next, C!Turns!First
  <2>4. CASE t = "pong"
    BY <2>1, <2>2, <2>4
    DEF CasInv, CasTypes, CasWord, HasTurn, C!Compare, C!Threads, C!PING, C!PONG, C!Turns!Next, C!Turns!Second
  <2>5. QED
    BY <2>3, <2>4 DEF C!Threads
<1>2. ASSUME NEW t \in C!Threads, C!Begin(t) \/ C!LoadExclusive(t) \/ C!StoreFails(t)
      PROVE  UNCHANGED C!Turns!vars
  BY <1>2 DEF C!Begin, C!LoadExclusive, C!StoreFails
<1>3. CASE C!Set
  BY <1>3 DEF C!Set
<1>4. CASE C!Join
  BY <1>4 DEF C!Join, C!NewThreads, CasInv, CasCounts, C!Threads, Exchanges, C!Turns!Next, C!Turns!Restart
<1>5. CASE UNCHANGED C!vars
  BY <1>5 DEF C!vars
<1>6. QED
  BY <1>1, <1>2, <1>3, <1>4, <1>5 DEF C!Next, C!Step, C!Finished

LEMMA CasInductive == PSpec => []CasInv
<1>1. PInit => CasInv
  BY CasBegins DEF PInit
<1>2. CasInv /\ [PNext]_<<which, vars, casVars, shaperVars, loadVars>> => CasInv'
  BY CasKeeps DEF PNext, casVars, C!vars
<1>3. QED
  BY <1>1, <1>2, PTL DEF PSpec

\* The threads of core_benchmark swap strictly in turn, ping first, in every
\* run: what is measured is a round trip an exchange, whichever instruction
\* swaps, however often an exclusive store fails, and although only the first
\* run() follows init().
THEOREM ThreadsSwapInTurn == PSpec => SwapsTakeTurns
<1>1. PInit => C!Turns!Init
  BY DEF PInit, C!Init, C!NewThreads, C!Turns!Init, C!Threads
<1>2. CasInv /\ [PNext]_<<which, vars, casVars, shaperVars, loadVars>> => [C!Turns!Next]_(C!Turns!vars)
  BY CasTurns DEF PNext, casVars, C!vars
<1>3. QED
  BY <1>1, <1>2, CasInductive, PTL DEF PSpec, SwapsTakeTurns, C!SwapsTakeTurns, C!Turns!Spec


-----------------------------------------------------------------------------
(* Induction.  The provers cannot use its principles, which take an operator; *)
(* that a set of numbers has a least element says the same.                 *)

\* A set of numbers that is not empty has a least element.
LEMMA Least ==
  ASSUME NEW M, M \subseteq Nat, M # {}
  PROVE  \E n \in M : \A m \in M : ~(m < n)
<1>1. PICK n \in M : \A m \in M : ~ (<<m, n>> \in OpToRel(<, Nat))
  BY NatLessThanWellFounded, WFMin
<1> QED BY <1>1 DEF OpToRel

\* A set of numbers with zero and every successor has all.
LEMMA NatsByInduction ==
  ASSUME NEW G, 0 \in G, \A n \in Nat : n \in G => n + 1 \in G
  PROVE  Nat \subseteq G
<1> SUFFICES ASSUME NEW k \in Nat, k \notin G PROVE FALSE
  OBVIOUS
<1> DEFINE M == {n \in Nat : n \notin G}
<1>1. PICK n \in M : \A m \in M : ~(m < n)
  <2>1. M \subseteq Nat /\ M # {}
    OBVIOUS
  <2> HIDE DEF M
  <2> QED BY <2>1, Least
<1>2. n # 0 /\ n - 1 \in Nat
  OBVIOUS
<1>3. n - 1 \in G
  BY <1>1, <1>2
<1>4. (n - 1) + 1 \in G
  BY <1>2, <1>3
<1> QED BY <1>4

\* The finite subsets of a set are reached from the empty one, element by
\* element.
LEMMA SetsByInduction ==
  ASSUME NEW D, IsFiniteSet(D), NEW G, {} \in G,
         \A S \in SUBSET D : S # {} /\ (\A x \in S : S \ {x} \in G) => S \in G
  PROVE  SUBSET D \subseteq G
<1> DEFINE H == {n \in Nat : \A S \in SUBSET D : Cardinality(S) = n => S \in G}
<1>1. \A S \in SUBSET D : IsFiniteSet(S) /\ Cardinality(S) \in Nat /\ (Cardinality(S) = 0 <=> S = {})
  BY FS_Subset, FS_CardinalityType, FS_EmptySet
<1>2. 0 \in H
  BY <1>1, FS_EmptySet
<1>3. ASSUME NEW n \in Nat, n \in H
      PROVE  n + 1 \in H
  <2> SUFFICES ASSUME NEW S \in SUBSET D, Cardinality(S) = n + 1 PROVE S \in G
    OBVIOUS
  <2>1. S # {}
    BY <1>1
  <2>2. \A x \in S : Cardinality(S \ {x}) = n
    BY <1>1, FS_RemoveElement
  <2> QED BY <1>3, <2>1, <2>2
<1>4. Nat \subseteq H
  <2> HIDE DEF H
  <2> QED BY <1>2, <1>3, NatsByInduction
<1> QED BY <1>1, <1>4

-----------------------------------------------------------------------------
(* Sums *)

Picked(U) == CHOOSE x \in U : TRUE

\* The recursion of SumFunctionOnSet.
Adds(g, f, S) ==
  g = [U \in SUBSET S |-> IF U = {} THEN 0 ELSE f[Picked(U)] + g[U \ {Picked(U)}]]

\* The sum of the library is this function, applied.
LEMMA SumIsAdded ==
  ASSUME NEW f, NEW S
  PROVE  SumFunctionOnSet(f, S) = (CHOOSE g : Adds(g, f, S))[S]
BY DEF SumFunctionOnSet, FoldFunctionOnSet, MapThenFoldSet, Adds, Picked

\* The element that is picked is one.
LEMMA PickedIn == ASSUME NEW U, U # {} PROVE Picked(U) \in U
BY DEF Picked

\* There is such a function for a finite set, and one only.
LEMMA AddsExists ==
  ASSUME NEW f, NEW S, IsFiniteSet(S)
  PROVE  \E g : Adds(g, f, S)
<1> DEFINE D(n) == {U \in SUBSET S : Cardinality(U) <= n}
           Part(g, n) == g = [U \in D(n) |-> IF U = {} THEN 0 ELSE f[Picked(U)] + g[U \ {Picked(U)}]]
           G == {n \in Nat : \E g : Part(g, n)}
<1>1. \A U \in SUBSET S : IsFiniteSet(U) /\ Cardinality(U) \in Nat /\ (Cardinality(U) = 0 <=> U = {})
  BY FS_Subset, FS_CardinalityType, FS_EmptySet
<1>2. \A U \in SUBSET S : U # {} => Cardinality(U \ {Picked(U)}) = Cardinality(U) - 1
  BY <1>1, PickedIn, FS_RemoveElement
<1>3. 0 \in G
  <2> DEFINE g == [U \in D(0) |-> 0]
  <2>1. \A U \in D(0) : U = {}
    BY <1>1
  <2>2. g = [U \in D(0) |-> IF U = {} THEN 0 ELSE f[Picked(U)] + g[U \ {Picked(U)}]]
    BY <2>1
  <2> QED BY <2>2
<1>4. ASSUME NEW n \in Nat, n \in G
      PROVE  n + 1 \in G
  <2>1. PICK g : Part(g, n)
    BY <1>4
  <2> DEFINE h == [U \in D(n + 1) |-> IF Cardinality(U) <= n THEN g[U] ELSE f[Picked(U)] + g[U \ {Picked(U)}]]
             k == [U \in D(n + 1) |-> IF U = {} THEN 0 ELSE f[Picked(U)] + h[U \ {Picked(U)}]]
  <2>2. ASSUME NEW U \in D(n + 1)
        PROVE  h[U] = k[U]
    <3>1. CASE U = {}
      BY <1>1, <2>1, <3>1
    <3>2. CASE U # {}
      <4>1. U \ {Picked(U)} \in D(n) /\ U \ {Picked(U)} \in D(n + 1)
        BY <1>1, <1>2, <3>2
      <4>2. h[U \ {Picked(U)}] = g[U \ {Picked(U)}]
        BY <4>1
      <4>3. h[U] = f[Picked(U)] + g[U \ {Picked(U)}]
        BY <2>1, <3>2
      <4> QED BY <3>2, <4>2, <4>3
    <3> QED BY <3>1, <3>2
  <2>3. h = k
    BY <2>2
  <2>4. Part(h, n + 1)
    BY <2>3
  <2>5. \E q : Part(q, n + 1)
    <3> HIDE DEF Part, h
    <3> QED BY <2>4
  <2> HIDE DEF Part
  <2> QED BY <2>5
<1>5. Nat \subseteq G
  <2> HIDE DEF G
  <2> QED BY <1>3, <1>4, NatsByInduction
<1>6. PICK g : Part(g, Cardinality(S))
  BY <1>1, <1>5
<1>7. D(Cardinality(S)) = SUBSET S
  BY FS_Subset
<1> QED BY <1>6, <1>7 DEF Adds

\* Two of them agree wherever both are defined.
LEMMA AddsUnique ==
  ASSUME NEW f, NEW S, IsFiniteSet(S), NEW R \in SUBSET S, NEW g, NEW h, Adds(g, f, S), Adds(h, f, R)
  PROVE  g[R] = h[R]
<1> DEFINE G == {U \in SUBSET R : g[U] = h[U]}
<1>1. IsFiniteSet(R)
  BY FS_Subset
<1>2. {} \in G
  BY DEF Adds
<1>3. ASSUME NEW U \in SUBSET R, U # {}, \A x \in U : U \ {x} \in G
      PROVE  U \in G
  <2>1. Picked(U) \in U /\ U \ {Picked(U)} \in SUBSET R /\ U \in SUBSET S
    BY <1>3, PickedIn
  <2>2. g[U \ {Picked(U)}] = h[U \ {Picked(U)}]
    BY <1>3, <2>1
  <2>3. g[U] = f[Picked(U)] + g[U \ {Picked(U)}] /\ h[U] = f[Picked(U)] + h[U \ {Picked(U)}]
    BY <1>3, <2>1 DEF Adds
  <2> QED BY <2>2, <2>3
<1>4. SUBSET R \subseteq G
  <2> HIDE DEF G
  <2> QED BY <1>1, <1>2, <1>3, SetsByInduction
<1> QED BY <1>4

\* The sum over no element, and over one more than the rest.
LEMMA SumEmpty ==
  ASSUME NEW f
  PROVE  SumFunctionOnSet(f, {}) = 0
<1> DEFINE g == CHOOSE q : Adds(q, f, {})
<1>1. Adds(g, f, {})
  BY AddsExists, FS_EmptySet
<1>2. SumFunctionOnSet(f, {}) = g[{}]
  BY SumIsAdded
<1> HIDE DEF g
<1> QED BY <1>1, <1>2 DEF Adds

\* The sum over a set is that over the rest and the element picked from it.
LEMMA SumPicked ==
  ASSUME NEW f, NEW S, IsFiniteSet(S), S # {}
  PROVE  SumFunctionOnSet(f, S) = f[Picked(S)] + SumFunctionOnSet(f, S \ {Picked(S)})
<1> DEFINE R == S \ {Picked(S)}
           g == CHOOSE q : Adds(q, f, S)
           h == CHOOSE q : Adds(q, f, R)
<1>1. IsFiniteSet(R) /\ R \in SUBSET S
  BY FS_Subset
<1>2. Adds(g, f, S) /\ Adds(h, f, R)
  BY <1>1, AddsExists
<1>3. SumFunctionOnSet(f, S) = g[S] /\ SumFunctionOnSet(f, R) = h[R]
  BY SumIsAdded
<1> HIDE DEF g, h, R
<1>4. g[R] = h[R]
  BY <1>1, <1>2, AddsUnique
<1>5. g[S] = f[Picked(S)] + g[S \ {Picked(S)}]
  BY <1>2 DEF Adds
<1> QED BY <1>3, <1>4, <1>5 DEF R

\* Any element may be the one that is added last, when all are numbers.
LEMMA SumType ==
  ASSUME NEW S, IsFiniteSet(S), NEW f, \A x \in S : f[x] \in Int
  PROVE  SumFunctionOnSet(f, S) \in Int
<1> DEFINE G == {U \in SUBSET S : SumFunctionOnSet(f, U) \in Int}
<1>1. {} \in G
  BY SumEmpty
<1>2. ASSUME NEW U \in SUBSET S, U # {}, \A x \in U : U \ {x} \in G
      PROVE  U \in G
  <2>1. IsFiniteSet(U) /\ Picked(U) \in U
    BY <1>2, FS_Subset, PickedIn
  <2>2. SumFunctionOnSet(f, U) = f[Picked(U)] + SumFunctionOnSet(f, U \ {Picked(U)})
    BY <1>2, <2>1, SumPicked
  <2> QED BY <1>2, <2>1, <2>2
<1>3. SUBSET S \subseteq G
  <2> HIDE DEF G
  <2> QED BY <1>1, <1>2, SetsByInduction
<1> QED BY <1>3

\* The sum over a set is that over the rest and any one of its elements.
LEMMA SumOneMore ==
  ASSUME NEW D, IsFiniteSet(D), NEW f, \A x \in D : f[x] \in Int
  PROVE  \A S \in SUBSET D : \A x \in S :
            SumFunctionOnSet(f, S) = f[x] + SumFunctionOnSet(f, S \ {x})
<1> DEFINE Any(S) == \A x \in S : SumFunctionOnSet(f, S) = f[x] + SumFunctionOnSet(f, S \ {x})
           G == {S \in SUBSET D : Any(S)}
<1>1. {} \in G
  OBVIOUS
<1>2. ASSUME NEW S \in SUBSET D, S # {}, \A x \in S : S \ {x} \in G
      PROVE  S \in G
  <2> SUFFICES ASSUME NEW x \in S
               PROVE  SumFunctionOnSet(f, S) = f[x] + SumFunctionOnSet(f, S \ {x})
    OBVIOUS
  <2> DEFINE c == Picked(S)
  <2>1. IsFiniteSet(S) /\ c \in S
    BY <1>2, FS_Subset, PickedIn
  <2>2. SumFunctionOnSet(f, S) = f[c] + SumFunctionOnSet(f, S \ {c})
    BY <1>2, <2>1, SumPicked
  <2> HIDE DEF c
  <2>3. CASE x = c
    BY <2>2, <2>3
  <2>4. CASE x # c
    <3>1. SumFunctionOnSet(f, S \ {c}) = f[x] + SumFunctionOnSet(f, (S \ {c}) \ {x})
      BY <1>2, <2>1, <2>4
    <3>2. SumFunctionOnSet(f, S \ {x}) = f[c] + SumFunctionOnSet(f, (S \ {x}) \ {c})
      BY <1>2, <2>1, <2>4
    <3>3. (S \ {c}) \ {x} = (S \ {x}) \ {c}
      OBVIOUS
    <3> DEFINE rest == SumFunctionOnSet(f, (S \ {x}) \ {c})
    <3>4. rest \in Int /\ f[x] \in Int /\ f[c] \in Int
      <4>1. IsFiniteSet((S \ {x}) \ {c})
        BY <2>1, FS_Subset
      <4> QED BY <2>1, <4>1, SumType
    <3>5. SumFunctionOnSet(f, S \ {c}) = f[x] + rest
      BY <3>1, <3>3
    <3>6. SumFunctionOnSet(f, S \ {x}) = f[c] + rest
      BY <3>2
    <3> HIDE DEF rest
    <3> QED BY <2>2, <3>4, <3>5, <3>6
  <2> QED BY <2>3, <2>4
<1>3. SUBSET D \subseteq G
  <2> HIDE DEF G
  <2> QED BY <1>1, <1>2, SetsByInduction
<1> QED BY <1>3

\* The sum looks at nothing but the values it adds.
LEMMA SumSame ==
  ASSUME NEW S, IsFiniteSet(S), NEW f, NEW g, \A x \in S : f[x] = g[x] /\ f[x] \in Int
  PROVE  SumFunctionOnSet(f, S) = SumFunctionOnSet(g, S)
<1> DEFINE G == {U \in SUBSET S : SumFunctionOnSet(f, U) = SumFunctionOnSet(g, U)}
<1>1. {} \in G
  BY SumEmpty
<1>2. ASSUME NEW U \in SUBSET S, U # {}, \A x \in U : U \ {x} \in G
      PROVE  U \in G
  <2>1. IsFiniteSet(U) /\ Picked(U) \in U
    BY <1>2, FS_Subset, PickedIn
  <2>2. SumFunctionOnSet(f, U) = f[Picked(U)] + SumFunctionOnSet(f, U \ {Picked(U)})
    BY <1>2, <2>1, SumPicked
  <2>3. SumFunctionOnSet(g, U) = g[Picked(U)] + SumFunctionOnSet(g, U \ {Picked(U)})
    BY <1>2, <2>1, SumPicked
  <2> QED BY <1>2, <2>1, <2>2, <2>3
<1>3. SUBSET S \subseteq G
  <2> HIDE DEF G
  <2> QED BY <1>1, <1>2, SetsByInduction
<1> QED BY <1>3

\* One value changes.
LEMMA SumChanged ==
  ASSUME NEW S, IsFiniteSet(S), NEW f, NEW g, NEW x \in S,
         \A y \in S : f[y] \in Int /\ g[y] \in Int,
         \A y \in S \ {x} : g[y] = f[y]
  PROVE  SumFunctionOnSet(g, S) = (SumFunctionOnSet(f, S) - f[x]) + g[x]
<1>1. IsFiniteSet(S \ {x})
  BY FS_Subset
<1>2. SumFunctionOnSet(f, S) = f[x] + SumFunctionOnSet(f, S \ {x})
  BY SumOneMore
<1>3. SumFunctionOnSet(g, S) = g[x] + SumFunctionOnSet(g, S \ {x})
  BY SumOneMore
<1>4. SumFunctionOnSet(f, S \ {x}) = SumFunctionOnSet(g, S \ {x})
  BY <1>1, SumSame
<1>5. SumFunctionOnSet(f, S \ {x}) \in Int
  BY <1>1, SumType
<1> QED BY <1>2, <1>3, <1>4, <1>5

-----------------------------------------------------------------------------
(* Words and division *)

\* What a division gives.
LEMMA ModParts ==
  ASSUME NEW a \in Int, NEW W \in Nat \ {0}
  PROVE  a \div W \in Int /\ a % W \in 0 .. W - 1 /\ a = W * (a \div W) + (a % W)
OBVIOUS

\* Nothing else is a quotient and a remainder.
LEMMA ModUnique ==
  ASSUME NEW a \in Int, NEW W \in Nat \ {0}, NEW q \in Int, NEW rem \in 0 .. W - 1, a = W * q + rem
  PROVE  a % W = rem /\ a \div W = q
BY Z3

\* Multiples of the word do not matter.
LEMMA ModMultiple ==
  ASSUME NEW a \in Int, NEW k \in Int, NEW W \in Nat \ {0}
  PROVE  (a + W * k) % W = a % W
<1> DEFINE q == a \div W
           rem == a % W
           z == a + W * k
<1>1. q \in Int /\ rem \in 0 .. W - 1 /\ a = W * q + rem
  BY ModParts
<1> HIDE DEF q, rem
<1>2. z \in Int /\ q + k \in Int /\ z = W * (q + k) + rem
  BY <1>1, Z3
<1> HIDE DEF z
<1>3. z % W = rem
  BY <1>1, <1>2, ModUnique
<1> QED BY <1>3 DEF z, rem

\* Numbers that are the same in a word stay so when the same is added.
LEMMA ModAdd ==
  ASSUME NEW a \in Int, NEW b \in Int, NEW c \in Int, NEW W \in Nat \ {0}, a % W = b % W
  PROVE  (a + c) % W = (b + c) % W
<1> DEFINE k == (a \div W) - (b \div W)
<1>1. k \in Int /\ a = b + W * k
  <2>1. a = W * (a \div W) + (a % W) /\ b = W * (b \div W) + (b % W) /\ a \div W \in Int /\ b \div W \in Int
    BY ModParts
  <2> DEFINE q == a \div W
             p == b \div W
             rem == a % W
             rem2 == b % W
  <2>2. rem = rem2 /\ rem \in Int /\ a = W * q + rem /\ b = W * p + rem2 /\ p \in Int /\ q \in Int
    BY <2>1, ModParts
  <2> HIDE DEF p, q, rem, rem2
  <2>3. q - p \in Int /\ a = b + W * (q - p)
    BY <2>2, Z3
  <2> QED BY <2>3 DEF p, q
<1> HIDE DEF k
<1>2. (b + c) + W * k = a + c
  BY <1>1, Z3
<1>3. ((b + c) + W * k) % W = (b + c) % W
  <2> DEFINE d == b + c
  <2>1. d \in Int
    OBVIOUS
  <2> HIDE DEF d
  <2>2. (d + W * k) % W = d % W
    BY <1>1, <2>1, ModMultiple
  <2> QED BY <2>2 DEF d
<1> QED BY <1>2, <1>3

\* A remainder is its own.
LEMMA ModAgain ==
  ASSUME NEW a \in Int, NEW W \in Nat \ {0}
  PROVE  (a % W) % W = a % W
OBVIOUS

-----------------------------------------------------------------------------
(* Sums over a row of numbers *)

\* The same for one element and a name of the rest.
LEMMA SumWithout ==
  ASSUME NEW D, IsFiniteSet(D), NEW f, \A x \in D : f[x] \in Int, NEW x \in D, NEW R, R = D \ {x}
  PROVE  SumFunctionOnSet(f, D) = f[x] + SumFunctionOnSet(f, R)
BY SumOneMore

\* The sum of the differences of a row of numbers.
LEMMA Telescope ==
  ASSUME NEW n \in Nat, NEW q, \A j \in 0 .. n : q[j] \in Int,
         NEW f, \A j \in 1 .. n : f[j] = q[j] - q[j - 1]
  PROVE  SumFunctionOnSet(f, 1 .. n) = q[n] - q[0]
<1> DEFINE G == {k \in Nat : k <= n => SumFunctionOnSet(f, 1 .. k) = q[k] - q[0]}
<1>1. 0 \in G
  <2>1. 1 .. 0 = {}
    OBVIOUS
  <2>2. q[0] \in Int
    OBVIOUS
  <2>3. SumFunctionOnSet(f, 1 .. 0) = 0
    BY <2>1, SumEmpty
  <2>4. SumFunctionOnSet(f, 1 .. 0) = q[0] - q[0]
    BY <2>2, <2>3
  <2> QED BY <2>4
<1>2. ASSUME NEW k \in Nat, k \in G
      PROVE  k + 1 \in G
  <2> SUFFICES ASSUME k + 1 <= n
               PROVE  SumFunctionOnSet(f, 1 .. k + 1) = q[k + 1] - q[0]
    OBVIOUS
  <2> DEFINE D == 1 .. k + 1
  <2>1. IsFiniteSet(D) /\ k + 1 \in D
    BY FS_Interval
  <2>6. D \ {k + 1} = 1 .. k
    OBVIOUS
  <2>2. \A j \in D : f[j] \in Int
    OBVIOUS
  <2>3. SumFunctionOnSet(f, D) = f[k + 1] + SumFunctionOnSet(f, 1 .. k)
    <3> DEFINE m == k + 1
    <3>1. m \in D /\ D \ {m} = 1 .. k
      BY <2>1, <2>6
    <3>2. IsFiniteSet(D) /\ \A j \in D : f[j] \in Int
      BY <2>1, <2>2
    <3> HIDE DEF D, m
    <3>3. SumFunctionOnSet(f, D) = f[m] + SumFunctionOnSet(f, 1 .. k)
      BY ONLY <3>1, <3>2, SumWithout
    <3> QED BY <3>3 DEF m
  <2>4. SumFunctionOnSet(f, 1 .. k) = q[k] - q[0]
    BY <1>2
  <2>5. f[k + 1] = q[k + 1] - q[k] /\ q[k + 1] \in Int /\ q[k] \in Int /\ q[0] \in Int
    OBVIOUS
  <2> QED BY <2>3, <2>4, <2>5
<1>3. Nat \subseteq G
  <2> HIDE DEF G
  <2> QED BY <1>1, <1>2, NatsByInduction
<1> QED BY <1>3

\* The sum of the instance UdpLoad is that of the library.
LEMMA SameSum == ASSUME NEW f PROVE L!SumFunction(f) = SumFunctionOnSet(f, DOMAIN f)
BY DEF L!SumFunction, L!SumFunctionOnSet, L!FoldFunctionOnSet, L!MapThenFoldSet,
   SumFunctionOnSet, FoldFunctionOnSet, MapThenFoldSet

-----------------------------------------------------------------------------
(* UdpLoad: the shares of the threads *)

\* Two multiples of p in a row are divided by n to numbers p \div n apart, or one more.
LEMMA DivStep ==
  ASSUME NEW a \in Nat, NEW p \in Nat, NEW n \in Nat \ {0}
  PROVE  /\ (a + p) \div n \in Int /\ a \div n \in Int /\ p \div n \in Int
         /\ \/ ((a + p) \div n) - (a \div n) = p \div n
            \/ ((a + p) \div n) - (a \div n) = (p \div n) + 1
<1> DEFINE x == a \div n  ra == a % n  k == p \div n  rp == p % n
<1>1. x \in Int /\ ra \in 0 .. n - 1 /\ a = n * x + ra
  BY ModParts
<1>2. k \in Int /\ rp \in 0 .. n - 1 /\ p = n * k + rp
  BY ModParts
<1> HIDE DEF x, ra, k, rp
<1> DEFINE z == a + p
<1>3. z \in Int
  OBVIOUS
<1>4. CASE ra + rp < n
  <2>1. ra + rp \in 0 .. n - 1 /\ x + k \in Int
    BY <1>1, <1>2, <1>4
  <2>2. z = n * (x + k) + (ra + rp)
    BY <1>1, <1>2, Z3
  <2> HIDE DEF z
  <2> DEFINE rs == ra + rp  xk == x + k
  <2>3. rs \in 0 .. n - 1 /\ xk \in Int /\ z = n * xk + rs
    BY <2>1, <2>2
  <2> HIDE DEF rs, xk
  <2>4. z \div n = xk
    BY <1>3, <2>3, ModUnique
  <2>5. (z \div n) - x = k /\ z \div n \in Int
    BY <1>1, <1>2, <2>4 DEF xk
  <2> QED BY <1>1, <1>2, <2>5 DEF x, k, z
<1>5. CASE ra + rp >= n
  <2>1. ra + rp - n \in 0 .. n - 1 /\ x + k + 1 \in Int
    BY <1>1, <1>2, <1>5
  <2>2. z = n * (x + k + 1) + (ra + rp - n)
    BY <1>1, <1>2, Z3
  <2> HIDE DEF z
  <2> DEFINE rs == ra + rp - n  xk == x + k + 1
  <2>3. rs \in 0 .. n - 1 /\ xk \in Int /\ z = n * xk + rs
    BY <2>1, <2>2
  <2> HIDE DEF rs, xk
  <2>4. z \div n = xk
    BY <1>3, <2>3, ModUnique
  <2>5. (z \div n) - x = k + 1 /\ z \div n \in Int
    BY <1>1, <1>2, <2>4 DEF xk
  <2> QED BY <1>1, <1>2, <2>5 DEF x, k, z
<1> QED BY <1>1, <1>2, <1>4, <1>5

\* What fits a word is not changed by it.
LEMMA SmallMod == ASSUME NEW W \in Nat \ {0}, NEW a \in 0 .. W - 1 PROVE a % W = a
OBVIOUS

\* Multiplication grows with the factor.
LEMMA Products ==
  ASSUME NEW n \in Nat, NEW p \in Nat, NEW j \in 0 .. n
  PROVE  j * p \in Nat /\ n * p \in Nat /\ j * p <= n * p
<1>1. j * p \in Nat /\ n * p \in Nat /\ (n - j) * p \in Nat
  BY Z3
<1>2. n * p = j * p + (n - j) * p
  BY Z3
<1> QED BY <1>1, <1>2

\* The i-th boundary between the shares.
Bound(j, n, p) == (j * p) \div n

\* The boundaries begin at none, end at all, and are evenly apart.
LEMMA Bounds ==
  ASSUME NEW n \in Nat \ {0}, NEW p \in Nat
  PROVE  /\ Bound(0, n, p) = 0 /\ Bound(n, n, p) = p
         /\ p \div n \in Int /\ (p >= n => p \div n >= 1)
         /\ \A j \in Nat : Bound(j, n, p) \in Int
         /\ \A j \in Nat \ {0} : \/ Bound(j, n, p) - Bound(j - 1, n, p) = p \div n
                                 \/ Bound(j, n, p) - Bound(j - 1, n, p) = (p \div n) + 1
<1>1. Bound(0, n, p) = 0
  <2>1. 0 * p = 0 /\ 0 = n * 0 + 0
    BY Z3
  <2>2. 0 \div n = 0
    BY <2>1, ModUnique
  <2> QED BY <2>1, <2>2 DEF Bound
<1>2. Bound(n, n, p) = p
  <2>1. n * p \in Int /\ n * p = n * p + 0
    BY Z3
  <2> DEFINE np == n * p
  <2>2. np \in Int /\ np = n * p + 0 /\ 0 \in 0 .. n - 1
    BY <2>1
  <2> HIDE DEF np
  <2>3. np \div n = p
    BY <2>2, ModUnique
  <2> QED BY <2>3 DEF np, Bound
<1>3. p \div n \in Int /\ (p >= n => p \div n >= 1)
  <2> DEFINE k == p \div n  rp == p % n
  <2>1. k \in Int /\ rp \in 0 .. n - 1 /\ p = n * k + rp
    BY ModParts
  <2> HIDE DEF k, rp
  <2>2. k \in Int /\ (p >= n => k >= 1)
    BY <2>1, Z3
  <2> QED BY <2>2 DEF k
<1>4. ASSUME NEW j \in Nat \ {0}
      PROVE  /\ Bound(j, n, p) \in Int
             /\ \/ Bound(j, n, p) - Bound(j - 1, n, p) = p \div n
                \/ Bound(j, n, p) - Bound(j - 1, n, p) = (p \div n) + 1
  <2> DEFINE a == (j - 1) * p
  <2>1. a \in Nat /\ j * p = a + p
    BY Z3
  <2> HIDE DEF a
  <2>2. /\ (a + p) \div n \in Int
        /\ \/ ((a + p) \div n) - (a \div n) = p \div n
           \/ ((a + p) \div n) - (a \div n) = (p \div n) + 1
    BY <2>1, DivStep
  <2>3. Bound(j, n, p) = (a + p) \div n /\ Bound(j - 1, n, p) = a \div n
    BY <2>1 DEF Bound, a
  <2> QED BY <2>2, <2>3
<1> QED BY <1>1, <1>2, <1>3, <1>4

\* A share is what lies between two boundaries when no product leaves the word.
LEMMA ShareIs ==
  ASSUME NEW n \in Nat \ {0}, NEW p \in Nat, LoadWord \in Nat \ {0}, n <= p, n * p < LoadWord, NEW j \in 1 .. n
  PROVE  /\ L!ShareOf(j, n, p) = Bound(j, n, p) - Bound(j - 1, n, p)
         /\ L!ShareOf(j, n, p) \in {p \div n, (p \div n) + 1}
<1> DEFINE a == j * p  b == (j - 1) * p  np == n * p  k == p \div n
           d == Bound(j, n, p) - Bound(j - 1, n, p)
<1>1. a \in Nat /\ b \in Nat /\ np \in Nat /\ a <= np /\ b <= np
  <2>1. j \in 0 .. n /\ j - 1 \in 0 .. n
    OBVIOUS
  <2>2. a \in Nat /\ np \in Nat /\ a <= np
    <3>1. \A l \in 0 .. n : l * p \in Nat /\ n * p \in Nat /\ l * p <= n * p
      BY Products
    <3> QED BY <2>1, <3>1
  <2> DEFINE m == j - 1
  <2>3. m \in 0 .. n
    BY <2>1
  <2> HIDE DEF m
  <2>4. m * p \in Nat /\ m * p <= np
    BY <2>3, Products
  <2> QED BY <2>2, <2>4 DEF m
<1>2. np < LoadWord
  OBVIOUS
<1>3. (a % LoadWord) = a /\ (b % LoadWord) = b
  <2> HIDE DEF a, b, np
  <2>1. a \in 0 .. LoadWord - 1 /\ b \in 0 .. LoadWord - 1
    BY <1>1, <1>2
  <2> QED BY <2>1, SmallMod
<1>4. d \in {k, k + 1} /\ k \in Int /\ k >= 1
  <2>1. j \in Nat \ {0}
    OBVIOUS
  <2>2. \A l \in Nat \ {0} : \/ Bound(l, n, p) - Bound(l - 1, n, p) = p \div n
                              \/ Bound(l, n, p) - Bound(l - 1, n, p) = (p \div n) + 1
    BY Bounds
  <2>3. k \in Int /\ (p >= n => k >= 1)
    BY Bounds
  <2> QED BY <2>1, <2>2, <2>3
<1>5. d < LoadWord
  <2> DEFINE rest == p % n
  <2>1. k \in Int /\ rest \in 0 .. n - 1 /\ p = n * k + rest
    <3>1. p \in Int
      OBVIOUS
    <3> QED BY ONLY <3>1, n \in Nat \ {0}, ModParts DEF k, rest
  <2>2. CASE n = 1
    <3>1. np = p /\ p = k
      <4> HIDE DEF k, rest
      <4>1. rest = 0 /\ np = p
        BY <2>1, <2>2, Z3
      <4>2. p = k
        BY <2>1, <2>2, <4>1, Z3
      <4> QED BY <4>1, <4>2
    <3>2. d = k
      <4>1. j = 1 /\ Bound(1, n, p) = p /\ Bound(0, n, p) = 0
        BY <2>2, Bounds
      <4>2. d = p - 0
        BY <4>1
      <4> QED BY <3>1, <4>2
    <3> QED BY <1>2, <3>1, <3>2
  <2>3. CASE n >= 2
    <3> HIDE DEF k, rest, d
    <3>1. np >= 2 * p
      BY <2>3, Z3
    <3>2. p >= 2 * k
      BY <1>4, <2>1, <2>3, Z3
    <3> HIDE DEF np
    <3>3. k + 1 <= np
      BY <1>1, <1>4, <3>1, <3>2
    <3> QED BY <1>1, <1>2, <1>4, <3>3
  <2> QED BY <2>2, <2>3
<1>6. L!ShareOf(j, n, p) = d % LoadWord
  BY <1>3 DEF L!ShareOf, Bound
<1>7. d \in 0 .. LoadWord - 1
  <2> HIDE DEF d, k
  <2> QED BY <1>4, <1>5
<1>8. d % LoadWord = d
  <2> HIDE DEF d
  <2> QED BY <1>7, SmallMod
<1> QED BY <1>4, <1>6, <1>8

\* The shares add up, and they differ by one at most.
LEMMA SharesSum ==
  ASSUME NEW n \in Nat \ {0}, NEW p \in Nat, LoadWord \in Nat \ {0}, n <= p, n * p < LoadWord,
         NEW share, DOMAIN share = 1 .. n, \A j \in 1 .. n : share[j] = L!ShareOf(j, n, p)
  PROVE  /\ L!SumFunction(share) = p
         /\ \A j, k \in 1 .. n : share[j] > 0 /\ share[j] <= share[k] + 1
<1>1. \A j \in 1 .. n : share[j] \in {p \div n, (p \div n) + 1}
  BY ShareIs
<1>2. p \div n \in Int /\ p \div n >= 1
  BY Bounds
<1> DEFINE q == [j \in 0 .. n |-> Bound(j, n, p)]
<1>3. \A j \in 0 .. n : q[j] \in Int
  BY Bounds
<1>4. \A j \in 1 .. n : share[j] = q[j] - q[j - 1]
  <2> SUFFICES ASSUME NEW j \in 1 .. n PROVE share[j] = q[j] - q[j - 1]
    OBVIOUS
  <2>1. share[j] = Bound(j, n, p) - Bound(j - 1, n, p)
    BY ShareIs
  <2>2. j \in 0 .. n /\ j - 1 \in 0 .. n
    OBVIOUS
  <2> QED BY <2>1, <2>2
<1>5. q[n] = p /\ q[0] = 0
  BY Bounds
<1> HIDE DEF q
<1>6. SumFunctionOnSet(share, 1 .. n) = q[n] - q[0]
  BY ONLY n \in Nat \ {0}, <1>3, <1>4, Telescope
<1>8. SumFunctionOnSet(share, 1 .. n) = p
  BY <1>5, <1>6
<1>7. L!SumFunction(share) = p
  BY <1>8, SameSum
<1> QED BY <1>1, <1>2, <1>7

-----------------------------------------------------------------------------
(* UdpLoad: the inductive invariant *)

\* The threads that the options ask for have been started, and no other.
AllStarted == \A n \in L!Threads : talker[n].at # "none" <=> n <= options.threads

TypeInv == L!TypeOK

\* Where main() stands, and what it has done for that.
Phases ==
    /\ main_pc = "start" =>
          /\ next \in 1 .. options.threads
          /\ \A n \in L!Threads : talker[n].at # "none" <=> n < next
    /\ main_pc \in {"ready", "join", "report"} => AllStarted
    /\ main_pc \in {"join", "report"} => go
    /\ main_pc = "join" =>
          /\ next \in 1 .. options.threads
          /\ \A n \in 1 .. next - 1 : talker[n].at = "done"
    /\ main_pc = "report" => \A n \in 1 .. options.threads : talker[n].at = "done"
    /\ main_pc \in {"start", "ready"} => ~go
    /\ go => AllStarted
    /\ ~go => \A n \in L!Threads : talker[n].at \in {"none", "wait"}

\* What a thread holds and has counted, as a function of where it stands.
Ledger(t) ==
    /\ t.at \in {"none", "wait"} => t.handed = 0 /\ t.total = 0
    /\ t.at # "send" => t.sent = 0
    /\ t.at \in {"none", "done"} => t.fd = NoFd /\ ~t.headers
    /\ options.mode # "bpfmm" => (t.total + t.sent) % LoadWord = t.handed % LoadWord
    /\ t.sent <= t.count
Ledgers == \A n \in L!Threads : Ledger(talker[n])

\* Every open descriptor is one thread's.
Owned == L!Living => \A d \in Descriptors : kernel[d].open => \E n \in L!Threads : talker[n].fd = d

\* Every thread has the share of its number.
Shares == \A n \in L!Threads : talker[n].at # "none" => talker[n].packets = L!packets_thread(n)

\* The totals of the threads that have added theirs.
Added == [n \in L!Threads |-> IF talker[n].at = "done" THEN talker[n].total ELSE 0]
Sums == packets_sent = L!SumFunction(Added) % LoadWord

LoadInv == TypeInv /\ Phases /\ Ledgers /\ Owned /\ Shares /\ Sums

-----------------------------------------------------------------------------
(* UdpLoad: initialising a talker *)

\* What the constants are.
LEMMA Sizes ==
  /\ NoFd \notin Descriptors
  /\ MaxThreads \in Nat \ {0} /\ MaxPackets \in Nat \ {0} /\ LoadWord \in Nat \ {0} /\ Batch \in Nat \ {0}
  /\ MaxDelays \in Nat \ {0} /\ MaxCalls \in Nat \ {0} /\ MaxGroup \in Nat \ {0}
  /\ L!Threads = 1 .. MaxThreads /\ IsFiniteSet(L!Threads)
BY ToolsAssumption, FS_Interval DEF L!LoadAssumption, L!Threads

\* A call that opens a descriptor and succeeds opens that one; one that fails
\* opens none.
OnlyOpens(k, o) ==
  /\ o.kernel \in L!Kernel
  /\ o.result = "ok" => o.fd \in Descriptors
  /\ \A d \in Descriptors : o.kernel[d].open => k[d].open \/ (o.result = "ok" /\ d = o.fd)

\* This is how OpenWith is, whatever the calls made on the descriptor.
LEMMA OpenWithOpens ==
  ASSUME NEW k \in L!Kernel, NEW steps, NEW o \in L!OpenWith(k, steps)
  PROVE  OnlyOpens(k, o)
<1> DEFINE free == {fd \in Descriptors : ~k[fd].open}
           after(fd, n) == L!Marked(L!Opened(k, fd), fd, L!MarksOf(steps, n))
<1>1. ASSUME NEW fd \in free, NEW n
      PROVE  /\ after(fd, n) \in L!Kernel
             /\ \A d \in Descriptors : d # fd => after(fd, n)[d] = k[d]
  <2> DEFINE marks == L!MarksOf(steps, n)
             ko == L!Opened(k, fd)
             km == L!Marked(ko, fd, marks)
  <2>1. ko \in L!Kernel /\ \A d \in Descriptors : d # fd => ko[d] = k[d]
    BY DEF L!Opened, L!Kernel
  <2> HIDE DEF marks, ko
  <2>2. km \in L!Kernel /\ \A d \in Descriptors : d # fd => km[d] = k[d]
    <3>1. km = [ko EXCEPT ![fd].marks = @ \cup (marks \cap {})]
      BY DEF L!Marked
    <3>2. ko[fd].marks \cup (marks \cap {}) = ko[fd].marks
      OBVIOUS
    <3> HIDE DEF km
    <3>3. km = [ko EXCEPT ![fd].marks = ko[fd].marks]
      BY <3>1, <3>2
    <3> QED BY <2>1, <3>3 DEF L!Kernel
  <2>3. after(fd, n) = km
    BY DEF ko, marks
  <2> HIDE DEF km, after
  <2> QED BY <2>2, <2>3
<1>2. \/ o = L!Outcome(k, NoFd, "errno")
      \/ \E fd \in free, n \in 0 .. Len(steps) - 1 :
            o = L!Outcome(L!CloseFd(after(fd, n), fd), NoFd, "errno")
      \/ \E fd \in free : o = L!Outcome(after(fd, Len(steps)), fd, "ok")
  BY DEF L!OpenWith
<1> HIDE DEF after
<1>3. CASE o = L!Outcome(k, NoFd, "errno")
  BY <1>3 DEF L!Outcome, OnlyOpens
<1>4. ASSUME NEW fd \in free, NEW n, o = L!Outcome(L!CloseFd(after(fd, n), fd), NoFd, "errno")
      PROVE  OnlyOpens(k, o)
  <2> DEFINE a == after(fd, n)
  <2>1. a \in L!Kernel /\ \A d \in Descriptors : d # fd => a[d] = k[d]
    BY <1>1
  <2> HIDE DEF a
  <2>2. fd # NoFd
    BY Sizes
  <2>3. L!CloseFd(a, fd) = [a EXCEPT ![fd] = L!Closed]
    BY <2>2 DEF L!CloseFd
  <2>4. L!CloseFd(a, fd) \in L!Kernel /\ \A d \in Descriptors : L!CloseFd(a, fd)[d].open => k[d].open
    BY <2>1, <2>3 DEF L!Kernel, L!Closed
  <2> QED BY <1>4, <2>4 DEF L!Outcome, OnlyOpens, a
<1>5. ASSUME NEW fd \in free, o = L!Outcome(after(fd, Len(steps)), fd, "ok")
      PROVE  OnlyOpens(k, o)
  BY <1>1, <1>5 DEF L!Outcome, OnlyOpens
<1> QED BY <1>2, <1>3, <1>4, <1>5

\* And so is the initialisation of a talker in every mode.
LEMMA InitOpens ==
  ASSUME kernel \in L!Kernel, NEW n, NEW o \in L!InitOutcomes(n)
  PROVE  OnlyOpens(kernel, o)
<1>1. CASE o = L!Outcome(kernel, NoFd, "einval")
  BY <1>1 DEF L!Outcome, OnlyOpens
<1>2. ASSUME NEW steps, o \in L!OpenWith(kernel, steps)
      PROVE  OnlyOpens(kernel, o)
  BY <1>2, OpenWithOpens
<1>3. CASE ~L!set_shaping(n)
  BY <1>1, <1>3 DEF L!InitOutcomes
<1>4. CASE L!set_shaping(n) /\ L!Raw(options.mode)
  <2>1. o \in L!InitRaw(options.mode, options.dest, options.host)
    BY <1>4 DEF L!InitOutcomes
  <2> QED BY <1>1, <1>2, <2>1 DEF L!InitRaw
<1>5. CASE L!set_shaping(n) /\ ~L!Raw(options.mode)
  <2>1. o \in L!InitBsd(options.dest)
    BY <1>5 DEF L!InitOutcomes
  <2> QED BY <1>2, <2>1 DEF L!InitBsd
<1> QED BY <1>3, <1>4, <1>5

\* A share is within the word.
LEMMA SharesTyped ==
  ASSUME L!TypeOK, NEW n \in L!Threads
  PROVE  L!packets_thread(n) \in 0 .. LoadWord - 1
<1>1. options.threads \in Nat \ {0} /\ options.packets \in Nat
  BY Sizes DEF L!TypeOK, L!Options
<1> DEFINE p == L!packets
           a == (n * p) % LoadWord
           b == ((n - 1) * p) % LoadWord
<1>2. p \in Nat
  BY <1>1 DEF L!packets
<1> HIDE DEF p
<1>3. n * p \in Int /\ (n - 1) * p \in Int
  BY <1>2, Sizes, Z3
<1>4. a \in Int /\ b \in Int
  BY <1>3, Sizes
<1> HIDE DEF a, b
<1>5. a \div options.threads \in Int /\ b \div options.threads \in Int
  BY <1>1, <1>4
<1> DEFINE x == (a \div options.threads) - (b \div options.threads)
<1>6. x \in Int
  BY <1>5
<1>7. L!packets_thread(n) = x % LoadWord
  BY DEF L!packets_thread, L!ShareOf, p, a, b
<1> HIDE DEF x
<1> QED BY <1>6, <1>7, Sizes, ModParts

-----------------------------------------------------------------------------
(* UdpLoad: the threads *)

\* The totals that are added up are numbers.
LEMMA AddedTyped == ASSUME TypeInv PROVE \A m \in L!Threads : Added[m] \in Int /\ L!SumFunction(Added) \in Int
<1>1. \A m \in L!Threads : Added[m] \in Int
  BY Sizes DEF TypeInv, L!TypeOK, L!Talker, Added
<1>2. DOMAIN Added = L!Threads
  BY DEF Added
<1> HIDE DEF Added
<1>3. SumFunctionOnSet(Added, L!Threads) \in Int
  BY <1>1, Sizes, SumType
<1> QED BY <1>1, <1>2, <1>3, SameSum

\* A thread that has begun and not ended goes on.
LEMMA Moved ==
  ASSUME LoadInv, NEW n \in L!Threads, NEW t \in L!Talker, L!Becomes(n, t), go,
         talker[n].at \notin {"none", "done"}, t.at \notin {"none", "done"}, Ledger(t),
         t.packets = talker[n].packets, t.fd = talker[n].fd,
         UNCHANGED <<kernel, packets_sent>>
  PROVE  LoadInv'
<1>1. talker \in [L!Threads -> L!Talker] /\ talker' = [talker EXCEPT ![n] = t]
  BY DEF LoadInv, TypeInv, L!TypeOK, L!Becomes
<1>2. talker'[n] = t /\ \A m \in L!Threads \ {n} : talker'[m] = talker[m]
  BY <1>1
<1>3. UNCHANGED <<options, kernel, main_pc, next, go, packets_sent>> /\ L!Living
  BY DEF L!Becomes, L!Living
<1>4. TypeInv'
  <2>1. talker' \in [L!Threads -> L!Talker]
    BY <1>1
  <2> QED BY <1>3, <2>1 DEF LoadInv, TypeInv, L!TypeOK
<1>5. Phases'
  <2>1. \A m \in L!Threads : (talker'[m].at = "none" <=> talker[m].at = "none")
                             /\ (talker[m].at = "done" => talker'[m].at = "done")
    BY <1>2
  <2>2. AllStarted => AllStarted'
    BY <1>3, <2>1 DEF AllStarted
  <2>3. options.threads \in 1 .. MaxThreads
    BY DEF LoadInv, TypeInv, L!TypeOK, L!Options
  <2> HIDE DEF Ledger
  <2> QED BY <1>3, <2>1, <2>2, <2>3, Sizes DEF LoadInv, Phases
<1>6. Ledgers'
  <2>1. Ledger(t)' <=> Ledger(t)
    BY <1>3 DEF Ledger
  <2>2. \A m \in L!Threads \ {n} : Ledger(talker[m])' <=> Ledger(talker[m])
    BY <1>2, <1>3 DEF Ledger
  <2>3. \A m \in L!Threads \ {n} : Ledger(talker[m])
    BY DEF LoadInv, Ledgers
  <2>4. Ledger(talker[n])'
    BY <1>2, <1>3 DEF Ledger
  <2> QED BY <2>2, <2>3, <2>4 DEF Ledgers
<1>7. Owned'
  BY <1>2, <1>3 DEF LoadInv, Owned, L!Living
<1>8. Shares'
  BY <1>2, <1>3 DEF LoadInv, Shares, L!packets_thread, L!packets
<1>9. Sums'
  <2>1. Added' = Added
    BY <1>2 DEF Added
  <2> QED BY <1>3, <2>1 DEF LoadInv, Sums
<1> QED BY <1>4, <1>5, <1>6, <1>7, <1>8, <1>9 DEF LoadInv

\* A thread that stands anywhere but before its wait has seen the event.
LEMMA Running ==
  ASSUME LoadInv, NEW n \in L!Threads, talker[n].at \notin {"none", "wait"}
  PROVE  go
BY DEF LoadInv, Phases

\* The event is set, and the thread begins.
LEMMA WaitKeeps == ASSUME LoadInv, NEW n \in L!Threads, L!Wait(n) PROVE LoadInv'
<1> DEFINE t == [talker[n] EXCEPT !.at = "run"]
<1>1. t \in L!Talker /\ talker[n] \in L!Talker
  BY DEF LoadInv, TypeInv, L!TypeOK, L!Talker
<1>2. L!Becomes(n, t) /\ go /\ talker[n].at = "wait" /\ UNCHANGED <<kernel, packets_sent>>
  BY DEF L!Wait
<1>3. /\ t.at = "run" /\ Ledger(t)
      /\ t.packets = talker[n].packets /\ t.fd = talker[n].fd
  BY <1>2, <1>1 DEF LoadInv, Ledgers, Ledger, L!Talker
<1> HIDE DEF t
<1> QED BY <1>1, <1>2, <1>3, Moved

\* run() asks for a group.
LEMMA GroupKeeps == ASSUME LoadInv, NEW n \in L!Threads, L!Group(n) PROVE LoadInv'
<1>1. PICK c \in 0 .. MaxGroup :
         L!Becomes(n, [talker[n] EXCEPT !.at = "send", !.calls = @ + 1, !.count = c, !.sent = 0])
  BY DEF L!Group
<1> DEFINE t == [talker[n] EXCEPT !.at = "send", !.calls = @ + 1, !.count = c, !.sent = 0]
<1>2. talker[n] \in L!Talker /\ talker[n].at \in {"run", "slot"} /\ talker[n].calls < MaxCalls /\ UNCHANGED <<kernel, packets_sent>>
  BY DEF LoadInv, TypeInv, L!TypeOK, L!Group
<1>3. t \in L!Talker
  <2>1. talker[n].calls + 1 \in 0 .. MaxCalls /\ 0 \in 0 .. MaxGroup
    <3> DEFINE made == talker[n].calls
    <3>1. made \in 0 .. MaxCalls /\ made < MaxCalls
      BY <1>2 DEF L!Talker
    <3> HIDE DEF made
    <3>2. made + 1 \in 0 .. MaxCalls /\ 0 \in 0 .. MaxGroup
      BY <3>1, Sizes
    <3> QED BY <3>2 DEF made
  <2> DEFINE u == talker[n]
             k == u.calls + 1
  <2>2. u \in L!Talker /\ k \in 0 .. MaxCalls
    BY <1>2, <2>1
  <2>3. t = [u EXCEPT !.at = "send", !.calls = k, !.count = c, !.sent = 0]
    OBVIOUS
  <2> HIDE DEF u, k, t
  <2> QED BY <2>1, <2>2, <2>3 DEF L!Talker
<1>4. Ledger(talker[n])
  BY DEF LoadInv, Ledgers
<1>5. /\ t.at = "send" /\ Ledger(t)
      /\ t.packets = talker[n].packets /\ t.fd = talker[n].fd
  <2> DEFINE u == talker[n]
  <2>1. /\ t.at = "send" /\ t.count = c /\ t.sent = 0 /\ t.total = u.total /\ t.handed = u.handed
        /\ t.headers = u.headers /\ t.packets = u.packets /\ t.fd = u.fd
    BY <1>2 DEF L!Talker
  <2>2. u.at \in {"run", "slot"} /\ c \in 0 .. MaxGroup /\ Ledger(u)
    BY <1>2, <1>4
  <2> HIDE DEF t, u
  <2>3. Ledger(t)
    BY <2>1, <2>2, Sizes DEF Ledger
  <2> QED BY <2>1, <2>3 DEF u
<1>6. go
  BY <1>2, Running
<1> HIDE DEF t
<1>7. L!Becomes(n, t)
  BY <1>1 DEF t
<1> QED BY <1>2, <1>3, <1>5, <1>6, <1>7, Moved

\* The kernel takes packets: as many are counted as it takes, unless writev() is believed.
LEMMA AcceptKeeps == ASSUME LoadInv, NEW n \in L!Threads, L!Accept(n) PROVE LoadInv'
<1>1. PICK c \in 1 .. L!remain(talker[n]) : L!Becomes(n, L!Taken(talker[n], c))
  BY DEF L!Accept
<1> DEFINE u == talker[n]
           t == L!Taken(u, c)
<1>2. u \in L!Talker /\ u.at = "send" /\ u.sent < u.count /\ Ledger(u) /\ UNCHANGED <<kernel, packets_sent>>
  BY DEF LoadInv, TypeInv, L!TypeOK, L!Accept, L!Sending, Ledgers
<1>3. /\ u.sent \in 0 .. MaxGroup /\ u.count \in 0 .. MaxGroup /\ u.handed \in Nat /\ u.total \in 0 .. LoadWord - 1
  BY <1>2 DEF L!Talker
<1>4. L!remain(u) \in 1 .. u.count - u.sent
  <2>1. u.count - u.sent \in Nat \ {0}
    BY <1>2, <1>3, Sizes
  <2> DEFINE w == u.count - u.sent
  <2>2. L!remain(u) \in {1, Batch, w} /\ L!remain(u) <= w
    <3>1. L!remain(u) = IF ~L!Batched(options.mode) THEN 1 ELSE IF w < Batch THEN w ELSE Batch
      BY DEF L!remain
    <3> HIDE DEF w
    <3> QED BY <2>1, <3>1, Sizes DEF w
  <2> QED BY <2>1, <2>2, Sizes
<1> DEFINE more == IF options.mode = "bpfmm" THEN L!remain(u) ELSE c
<1>5. t = [u EXCEPT !.handed = @ + c, !.sent = @ + more] /\ more \in 1 .. u.count - u.sent /\ c \in Nat
  <2>1. c \in 1 .. L!remain(u)
    OBVIOUS
  <2>2. c \in Nat /\ more \in 1 .. u.count - u.sent
    BY <1>3, <1>4, <2>1
  <2> QED BY <2>2 DEF L!Taken
<1>6. go
  BY <1>2, Running
<1>7. L!Becomes(n, t)
  BY <1>1
<1>8. options.mode # "bpfmm" => more = c
  OBVIOUS
<1> HIDE DEF t, more
<1>9. t \in L!Talker
  <2>1. u.handed + c \in Nat /\ u.sent + more \in 0 .. MaxGroup
    <3>1. more \in 1 .. u.count - u.sent /\ c \in Nat
      BY <1>5
    <3> DEFINE sn == u.sent  cn == u.count  hd == u.handed
    <3>2. sn \in 0 .. MaxGroup /\ cn \in 0 .. MaxGroup /\ hd \in Nat /\ more \in 1 .. cn - sn
      BY <1>3, <3>1
    <3> HIDE DEF sn, cn, hd
    <3>3. hd + c \in Nat /\ sn + more \in 0 .. MaxGroup
      BY <3>1, <3>2, Sizes
    <3> QED BY <3>3 DEF sn, hd
  <2> DEFINE h == u.handed + c
             z == u.sent + more
  <2>2. t = [u EXCEPT !.handed = h, !.sent = z]
    BY <1>2, <1>5 DEF L!Talker
  <2>3. h \in Nat /\ z \in 0 .. MaxGroup
    BY <2>1
  <2> HIDE DEF u, h, z
  <2> QED BY <1>2, <2>2, <2>3 DEF L!Talker
<1>10. /\ t.at = "send" /\ t.packets = u.packets /\ t.fd = u.fd /\ t.sent = u.sent + more /\ t.count = u.count
       /\ t.handed = u.handed + c /\ t.total = u.total
  BY <1>2, <1>5 DEF L!Talker
<1>11. Ledger(t)
  <2>1. options.mode # "bpfmm" => (t.total + t.sent) % LoadWord = t.handed % LoadWord
    <3> SUFFICES ASSUME options.mode # "bpfmm" PROVE (t.total + t.sent) % LoadWord = t.handed % LoadWord
      OBVIOUS
    <3> DEFINE a == u.total + u.sent  b == u.handed
    <3>1. a \in Int /\ b \in Int /\ c \in Int /\ (a % LoadWord) = (b % LoadWord)
      BY <1>2, <1>3, <1>5 DEF Ledger
    <3>2. t.total + t.sent = a + c /\ t.handed = b + c
      BY <1>3, <1>5, <1>8, <1>10
    <3> HIDE DEF a, b
    <3>3. ((a + c) % LoadWord) = ((b + c) % LoadWord)
      <4>1. LoadWord \in Nat \ {0}
        BY Sizes
      <4> QED BY ONLY <3>1, <4>1, ModAdd
    <3> QED BY <3>2, <3>3
  <2>2. t.sent <= t.count
    BY <1>3, <1>5, <1>10
  <2> QED BY <1>10, <2>1, <2>2 DEF Ledger
<1> QED BY <1>2, <1>6, <1>7, <1>9, <1>10, <1>11, Moved

\* send_packets() returns with d delays made: the slot goes on, or it is over.
LEMMA Returned ==
  ASSUME LoadInv, NEW n \in L!Threads, talker[n].at = "send", NEW d \in 0 .. MaxDelays,
         NEW t \in L!Return([talker[n] EXCEPT !.delays = d]), L!Becomes(n, t),
         UNCHANGED <<kernel, packets_sent>>
  PROVE  LoadInv'
<1> DEFINE u == talker[n]
<1>1. u \in L!Talker /\ u.at = "send" /\ Ledger(u)
  BY DEF LoadInv, TypeInv, L!TypeOK, Ledgers
<1>2. /\ u.sent \in 0 .. MaxGroup /\ u.handed \in Nat /\ u.total \in 0 .. LoadWord - 1
      /\ u.total + u.sent \in Int
  BY <1>1 DEF L!Talker
<1> DEFINE x == u.total + u.sent
<1>3. (x % LoadWord) \in 0 .. LoadWord - 1 /\ ((x % LoadWord) % LoadWord) = (x % LoadWord)
  <2>1. x \in Int
    BY <1>2
  <2> HIDE DEF x
  <2> QED BY <2>1, Sizes, ModParts, ModAgain
<1> DEFINE y == x % LoadWord
<1>4. PICK w \in {"run", "slot"}, e \in 0 .. MaxDelays :
         t = [u EXCEPT !.at = w, !.total = y, !.count = 0, !.sent = 0, !.delays = e]
  <2> DEFINE base == [[u EXCEPT !.delays = d] EXCEPT !.at = "run", !.total = y, !.count = 0, !.sent = 0]
  <2>1. t = base \/ t = [base EXCEPT !.at = "slot", !.delays = 0]
    BY <1>1 DEF L!Return, L!Talker
  <2>2. base = [u EXCEPT !.at = "run", !.total = y, !.count = 0, !.sent = 0, !.delays = d]
    BY <1>1 DEF L!Talker
  <2>3. [base EXCEPT !.at = "slot", !.delays = 0]
          = [u EXCEPT !.at = "slot", !.total = y, !.count = 0, !.sent = 0, !.delays = 0]
    BY <1>1 DEF L!Talker
  <2>4. 0 \in 0 .. MaxDelays
    BY Sizes
  <2> HIDE DEF base, u, y
  <2> QED BY <2>1, <2>2, <2>3, <2>4
<1>5. y \in 0 .. LoadWord - 1 /\ (y % LoadWord) = y
  BY <1>3
<1>6. options.mode # "bpfmm" => y = (u.handed % LoadWord)
  BY <1>1 DEF Ledger
<1> HIDE DEF x, y
<1>7. t \in L!Talker
  <2>1. 0 \in 0 .. MaxGroup
    BY Sizes
  <2> HIDE DEF u
  <2> QED BY <1>1, <1>4, <1>5, <2>1 DEF L!Talker
<1>8. /\ t.at \in {"run", "slot"} /\ t.packets = u.packets /\ t.fd = u.fd /\ t.sent = 0 /\ t.count = 0
      /\ t.handed = u.handed /\ t.total = y
  BY <1>1, <1>4 DEF L!Talker
<1>9. Ledger(t)
  <2>1. y + 0 = y
    BY <1>5
  <2> QED BY <1>5, <1>6, <1>8, <2>1 DEF Ledger
<1>10. go
  BY <1>1, Running
<1> QED BY <1>1, <1>7, <1>8, <1>9, <1>10, Moved

\* ENOBUFS, with delays left and without.
LEMMA NoBuffersKeeps == ASSUME LoadInv, NEW n \in L!Threads, L!NoBuffers(n) PROVE LoadInv'
<1> DEFINE u == talker[n]
<1>1. u \in L!Talker /\ u.at = "send" /\ Ledger(u) /\ UNCHANGED <<kernel, packets_sent>>
  BY DEF LoadInv, TypeInv, L!TypeOK, L!NoBuffers, L!Sending, Ledgers
<1>2. u.delays \in 0 .. MaxDelays
  BY <1>1 DEF L!Talker
<1>3. ASSUME NEW d \in 0 .. MaxDelays, NEW t \in L!Return([u EXCEPT !.delays = d]), L!Becomes(n, t)
      PROVE  LoadInv'
  BY <1>1, <1>3, Returned
<1>4. ASSUME u.delays < MaxDelays,
             NEW t \in {[u EXCEPT !.delays = @ + 1]} \cup L!Return([u EXCEPT !.delays = @ + 1]),
             L!Becomes(n, t)
      PROVE  LoadInv'
  <2> DEFINE d == u.delays + 1
             waited == [u EXCEPT !.delays = d]
  <2>1. d \in 0 .. MaxDelays
    BY <1>2, <1>4, Sizes
  <2>2. t \in {waited} \cup L!Return(waited)
    BY <1>4
  <2> HIDE DEF d
  <2>3. CASE t = waited
    <3> HIDE DEF u
    <3>1. t \in L!Talker /\ t.at = "send" /\ t.packets = u.packets /\ t.fd = u.fd /\ Ledger(t)
      BY <1>1, <2>1, <2>3 DEF L!Talker, Ledger
    <3>2. go
      BY <1>1, Running DEF u
    <3> QED BY <1>1, <1>4, <3>1, <3>2, Moved DEF u
  <2>4. CASE t \in L!Return(waited)
    BY <1>3, <1>4, <2>1, <2>4
  <2> QED BY <2>2, <2>3, <2>4
<1>5. CASE \E t \in L!Return(u) : L!Becomes(n, t)
  <2>1. u = [u EXCEPT !.delays = u.delays]
    BY <1>1 DEF L!Talker
  <2> QED BY <1>2, <1>3, <1>5, <2>1
<1> QED BY <1>4, <1>5 DEF L!NoBuffers

\* The call ends with an error, or with the group sent.
LEMMA ReturnKeeps ==
  ASSUME LoadInv, NEW n \in L!Threads, L!SendFails(n) \/ L!GroupSent(n)
  PROVE  LoadInv'
<1> DEFINE u == talker[n]
<1>1. u \in L!Talker /\ u.at = "send" /\ UNCHANGED <<kernel, packets_sent>>
  BY DEF LoadInv, TypeInv, L!TypeOK, L!SendFails, L!GroupSent, L!Sending
<1>2. PICK t \in L!Return(u) : L!Becomes(n, t)
  BY DEF L!SendFails, L!GroupSent
<1>3. u.delays \in 0 .. MaxDelays /\ u = [u EXCEPT !.delays = u.delays]
  BY <1>1 DEF L!Talker
<1> QED BY <1>1, <1>2, <1>3, Returned

\* The duration is over.
LEMMA EndRunKeeps == ASSUME LoadInv, NEW n \in L!Threads, L!EndRun(n) PROVE LoadInv'
<1> DEFINE t == [talker[n] EXCEPT !.at = "add"]
<1>1. talker[n] \in L!Talker /\ talker[n].at = "slot" /\ Ledger(talker[n]) /\ UNCHANGED <<kernel, packets_sent>>
      /\ L!Becomes(n, t)
  BY DEF LoadInv, TypeInv, L!TypeOK, L!EndRun, Ledgers
<1>2. t \in L!Talker /\ t.at = "add" /\ t.packets = talker[n].packets /\ t.fd = talker[n].fd /\ Ledger(t)
  BY <1>1 DEF L!Talker, Ledger
<1>3. go
  BY <1>1, Running
<1> HIDE DEF t
<1> QED BY <1>1, <1>2, <1>3, Moved

\* close() closes its descriptor and no other.
LEMMA Closes ==
  ASSUME NEW k \in L!Kernel, NEW fd \in Descriptors \cup {NoFd}
  PROVE  /\ L!CloseFd(k, fd) \in L!Kernel
         /\ \A d \in Descriptors : L!CloseFd(k, fd)[d].open => k[d].open /\ d # fd
BY Sizes DEF L!CloseFd, L!Kernel, L!Closed

\* The total of the thread joins the sum, and its descriptor is closed.
LEMMA AddKeeps == ASSUME LoadInv, NEW n \in L!Threads, L!Add(n) PROVE LoadInv'
<1> DEFINE u == talker[n]
           t == [u EXCEPT !.at = "done", !.fd = NoFd, !.headers = FALSE]
<1>1. u \in L!Talker /\ u.at = "add" /\ Ledger(u) /\ L!Becomes(n, t)
      /\ packets_sent' = (packets_sent + u.total) % LoadWord /\ kernel' = L!CloseFd(kernel, u.fd)
  BY DEF LoadInv, TypeInv, L!TypeOK, L!Add, Ledgers
<1>2. talker \in [L!Threads -> L!Talker] /\ talker' = [talker EXCEPT ![n] = t]
  BY DEF LoadInv, TypeInv, L!TypeOK, L!Becomes, L!Add
<1>3. UNCHANGED <<options, main_pc, next, go>> /\ L!Living
  BY <1>1 DEF L!Becomes, L!Living
<1>4. u.fd \in Descriptors \cup {NoFd} /\ u.total \in 0 .. LoadWord - 1
  BY <1>1 DEF L!Talker
<1>5. go
  BY <1>1, Running
<1>6. t \in L!Talker /\ t.at = "done" /\ t.fd = NoFd /\ ~t.headers /\ t.packets = u.packets /\ t.total = u.total
      /\ t.sent = u.sent /\ t.count = u.count /\ t.handed = u.handed
  <2> HIDE DEF u
  <2> QED BY <1>1 DEF L!Talker
<1>7. Ledger(t)
  BY <1>1, <1>6 DEF Ledger
<1> HIDE DEF t
<1>8. talker'[n] = t /\ \A m \in L!Threads \ {n} : talker'[m] = talker[m]
  BY <1>2
<1>9. kernel' \in L!Kernel /\ \A d \in Descriptors : kernel'[d].open => kernel[d].open /\ d # u.fd
  <2>1. kernel \in L!Kernel
    BY DEF LoadInv, TypeInv, L!TypeOK
  <2> HIDE DEF u
  <2> QED BY <1>1, <1>4, <2>1, Closes
<1>10. TypeInv'
  <2>1. talker' \in [L!Threads -> L!Talker]
    BY <1>2, <1>6
  <2>2. packets_sent \in Int /\ packets_sent + u.total \in Int
    BY <1>4, Sizes DEF LoadInv, TypeInv, L!TypeOK
  <2> DEFINE x == packets_sent + u.total
  <2>3. x \in Int /\ packets_sent' = x % LoadWord
    BY <1>1, <2>2
  <2> HIDE DEF x
  <2>4. packets_sent' \in 0 .. LoadWord - 1
    BY <2>3, Sizes, ModParts
  <2> QED BY <1>3, <1>9, <2>1, <2>4 DEF LoadInv, TypeInv, L!TypeOK
<1>11. Phases'
  <2>1. \A m \in L!Threads : (talker'[m].at = "none" <=> talker[m].at = "none")
                             /\ (talker[m].at = "done" => talker'[m].at = "done")
    BY <1>1, <1>6, <1>8
  <2>2. AllStarted => AllStarted'
    BY <1>3, <2>1 DEF AllStarted
  <2>3. options.threads \in 1 .. MaxThreads
    BY DEF LoadInv, TypeInv, L!TypeOK, L!Options
  <2> QED BY <1>3, <1>5, <2>1, <2>2, <2>3, Sizes DEF LoadInv, Phases
<1>12. Ledgers'
  <2>1. \A m \in L!Threads \ {n} : Ledger(talker[m])' <=> Ledger(talker[m])
    BY <1>3, <1>8 DEF Ledger
  <2>2. \A m \in L!Threads \ {n} : Ledger(talker[m])
    BY DEF LoadInv, Ledgers
  <2>3. Ledger(talker[n])'
    BY <1>3, <1>7, <1>8 DEF Ledger
  <2> QED BY <2>1, <2>2, <2>3 DEF Ledgers
<1>13. Owned'
  <2> SUFFICES ASSUME NEW d \in Descriptors, kernel'[d].open
               PROVE  \E m \in L!Threads : talker'[m].fd = d
    BY DEF Owned
  <2>1. PICK m \in L!Threads : talker[m].fd = d
    BY <1>3, <1>9 DEF LoadInv, Owned
  <2>2. m # n
    BY <1>9, <2>1
  <2> QED BY <1>8, <2>1, <2>2
<1>14. Shares'
  BY <1>1, <1>3, <1>6, <1>8 DEF LoadInv, Shares, L!packets_thread, L!packets
<1>15. Sums'
  <2> DEFINE new == Added'
             a == L!SumFunction(Added)
  <2>1. /\ DOMAIN Added = L!Threads /\ DOMAIN new = L!Threads
        /\ \A m \in L!Threads \ {n} : new[m] = Added[m]
        /\ Added[n] = 0 /\ new[n] = u.total
    BY <1>1, <1>6, <1>8 DEF Added
  <2>2. (\A m \in L!Threads : Added[m] \in Int) /\ a \in Int
    BY AddedTyped DEF LoadInv
  <2>3. \A m \in L!Threads : new[m] \in Int
    BY <1>4, <2>1, <2>2
  <2>4. a = SumFunctionOnSet(Added, L!Threads)
    BY <2>1, SameSum
  <2>5. L!SumFunction(new) = SumFunctionOnSet(new, L!Threads)
    <3> HIDE DEF new
    <3> QED BY <2>1, SameSum
  <2> HIDE DEF new, a
  <2> DEFINE old == Added
  <2>6. /\ \A m \in L!Threads : old[m] \in Int /\ new[m] \in Int
        /\ \A m \in L!Threads \ {n} : new[m] = old[m]
        /\ old[n] = 0 /\ a = SumFunctionOnSet(old, L!Threads)
    BY <2>1, <2>2, <2>3, <2>4
  <2> HIDE DEF old
  <2>7. SumFunctionOnSet(new, L!Threads) = (SumFunctionOnSet(old, L!Threads) - old[n]) + new[n]
    <3> DEFINE D == L!Threads
    <3>1. IsFiniteSet(D) /\ n \in D
      BY Sizes
    <3>2. \A m \in D : old[m] \in Int /\ new[m] \in Int
      BY <2>6
    <3>3. \A m \in D \ {n} : new[m] = old[m]
      BY <2>6
    <3> HIDE DEF D
    <3>4. SumFunctionOnSet(new, D) = (SumFunctionOnSet(old, D) - old[n]) + new[n]
      BY ONLY <3>1, <3>2, <3>3, SumChanged
    <3> QED BY <3>4 DEF D
  <2>8. L!SumFunction(new) = a + u.total
    BY <1>4, <2>1, <2>2, <2>5, <2>6, <2>7
  <2>9. packets_sent = a % LoadWord /\ packets_sent \in Int
    BY Sizes DEF LoadInv, Sums, TypeInv, L!TypeOK, a
  <2>10. (packets_sent % LoadWord) = (a % LoadWord)
    BY <2>2, <2>9, Sizes, ModAgain
  <2> DEFINE c == u.total
  <2>11. c \in Int
    BY <1>4, Sizes
  <2>12. packets_sent' = (packets_sent + c) % LoadWord /\ L!SumFunction(new) = a + c
    BY <1>1, <2>8
  <2> HIDE DEF c
  <2>13. ((packets_sent + c) % LoadWord) = ((a + c) % LoadWord)
    <3>1. a \in Int /\ packets_sent \in Int /\ LoadWord \in Nat \ {0}
      BY <2>2, <2>9, Sizes
    <3> QED BY ONLY <3>1, <2>10, <2>11, ModAdd
  <2>14. packets_sent' = L!SumFunction(new) % LoadWord
    BY <2>12, <2>13
  <2>15. L!SumFunction(new) = L!SumFunction(Added)'
    BY DEF new, L!SumFunction, L!SumFunctionOnSet, L!FoldFunctionOnSet, L!MapThenFoldSet
  <2> QED BY <2>14, <2>15 DEF Sums
<1> QED BY <1>10, <1>11, <1>12, <1>13, <1>14, <1>15 DEF LoadInv

\* All steps of a thread.
LEMMA ThreadKeeps == ASSUME LoadInv, NEW n \in L!Threads, L!Thread(n) PROVE LoadInv'
BY WaitKeeps, GroupKeeps, AcceptKeeps, NoBuffersKeeps, ReturnKeeps, EndRunKeeps, AddKeeps DEF L!Thread

-----------------------------------------------------------------------------
(* UdpLoad: main() *)

\* A step that changes neither the talkers, nor the descriptors, nor what was asked for.
LEMMA MainOnly ==
  ASSUME LoadInv, UNCHANGED <<options, kernel, talker, packets_sent>>,
         main_pc' \in {"ready", "join", "report", "exit", "terminate"}, next' \in 1 .. MaxThreads + 1,
         go' \in BOOLEAN, L!Living' => L!Living, Phases'
  PROVE  LoadInv'
<1>1. TypeInv'
  BY DEF LoadInv, TypeInv, L!TypeOK
<1>2. Ledgers'
  BY DEF LoadInv, Ledgers, Ledger
<1>3. Owned'
  BY DEF LoadInv, Owned
<1>4. Shares'
  BY DEF LoadInv, Shares, L!packets_thread, L!packets
<1>5. Sums'
  BY DEF LoadInv, Sums, Added, L!SumFunction, L!SumFunctionOnSet, L!FoldFunctionOnSet, L!MapThenFoldSet
<1> QED BY <1>1, <1>2, <1>3, <1>4, <1>5 DEF LoadInv

\* The threads are as many as the options say.
LEMMA Counts == ASSUME LoadInv PROVE options.threads \in 1 .. MaxThreads /\ next \in 1 .. MaxThreads + 1
BY DEF LoadInv, TypeInv, L!TypeOK, L!Options

\* A talker that is not there.
LEMMA NoTalkerTyped == L!NoTalker \in L!Talker
BY Sizes DEF L!NoTalker, L!Talker

\* A talker is initialised and started, or the program ends.
LEMMA StartKeeps == ASSUME LoadInv, L!Start PROVE LoadInv'
<1>1. PICK o \in L!InitOutcomes(next) : kernel' = o.kernel /\ (L!Started(next, o) \/ L!NotStarted(next, o))
  BY DEF L!Start
<1>2. main_pc = "start" /\ UNCHANGED <<options, go, packets_sent>> /\ ~go /\ next \in 1 .. options.threads
      /\ \A n \in L!Threads : talker[n].at # "none" <=> n < next
  BY DEF L!Start, LoadInv, Phases
<1>3. OnlyOpens(kernel, o)
  BY InitOpens DEF LoadInv, TypeInv, L!TypeOK
<1>4. next \in L!Threads /\ options.threads \in 1 .. MaxThreads
  BY <1>2, Counts, Sizes
<1>5. talker \in [L!Threads -> L!Talker] /\ kernel \in L!Kernel
  BY DEF LoadInv, TypeInv, L!TypeOK
<1>6. CASE L!NotStarted(next, o)
  <2>1. UNCHANGED <<talker, next>> /\ main_pc' \in {"exit", "terminate"} /\ o.result # "ok"
    BY <1>6 DEF L!NotStarted
  <2>2. TypeInv'
    BY <1>1, <1>2, <1>3, <2>1 DEF LoadInv, TypeInv, L!TypeOK, OnlyOpens
  <2>3. Phases'
    BY <1>2, <2>1 DEF LoadInv, Phases
  <2>4. Ledgers'
    BY <1>2, <2>1 DEF LoadInv, Ledgers, Ledger
  <2>5. Owned'
    BY <2>1 DEF Owned, L!Living
  <2>6. Shares'
    BY <1>2, <2>1 DEF LoadInv, Shares, L!packets_thread, L!packets
  <2>7. Sums'
    BY <1>2, <2>1 DEF LoadInv, Sums, Added, L!SumFunction, L!SumFunctionOnSet, L!FoldFunctionOnSet, L!MapThenFoldSet
  <2> QED BY <2>2, <2>3, <2>4, <2>5, <2>6, <2>7 DEF LoadInv
<1>7. CASE L!Started(next, o)
  <2> PICK n : n = next
    OBVIOUS
  <2> DEFINE t == [L!NoTalker EXCEPT !.at = "wait", !.fd = o.fd, !.headers = options.mode = "bpfmm",
                                     !.packets = L!packets_thread(n)]
  <2>1. /\ o.result = "ok" /\ talker' = [talker EXCEPT ![n] = t] /\ next' = n + 1
        /\ main_pc' = IF n = options.threads THEN "ready" ELSE "start"
    BY <1>7 DEF L!Started
  <2>2. o.fd \in Descriptors /\ kernel' \in L!Kernel
        /\ \A d \in Descriptors : kernel'[d].open => kernel[d].open \/ d = o.fd
    BY <1>1, <1>3, <2>1 DEF OnlyOpens
  <2>3. L!packets_thread(n) \in 0 .. LoadWord - 1
    BY <1>4, SharesTyped DEF LoadInv, TypeInv
  <2>4. /\ t.at = "wait" /\ t.fd = o.fd /\ t.packets = L!packets_thread(n) /\ t.sent = 0 /\ t.count = 0
        /\ t.handed = 0 /\ t.total = 0
    BY DEF L!NoTalker
  <2>5. t \in L!Talker
    <3> DEFINE share == L!packets_thread(n)
    <3>1. share \in 0 .. LoadWord - 1 /\ 0 \in 0 .. LoadWord - 1 /\ 0 \in 0 .. MaxDelays
          /\ 0 \in 0 .. MaxCalls /\ 0 \in 0 .. MaxGroup
      BY <2>3, Sizes
    <3> DEFINE many == options.mode = "bpfmm"
               new == [L!NoTalker EXCEPT !.at = "wait", !.fd = o.fd, !.headers = many, !.packets = share]
    <3>3. many \in BOOLEAN
      OBVIOUS
    <3>2. t = new
      OBVIOUS
    <3> HIDE DEF share, many, t
    <3>4. L!NoTalker \in L!Talker
      BY NoTalkerTyped
    <3>5. new \in L!Talker
      BY <2>2, <3>1, <3>3, <3>4 DEF L!Talker
    <3> QED BY <3>2, <3>5
  <2> HIDE DEF t
  <2>6. talker'[n] = t /\ \A m \in L!Threads \ {n} : talker'[m] = talker[m]
    BY <1>4, <1>5, <2>1
  <2>7. talker[n].at = "none" /\ talker[n].fd = NoFd
    BY <1>2, <1>4 DEF LoadInv, Ledgers, Ledger
  <2>8. TypeInv'
    <3>1. talker' \in [L!Threads -> L!Talker]
      BY <1>5, <2>1, <2>5
    <3>2. next' \in 1 .. MaxThreads + 1
      BY <1>4, <2>1, Sizes
    <3> QED BY <1>2, <2>1, <2>2, <3>1, <3>2 DEF LoadInv, TypeInv, L!TypeOK
  <2>9. Phases'
    <3>1. \A m \in L!Threads : talker'[m].at # "none" <=> m < next'
      BY <1>2, <1>4, <2>1, <2>4, <2>6, Sizes
    <3>2. \A m \in L!Threads : talker'[m].at \in {"none", "wait"}
      BY <1>2, <2>4, <2>6 DEF LoadInv, Phases
    <3>3. CASE n = options.threads
      <4>1. AllStarted'
        BY <1>2, <1>4, <2>1, <3>1, <3>3, Sizes DEF AllStarted
      <4> QED BY <1>2, <2>1, <3>2, <3>3, <4>1 DEF Phases
    <3>4. CASE n # options.threads
      <4>1. next' \in 1 .. options.threads'
        BY <1>2, <1>4, <2>1, <3>4
      <4> QED BY <1>2, <2>1, <3>1, <3>2, <3>4, <4>1 DEF Phases
    <3> QED BY <3>3, <3>4
  <2>10. Ledgers'
    <3>1. \A m \in L!Threads \ {n} : Ledger(talker[m])' <=> Ledger(talker[m])
      BY <1>2, <2>6 DEF Ledger
    <3>2. \A m \in L!Threads \ {n} : Ledger(talker[m])
      BY DEF LoadInv, Ledgers
    <3>3. Ledger(talker[n])'
      BY <1>2, <2>4, <2>6 DEF Ledger
    <3> QED BY <3>1, <3>2, <3>3 DEF Ledgers
  <2>11. Owned'
    <3> SUFFICES ASSUME NEW d \in Descriptors, kernel'[d].open
                 PROVE  \E m \in L!Threads : talker'[m].fd = d
      BY DEF Owned
    <3>1. CASE d = o.fd
      BY <1>4, <2>4, <2>6, <3>1
    <3>2. CASE d # o.fd
      <4>1. PICK m \in L!Threads : talker[m].fd = d
        BY <1>2, <2>2, <3>2 DEF LoadInv, Owned, L!Living
      <4>2. m # n
        BY <2>7, <4>1, Sizes
      <4> QED BY <2>6, <4>1, <4>2
    <3> QED BY <3>1, <3>2
  <2>12. Shares'
    BY <1>2, <2>4, <2>6 DEF LoadInv, Shares, L!packets_thread, L!packets
  <2>13. Sums'
    <3>1. Added' = Added
      BY <2>4, <2>6, <2>7 DEF Added
    <3> QED BY <1>2, <3>1 DEF LoadInv, Sums
  <2> QED BY <2>8, <2>9, <2>10, <2>11, <2>12, <2>13 DEF LoadInv
<1> QED BY <1>1, <1>6, <1>7

\* The event is set when all threads have started.
LEMMA SetKeeps == ASSUME LoadInv, L!Set PROVE LoadInv'
<1>1. main_pc = "ready" /\ main_pc' = "join" /\ next' = 1 /\ go' = TRUE /\ UNCHANGED <<options, kernel, talker, packets_sent>>
  BY DEF L!Set
<1>2. AllStarted'
  BY <1>1 DEF LoadInv, Phases, AllStarted
<1>3. Phases'
  <2>1. next' \in 1 .. options.threads' /\ 1 .. next' - 1 = {}
    BY <1>1, Counts
  <2> QED BY <1>1, <1>2, <2>1 DEF Phases
<1>4. next' \in 1 .. MaxThreads + 1
  BY <1>1, Sizes
<1> QED BY <1>1, <1>3, <1>4, MainOnly DEF L!Living

\* main() goes to the next thread when this one has ended.
LEMMA JoinKeeps == ASSUME LoadInv, L!Join PROVE LoadInv'
<1>1. /\ main_pc = "join" /\ talker[next].at = "done" /\ next' = next + 1
      /\ main_pc' = (IF next = options.threads THEN "report" ELSE "join")
      /\ UNCHANGED <<options, kernel, go, talker, packets_sent>>
  BY DEF L!Join
<1>2. /\ AllStarted /\ go /\ next \in 1 .. options.threads
      /\ \A n \in 1 .. next - 1 : talker[n].at = "done"
  BY <1>1 DEF LoadInv, Phases
<1>3. AllStarted' /\ go'
  BY <1>1, <1>2 DEF AllStarted
<1>4. \A n \in 1 .. next : talker'[n].at = "done"
  BY <1>1, <1>2
<1>5. Phases'
  <2>1. CASE next = options.threads
    BY <1>1, <1>3, <1>4, <2>1 DEF Phases
  <2>2. CASE next # options.threads
    <3>1. next' \in 1 .. options.threads' /\ next' - 1 = next
      BY <1>1, <1>2, <2>2, Counts
    <3> QED BY <1>1, <1>3, <1>4, <2>2, <3>1 DEF Phases
  <2> QED BY <2>1, <2>2
<1>6. next' \in 1 .. MaxThreads + 1 /\ go' \in BOOLEAN
  BY <1>1, <1>2, <1>3, Counts, Sizes
<1> QED BY <1>1, <1>5, <1>6, MainOnly DEF L!Living

\* The report.
LEMMA ReportKeeps == ASSUME LoadInv, L!Report PROVE LoadInv'
<1>1. main_pc = "report" /\ main_pc' = "exit" /\ UNCHANGED <<options, kernel, next, go, talker, packets_sent>>
  BY DEF L!Report
<1>2. Phases'
  BY <1>1 DEF LoadInv, Phases, AllStarted
<1>3. next' \in 1 .. MaxThreads + 1 /\ go' \in BOOLEAN
  BY <1>1 DEF LoadInv, TypeInv, L!TypeOK
<1> QED BY <1>1, <1>2, <1>3, MainOnly DEF L!Living

\* A step of another part.
LEMMA NothingKeeps == ASSUME LoadInv, UNCHANGED loadVars PROVE LoadInv'
<1>1. UNCHANGED <<options, kernel, main_pc, next, go, talker, packets_sent>>
  BY DEF loadVars
<1>2. TypeInv'
  BY <1>1 DEF LoadInv, TypeInv, L!TypeOK
<1>3. Phases'
  BY <1>1 DEF LoadInv, Phases, AllStarted
<1>4. Ledgers'
  BY <1>1 DEF LoadInv, Ledgers, Ledger
<1>5. Owned'
  BY <1>1 DEF LoadInv, Owned, L!Living
<1>6. Shares'
  BY <1>1 DEF LoadInv, Shares, L!packets_thread, L!packets
<1>7. Sums'
  BY <1>1 DEF LoadInv, Sums, Added, L!SumFunction, L!SumFunctionOnSet, L!FoldFunctionOnSet, L!MapThenFoldSet
<1> QED BY <1>2, <1>3, <1>4, <1>5, <1>6, <1>7 DEF LoadInv

\* The invariant holds at the start.
LEMMA InitHolds == ASSUME L!Init PROVE LoadInv
<1>1. /\ options \in L!Options /\ kernel = [d \in Descriptors |-> L!Closed] /\ main_pc = "start" /\ next = 1 /\ go = FALSE
      /\ talker = [n \in L!Threads |-> L!NoTalker] /\ packets_sent = 0
  BY DEF L!Init
<1>2. L!NoTalker \in L!Talker /\ L!NoTalker.at = "none" /\ L!NoTalker.fd = NoFd /\ ~L!NoTalker.headers
      /\ L!NoTalker.handed = 0 /\ L!NoTalker.total = 0 /\ L!NoTalker.sent = 0 /\ L!NoTalker.count = 0
  BY Sizes DEF L!NoTalker, L!Talker
<1>3. kernel \in L!Kernel /\ \A d \in Descriptors : ~kernel[d].open
  BY <1>1 DEF L!Kernel, L!Closed
<1>4. options.threads \in 1 .. MaxThreads
  BY <1>1 DEF L!Options
<1>5. TypeInv
  <2>1. talker \in [L!Threads -> L!Talker]
    BY <1>1, <1>2
  <2>2. 1 \in 1 .. MaxThreads + 1 /\ 0 \in 0 .. LoadWord - 1
    BY Sizes
  <2> QED BY <1>1, <1>3, <2>1, <2>2 DEF TypeInv, L!TypeOK
<1>6. Phases
  BY <1>1, <1>2, <1>4, Sizes DEF Phases
<1>7. Ledgers
  <2> HIDE DEF Ledger
  <2>1. Ledger(L!NoTalker)
    BY <1>2 DEF Ledger
  <2> QED BY <1>1, <2>1 DEF Ledgers
<1>8. Owned
  BY <1>3 DEF Owned
<1>9. Shares
  BY <1>1, <1>2 DEF Shares
<1>10. Sums
  <2>1. DOMAIN Added = L!Threads /\ \A m \in L!Threads : Added[m] = 0
    BY <1>1, <1>2 DEF Added
  <2> DEFINE f == Added
             G == {R \in SUBSET L!Threads : SumFunctionOnSet(f, R) = 0}
  <2>2. {} \in G
    BY SumEmpty
  <2>3. ASSUME NEW R \in SUBSET L!Threads, R # {}, \A x \in R : R \ {x} \in G
        PROVE  R \in G
    <3>1. IsFiniteSet(R) /\ Picked(R) \in R
      BY <2>3, Sizes, FS_Subset, PickedIn
    <3>2. SumFunctionOnSet(f, R) = f[Picked(R)] + SumFunctionOnSet(f, R \ {Picked(R)})
      BY <2>3, <3>1, SumPicked
    <3>3. f[Picked(R)] = 0 /\ SumFunctionOnSet(f, R \ {Picked(R)}) = 0
      BY <2>1, <2>3, <3>1
    <3> QED BY <3>2, <3>3
  <2>4. SUBSET L!Threads \subseteq G
    <3> HIDE DEF G
    <3> QED BY <2>2, <2>3, Sizes, SetsByInduction
  <2>5. L!SumFunction(Added) = 0
    BY <2>1, <2>4, SameSum
  <2>6. 0 % LoadWord = 0
    BY Sizes
  <2> QED BY <1>1, <2>5, <2>6 DEF Sums
<1> QED BY <1>5, <1>6, <1>7, <1>8, <1>9, <1>10 DEF LoadInv

\* Every step keeps the invariant.
LEMMA PNextKeeps == ASSUME LoadInv, [PNext]_<<which, vars, casVars, shaperVars, loadVars>> PROVE LoadInv'
<1>1. CASE L!Next
  BY <1>1, StartKeeps, SetKeeps, JoinKeeps, ReportKeeps, ThreadKeeps, NothingKeeps
     DEF L!Next, L!Main, L!Ended, L!vars, loadVars
<1>2. CASE UNCHANGED loadVars
  BY <1>2, NothingKeeps
<1> QED BY <1>1, <1>2 DEF PNext

-----------------------------------------------------------------------------
(* UdpLoad: what follows *)

\* No thread has sent before all are started: the event was not set before.
LEMMA Begins == ASSUME LoadInv PROVE StartsTogether
<1> SUFFICES ASSUME NEW n \in L!Threads, talker[n].handed > 0, NEW m \in 1 .. options.threads
             PROVE  talker[m].at # "none"
  BY DEF StartsTogether, L!StartsTogether
<1>1. talker[n].at \notin {"none", "wait"}
  BY DEF LoadInv, Ledgers, Ledger
<1>2. AllStarted
  BY <1>1, Running DEF LoadInv, Phases
<1>3. m \in L!Threads /\ m <= options.threads
  BY Counts, Sizes
<1> QED BY <1>2, <1>3 DEF AllStarted

\* Every thread has the share of its number, and these add up.
LEMMA Shared == ASSUME LoadInv PROVE L!SharesAddUp
<1> DEFINE n == options.threads
           p == L!packets
<1> SUFFICES ASSUME main_pc = "join", n * p < LoadWord, NEW share, share = [m \in 1 .. n |-> talker[m].packets]
             PROVE  /\ L!SumFunction(share) = p
                    /\ \A j, k \in 1 .. n : share[j] > 0 /\ share[j] <= share[k] + 1
  BY DEF L!SharesAddUp
<1>1. n \in Nat \ {0} /\ p \in Nat /\ n <= p /\ 1 .. n \subseteq L!Threads
  BY Counts, Sizes DEF LoadInv, TypeInv, L!TypeOK, L!Options, L!packets
<1>2. AllStarted
  BY DEF LoadInv, Phases
<1>3. \A m \in 1 .. n : share[m] = L!ShareOf(m, n, p)
  BY <1>1, <1>2 DEF AllStarted, LoadInv, Shares, L!packets_thread
<1>4. DOMAIN share = 1 .. n /\ n * p < LoadWord
  OBVIOUS
<1>5. LoadWord \in Nat \ {0}
  BY Sizes
<1> HIDE DEF n, p
<1> QED BY ONLY <1>1, <1>3, <1>4, <1>5, SharesSum

\* All threads have ended when the report is made, and with them their descriptors.
LEMMA Reported == ASSUME LoadInv PROVE L!ReportIsComplete
<1> SUFFICES ASSUME main_pc = "report", NEW total_of, total_of = [m \in L!Threads |-> talker[m].total]
             PROVE  /\ packets_sent = L!SumFunction(total_of) % LoadWord
                    /\ \A m \in L!Threads : /\ total_of[m] = talker[m].handed % LoadWord \/ options.mode = "bpfmm"
                                            /\ ~talker[m].headers
                    /\ \A d \in Descriptors : ~kernel[d].open
  BY DEF L!ReportIsComplete
<1>1. AllStarted /\ \A m \in 1 .. options.threads : talker[m].at = "done"
  BY DEF LoadInv, Phases
<1>2. \A m \in L!Threads : talker[m].at \in {"none", "done"}
  BY <1>1, Counts, Sizes DEF AllStarted
<1>3. \A m \in L!Threads : talker[m] \in L!Talker /\ Ledger(talker[m])
  BY DEF LoadInv, TypeInv, L!TypeOK, Ledgers
<1>4. packets_sent = L!SumFunction(total_of) % LoadWord
  <2>1. \A m \in L!Threads : Added[m] = talker[m].total
    BY <1>2, <1>3 DEF Added, Ledger
  <2>2. Added = total_of
    BY <2>1 DEF Added
  <2> QED BY <2>2 DEF LoadInv, Sums
<1>5. ASSUME NEW m \in L!Threads
      PROVE  (total_of[m] = talker[m].handed % LoadWord \/ options.mode = "bpfmm") /\ ~talker[m].headers
  <2> DEFINE u == talker[m]
  <2>1. u.sent = 0 /\ ~u.headers /\ u.total \in 0 .. LoadWord - 1 /\ total_of[m] = u.total
        /\ (options.mode # "bpfmm" => ((u.total + u.sent) % LoadWord) = (u.handed % LoadWord))
    BY <1>2, <1>3 DEF Ledger, L!Talker
  <2> DEFINE x == u.total
  <2>2. x \in 0 .. LoadWord - 1 /\ (options.mode # "bpfmm" => ((x + 0) % LoadWord) = (u.handed % LoadWord))
    BY <2>1
  <2> HIDE DEF x
  <2>3. x + 0 = x /\ (x % LoadWord) = x
    BY <2>2, Sizes, SmallMod
  <2> QED BY <2>1, <2>2, <2>3 DEF x
<1>6. \A d \in Descriptors : ~kernel[d].open
  BY <1>2, <1>3, Sizes DEF LoadInv, Owned, L!Living, Ledger
<1> QED BY <1>4, <1>5, <1>6

\* UdpLoad: the invariant holds for any number of threads, packets, descriptors and
\* hosts, any word and any sizes of groups, with every interleaving of the threads.
THEOREM LoadInvariant == PSpec => []LoadInv
<1>1. PInit => LoadInv
  BY InitHolds DEF PInit
<1>2. LoadInv /\ [PNext]_<<which, vars, casVars, shaperVars, loadVars>> => LoadInv'
  BY PNextKeeps
<1> QED BY <1>1, <1>2, PTL DEF PSpec

\* UdpLoad: no thread sends a packet before main() has started the last one and set
\* the event.
THEOREM LoadStartsTogether == PSpec => []StartsTogether
BY LoadInvariant, Begins, PTL

\* UdpLoad: the shares of the threads add up to all packets and differ by one at
\* most; the report is made when all threads have ended, it is the sum of what they
\* sent, modulo the word, and no descriptor is left open.
THEOREM LoadReportIsComplete == PSpec => []ReportIsComplete
<1>1. LoadInv => ReportIsComplete
  BY Shared, Reported DEF ReportIsComplete
<1> QED BY LoadInvariant, <1>1, PTL

-----------------------------------------------------------------------------
(* UdpTalker: the inductive invariant *)

\* What the first x slots are worth.  The code takes the remainder by the word of
\* the product before it divides.
Worth(x) == (PACKETS * x) \div SLOTS

\* No product leaves the word, and a group fits the 16 bits of an argument.
Fits ==
    /\ PACKETS * (s + r + 2) < TalkerWord /\ WIDTH * (s + 1) < TalkerWord
    /\ T!Group < HalfWord

\* What the packets of the window are to reach in slot x.
Goal(x) == IF x < SLOTS THEN Worth(x + 1) ELSE PACKETS

\* What the window has of its packets when slot x begins on time.
Base(x) == IF x < SLOTS THEN Worth(x) ELSE PACKETS - (Worth(x + 1) - Worth(x))

\* Without delay and short sends, there is a group for each slot that sends what
\* the slot is worth.
OnTime ==
    ~late /\ ~short =>
        /\ r = s /\ count = Base(s) /\ total = Worth(s)
        /\ shaper_pc = "sending" => count + sent = Goal(s)

\* The window is within its goal, and no slot is begun more than 3 ms early.
ShaperInv ==
    /\ T!TypeOK
    /\ count <= Goal(s) /\ (shaper_pc = "sending" => count + sent <= Goal(s))
    /\ shaper_pc \in {"ready", "sending"} => s * WIDTH <= now + 3
    /\ shaper_pc = "sleeping" => s * WIDTH <= wake + 3
    /\ OnTime

\* The packets of a slot when they are shared evenly.
Per == PACKETS \div SLOTS

\* Packets that have left the window are those of slots before it.
RateInv == total <= count + Per * (IF s + 1 <= SLOTS THEN 0 ELSE s + 1 - SLOTS)

-----------------------------------------------------------------------------
(* UdpTalker: shares, goals and counts *)

\* What the constants are.
LEMMA TalkerSizes ==
  /\ SLOTS \in Nat \ {0} /\ WIDTH \in Nat \ {0} /\ PACKETS \in Nat \ {0} /\ HalfWord \in Nat \ {0} /\ MaxGroups \in Nat \ {0}
  /\ DURATION \in Nat /\ TalkerWord \in Nat \ {0} /\ MaxTime \in Nat
  /\ SLOTS < HalfWord /\ WIDTH < HalfWord /\ PACKETS < TalkerWord
BY ToolsAssumption DEF T!TalkerAssumption

\* Division keeps the order, and makes nothing larger.
LEMMA DivGrows ==
  ASSUME NEW a \in Nat, NEW b \in Nat, a <= b, NEW n \in Nat \ {0}
  PROVE  a \div n \in Nat /\ b \div n \in Nat /\ a \div n <= b \div n /\ a \div n <= a
<1> DEFINE x == a \div n  y == b \div n  ra == a % n  rb == b % n
<1>1. x \in Int /\ ra \in 0 .. n - 1 /\ a = n * x + ra
  BY ModParts
<1>2. y \in Int /\ rb \in 0 .. n - 1 /\ b = n * y + rb
  BY ModParts
<1> HIDE DEF x, y, ra, rb
<1>3. x <= y
  BY <1>1, <1>2, Z3
<1>4. x >= 0 /\ y >= 0
  BY <1>1, <1>2, Z3
<1>5. x <= a
  BY <1>1, <1>4, Z3
<1>6. x \in Nat /\ y \in Nat /\ x <= y /\ x <= a
  BY <1>1, <1>2, <1>3, <1>4, <1>5
<1> QED BY <1>6 DEF x, y

\* What slots are worth: nothing at first, all packets after a window, never less with more slots.
LEMMA Worths ==
  /\ Worth(0) = 0 /\ Worth(SLOTS) = PACKETS
  /\ \A x \in Nat : /\ Worth(x) \in Nat /\ PACKETS * x \in Nat /\ Worth(x) <= PACKETS * x
                    /\ Worth(x) <= Worth(x + 1) /\ Worth(x + 1) - Worth(x) <= PACKETS
  /\ \A x, y \in Nat : x <= y => Worth(x) <= Worth(y) /\ PACKETS * x <= PACKETS * y
<1> DEFINE n == SLOTS  p == PACKETS
<1>1. n \in Nat \ {0} /\ p \in Nat \ {0}
  BY TalkerSizes
<1>2. \A x : Worth(x) = (p * x) \div n
  BY DEF Worth
<1> HIDE DEF n, p
<1>3. Worth(0) = 0 /\ Worth(n) = p
  <2>1. p * 0 = 0 * p /\ p * n = n * p
    BY <1>1, Z3
  <2>2. Bound(0, n, p) = 0 /\ Bound(n, n, p) = p
    BY <1>1, Bounds
  <2> QED BY <1>2, <2>1, <2>2 DEF Bound
<1>4. ASSUME NEW x \in Nat, NEW y \in Nat, x <= y
      PROVE  Worth(x) <= Worth(y) /\ p * x <= p * y /\ Worth(x) \in Nat /\ p * x \in Nat /\ Worth(x) <= p * x
  <2> DEFINE a == p * x  b == p * y
  <2>1. a \in Nat /\ b \in Nat /\ a <= b
    BY <1>1, <1>4, Z3
  <2>2. Worth(x) = a \div n /\ Worth(y) = b \div n
    BY <1>2
  <2> HIDE DEF a, b
  <2>3. a \div n \in Nat /\ a \div n <= b \div n /\ a \div n <= a
    BY <1>1, <2>1, DivGrows
  <2>4. Worth(x) <= Worth(y) /\ a <= b /\ Worth(x) \in Nat /\ a \in Nat /\ Worth(x) <= a
    BY <2>1, <2>2, <2>3
  <2> QED BY <2>4 DEF a, b
<1>5. ASSUME NEW x \in Nat
      PROVE  Worth(x + 1) - Worth(x) <= p
  <2> DEFINE a == p * x
             k == a \div n
             ra == a % n
             b == a + p
             c == n * (k + p) + ra
  <2>1. a \in Nat /\ b \in Nat /\ p * (x + 1) = b
    BY <1>1, Z3
  <2> HIDE DEF a
  <2>2. k \in Int /\ ra \in 0 .. n - 1 /\ a = n * k + ra
    BY <1>1, <2>1, ModParts
  <2>7. k >= 0
    BY <1>1, <2>1, DivGrows
  <2> HIDE DEF k, ra
  <2>3. c \in Nat /\ b <= c /\ k + p \in Int
    BY <1>1, <2>1, <2>2, <2>7, Z3
  <2>4. c \div n = k + p
    <3> DEFINE kp == k + p
    <3>1. c = n * kp + ra /\ kp \in Int /\ c \in Int
      BY <2>3
    <3> HIDE DEF kp, c
    <3>2. c \div n = kp
      BY <1>1, <2>2, <3>1, ModUnique
    <3> QED BY <3>2 DEF kp
  <2> HIDE DEF c, b
  <2>5. b \div n <= c \div n /\ b \div n \in Nat
    BY <1>1, <2>1, <2>3, DivGrows
  <2>6. Worth(x) = k /\ Worth(x + 1) = b \div n
    BY <1>2, <2>1 DEF k, a
  <2> QED BY <1>1, <2>2, <2>4, <2>5, <2>6
<1>6. \A x \in Nat : x + 1 \in Nat /\ x <= x + 1
  OBVIOUS
<1> QED BY <1>3, <1>4, <1>5, <1>6 DEF n, p

\* When the product fits the word, the share is what the slots are worth.
LEMMA ShareFits ==
  ASSUME NEW x \in Nat, PACKETS * x < TalkerWord
  PROVE  T!Share(x) = Worth(x) /\ Worth(x) \in 0 .. TalkerWord - 1
<1> DEFINE a == PACKETS * x
<1>1. a \in Nat /\ a < TalkerWord /\ Worth(x) \in Nat /\ Worth(x) <= a
  BY Worths
<1> HIDE DEF a
<1>2. a % TalkerWord = a
  BY <1>1, TalkerSizes, SmallMod
<1>3. T!Share(x) = a \div SLOTS /\ Worth(x) = a \div SLOTS
  BY <1>2 DEF T!Share, Worth, a
<1> QED BY <1>1, <1>3, TalkerSizes

\* All the shares that a step looks at fit.
LEMMA FitsAt ==
  ASSUME NEW x \in Nat, NEW y \in Nat, PACKETS * (x + y + 2) < TalkerWord, WIDTH * (x + 1) < TalkerWord
  PROVE  /\ \A z \in 0 .. x + y + 2 : T!Share(z) = Worth(z) /\ Worth(z) \in 0 .. TalkerWord - 1
         /\ x + 1 < TalkerWord /\ y + 1 < TalkerWord
         /\ x * WIDTH \in Nat /\ x * WIDTH < TalkerWord
<1> DEFINE n == x + y + 2
<1>1. n \in Nat /\ PACKETS * n < TalkerWord
  OBVIOUS
<1>2. \A z \in 0 .. n : T!Share(z) = Worth(z) /\ Worth(z) \in 0 .. TalkerWord - 1
  <2> SUFFICES ASSUME NEW z \in 0 .. n PROVE T!Share(z) = Worth(z) /\ Worth(z) \in 0 .. TalkerWord - 1
    OBVIOUS
  <2> HIDE DEF n
  <2>1. z \in Nat /\ z <= n
    BY <1>1
  <2>2. PACKETS * z <= PACKETS * n /\ PACKETS * z \in Nat /\ PACKETS * n \in Nat
    BY <1>1, <2>1, Worths
  <2>3. PACKETS * z < TalkerWord
    <3> DEFINE a == PACKETS * z  b == PACKETS * n
    <3>1. a \in Nat /\ b \in Nat /\ a <= b /\ b < TalkerWord
      BY <1>1, <2>2
    <3> HIDE DEF a, b
    <3>2. a < TalkerWord
      BY <3>1, TalkerSizes
    <3> QED BY <3>2 DEF a
  <2> QED BY <2>1, <2>3, ShareFits
<1>3. n <= PACKETS * n /\ PACKETS * n \in Nat
  <2> HIDE DEF n
  <2> QED BY <1>1, TalkerSizes, Z3
<1>4. n < TalkerWord
  <2> DEFINE b == PACKETS * n
  <2>1. b \in Nat /\ n <= b /\ b < TalkerWord
    BY <1>1, <1>3
  <2> HIDE DEF b, n
  <2> QED BY <1>1, <2>1, TalkerSizes
<1>5. x * WIDTH \in Nat /\ x * WIDTH <= WIDTH * (x + 1) /\ WIDTH * (x + 1) \in Nat
  BY TalkerSizes, Z3
<1>6. x * WIDTH < TalkerWord
  <2> DEFINE a == x * WIDTH  b == WIDTH * (x + 1)
  <2>1. a \in Nat /\ b \in Nat /\ a <= b /\ b < TalkerWord
    BY <1>5
  <2> HIDE DEF a, b
  <2>2. a < TalkerWord
    BY <2>1, TalkerSizes
  <2> QED BY <2>2 DEF a
<1>7. x + 1 < TalkerWord /\ y + 1 < TalkerWord
  BY <1>4, TalkerSizes
<1> QED BY <1>2, <1>5, <1>6, <1>7

\* The goal of a slot grows with it up to all packets.
LEMMA Goals ==
  /\ \A x \in Nat : Goal(x) \in Nat /\ Goal(x) <= PACKETS /\ (x >= SLOTS - 1 => Goal(x) = PACKETS)
  /\ \A x, y \in Nat : x <= y => Goal(x) <= Goal(y)
<1>1. \A x \in Nat : Worth(x + 1) \in Nat /\ (x < SLOTS => Worth(x + 1) <= PACKETS)
  <2> SUFFICES ASSUME NEW x \in Nat
               PROVE  Worth(x + 1) \in Nat /\ (x < SLOTS => Worth(x + 1) <= PACKETS)
    OBVIOUS
  <2> DEFINE z == x + 1
  <2>1. z \in Nat /\ (x < SLOTS => z <= SLOTS)
    BY TalkerSizes
  <2> HIDE DEF z
  <2>2. Worth(z) \in Nat /\ (z <= SLOTS => Worth(z) <= Worth(SLOTS)) /\ Worth(SLOTS) = PACKETS
    BY <2>1, Worths, TalkerSizes
  <2> QED BY <2>1, <2>2 DEF z
<1>2. \A x \in Nat : x = SLOTS - 1 => Worth(x + 1) = PACKETS
  <2>1. (SLOTS - 1) + 1 = SLOTS
    BY TalkerSizes
  <2> QED BY <2>1, Worths
<1>3. ASSUME NEW x \in Nat, NEW y \in Nat, x <= y
      PROVE  Worth(x + 1) <= Worth(y + 1)
  <2> DEFINE z == x + 1  zz == y + 1
  <2>1. z \in Nat /\ zz \in Nat /\ z <= zz
    BY <1>3
  <2> HIDE DEF z, zz
  <2>2. Worth(z) <= Worth(zz)
    BY <2>1, Worths
  <2> QED BY <2>2 DEF z, zz
<1>4. \A x \in Nat : Goal(x) \in Nat /\ Goal(x) <= PACKETS
  BY <1>1, TalkerSizes DEF Goal
<1>5. \A x \in Nat : x >= SLOTS - 1 => Goal(x) = PACKETS
  BY <1>2, TalkerSizes DEF Goal
<1>6. \A x, y \in Nat : x <= y => Goal(x) <= Goal(y)
  <2> SUFFICES ASSUME NEW x \in Nat, NEW y \in Nat, x <= y PROVE Goal(x) <= Goal(y)
    OBVIOUS
  <2>1. CASE y < SLOTS
    BY <1>3, <2>1, TalkerSizes DEF Goal
  <2>2. CASE y >= SLOTS
    <3>1. Goal(y) = PACKETS
      BY <2>2, TalkerSizes DEF Goal
    <3> QED BY <1>4, <3>1
  <2> QED BY <2>1, <2>2, TalkerSizes
<1> QED BY <1>4, <1>5, <1>6

\* The packets that leave the window when run() goes to a later slot.
Left(old, new, y) ==
  LET from == IF old < SLOTS - 1 THEN SLOTS - 1 ELSE old
  IN  Worth(y + (new - from)) - Worth(y)

\* The count after a new slot, which is within its goal.
LEMMA CountAtIs ==
  ASSUME r \in Nat, NEW old \in Nat, NEW new \in Nat, old <= new, NEW c \in Nat, c <= Goal(old),
         PACKETS * (new + (r + 1) + 2) < TalkerWord, WIDTH * (new + 1) < TalkerWord
  PROVE  /\ T!CountAt(old, new, c) = IF new >= SLOTS /\ c >= PACKETS
                                       THEN IF c > Left(old, new, r + 1) THEN c - Left(old, new, r + 1) ELSE 0
                                       ELSE c
         /\ new >= SLOTS => Left(old, new, r + 1) \in Nat
         /\ T!CountAt(old, new, c) \in Nat /\ T!CountAt(old, new, c) <= c /\ T!CountAt(old, new, c) <= Goal(new)
<1> DEFINE y == r + 1
           from == IF old < SLOTS - 1 THEN SLOTS - 1 ELSE old
           z == y + (new - from)
           left == Left(old, new, y)
<1>1. y \in Nat /\ y \in 0 .. new + y + 2
  OBVIOUS
<1>2. \A k \in 0 .. new + y + 2 : T!Share(k) = Worth(k) /\ Worth(k) \in 0 .. TalkerWord - 1
  <2> HIDE DEF y
  <2> QED BY <1>1, FitsAt DEF y
<1>3. ASSUME new >= SLOTS
      PROVE  left \in Nat /\ T!Credits(old, new) = left
  <2>1. from \in Nat /\ from <= new /\ z \in Nat /\ z \in 0 .. new + y + 2 /\ y <= z
    BY <1>1, <1>3, TalkerSizes
  <2>2. /\ T!Share(z) = Worth(z) /\ Worth(z) \in 0 .. TalkerWord - 1
        /\ T!Share(y) = Worth(y) /\ Worth(y) \in 0 .. TalkerWord - 1
    BY <1>1, <1>2, <2>1
  <2>3. left = Worth(z) - Worth(y) /\ T!Credits(old, new) = (T!Share(z) - T!Share(y)) % TalkerWord
    BY DEF Left, T!Credits
  <2> HIDE DEF y, z, from, left
  <2>4. Worth(y) <= Worth(z)
    BY <1>1, <2>1, Worths
  <2>5. left \in 0 .. TalkerWord - 1 /\ T!Credits(old, new) = left % TalkerWord
    BY <2>2, <2>3, <2>4, TalkerSizes
  <2> QED BY <2>5, TalkerSizes, SmallMod
<1>4. T!CountAt(old, new, c) = IF new >= SLOTS /\ c >= PACKETS THEN IF c > left THEN c - left ELSE 0 ELSE c
  BY <1>3 DEF T!CountAt
<1>5. Goal(old) <= Goal(new) /\ Goal(new) \in Nat
  BY Goals
<1> HIDE DEF left
<1>6. T!CountAt(old, new, c) \in Nat /\ T!CountAt(old, new, c) <= c
  BY <1>3, <1>4
<1>7. T!CountAt(old, new, c) <= Goal(new)
  BY <1>5, <1>6, Goals
<1> QED BY <1>3, <1>4, <1>6, <1>7 DEF left

-----------------------------------------------------------------------------
(* UdpTalker: the steps *)

\* What is known of the counters in any state.
LEMMA Counters ==
  ASSUME T!TypeOK
  PROVE  /\ s \in Nat /\ r \in Nat /\ count \in Nat /\ sent \in Nat /\ total \in Nat /\ now \in Nat /\ wake \in Nat
         /\ s < TalkerWord /\ r < TalkerWord /\ count < TalkerWord /\ total < TalkerWord /\ sent < HalfWord
         /\ elapsed \in 0 .. now /\ late \in BOOLEAN /\ short \in BOOLEAN /\ groups \in 0 .. MaxGroups
         /\ shaper_pc \in {"ready", "sending", "sleeping", "done"}
BY TalkerSizes DEF T!TypeOK

\* What a step computes from its counters.
LEMMA SharesFit ==
  ASSUME T!TypeOK, Fits
  PROVE  /\ T!Expected(s) = Goal(s) /\ Goal(s) \in Nat /\ Goal(s) <= PACKETS
         /\ T!Share(r) = Worth(r) /\ T!Share(r + 1) = Worth(r + 1)
         /\ Worth(r) \in Nat /\ Worth(r + 1) \in Nat /\ Worth(r) <= Worth(r + 1) /\ Worth(r + 1) < TalkerWord
         /\ s + 1 < TalkerWord /\ r + 1 < TalkerWord
<1>1. s \in Nat /\ r \in Nat
  BY Counters
<1>2. PACKETS * (s + r + 2) < TalkerWord /\ WIDTH * (s + 1) < TalkerWord
  BY DEF Fits
<1>3. /\ \A z \in 0 .. s + r + 2 : T!Share(z) = Worth(z) /\ Worth(z) \in 0 .. TalkerWord - 1
      /\ s + 1 < TalkerWord /\ r + 1 < TalkerWord
  BY <1>1, <1>2, FitsAt
<1>4. r \in 0 .. s + r + 2 /\ r + 1 \in 0 .. s + r + 2 /\ s + 1 \in 0 .. s + r + 2
  BY <1>1
<1>5. T!Expected(s) = Goal(s)
  <2> DEFINE z == s + 1
  <2>1. T!Share(z) = Worth(z)
    BY <1>3, <1>4
  <2> QED BY <2>1 DEF T!Expected, Goal
<1>6. Goal(s) \in Nat /\ Goal(s) <= PACKETS
  BY <1>1, Goals
<1>7. /\ T!Share(r) = Worth(r) /\ T!Share(r + 1) = Worth(r + 1)
      /\ Worth(r) \in 0 .. TalkerWord - 1 /\ Worth(r + 1) \in 0 .. TalkerWord - 1
  BY <1>3, <1>4
<1>8. Worth(r) <= Worth(r + 1)
  BY <1>1, Worths
<1> QED BY <1>3, <1>5, <1>6, <1>7, <1>8, TalkerSizes

\* run() asks for no more than the goal leaves, and for all of a share when that is what it leaves.
LEMMA GroupIs ==
  ASSUME ShaperInv, Fits
  PROVE  /\ T!Asked \in Nat /\ T!Asked < HalfWord /\ count + T!Asked <= Goal(s)
         /\ T!Asked <= Worth(r + 1) - Worth(r)
         /\ Goal(s) - count = Worth(r + 1) - Worth(r) => T!Asked = Worth(r + 1) - Worth(r)
<1> DEFINE rest == Goal(s) - count
           most == Worth(r + 1) - Worth(r)
<1>1. T!TypeOK /\ count <= Goal(s)
  BY DEF ShaperInv
<1>2. rest \in 0 .. TalkerWord - 1
  BY <1>1, SharesFit, Counters, TalkerSizes
<1>3. most \in 0 .. TalkerWord - 1
  BY <1>1, SharesFit, TalkerSizes
<1>4. T!Remaining = rest % TalkerWord /\ T!GroupMax = most % TalkerWord
  BY <1>1, SharesFit DEF T!Remaining, T!GroupMax
<1>5. count + rest = Goal(s)
  BY <1>1, SharesFit, Counters
<1> HIDE DEF rest, most
<1>6. T!Remaining = rest /\ T!GroupMax = most
  BY <1>2, <1>3, <1>4, TalkerSizes, SmallMod
<1>7. T!Group = IF rest > most THEN most ELSE rest
  BY <1>6 DEF T!Group
<1>8. T!Group \in 0 .. HalfWord - 1
  BY <1>2, <1>3, <1>7, TalkerSizes DEF Fits
<1>9. T!Asked = T!Group
  BY <1>8, TalkerSizes, SmallMod DEF T!Asked
<1>10. count + T!Asked <= Goal(s) /\ T!Asked <= most /\ (rest = most => T!Asked = most) /\ T!Asked \in Nat /\ T!Asked < HalfWord
  <2>1. count \in Nat /\ Goal(s) \in Nat
    BY <1>1, SharesFit, Counters
  <2> QED BY <1>2, <1>3, <1>5, <1>7, <1>8, <1>9, <2>1, TalkerSizes
<1> QED BY <1>10 DEF rest, most

\* What every group does.
LEMMA Accounted ==
  ASSUME ShaperInv, Fits, T!Account
  PROVE  /\ shaper_pc = "sending" /\ UNCHANGED <<now, sent, short, groups>> /\ elapsed' = now
         /\ r' = r + 1 /\ total' = (total + sent) % TalkerWord /\ total' \in 0 .. TalkerWord - 1
         /\ (count + sent) % TalkerWord = count + sent /\ count + sent \in Nat /\ count + sent <= Goal(s)
<1>1. T!TypeOK /\ shaper_pc = "sending" /\ count + sent <= Goal(s) /\ UNCHANGED <<now, sent, short, groups>> /\ elapsed' = now
      /\ r' = (r + 1) % TalkerWord /\ total' = (total + sent) % TalkerWord
  BY DEF T!Account, ShaperInv
<1>2. count + sent \in 0 .. TalkerWord - 1 /\ r + 1 \in 0 .. TalkerWord - 1 /\ total + sent \in Int
  BY <1>1, SharesFit, Counters, TalkerSizes
<1> DEFINE c == count + sent  y == r + 1  all == total + sent
<1>3. c \in 0 .. TalkerWord - 1 /\ y \in 0 .. TalkerWord - 1 /\ all \in Int /\ r' = y % TalkerWord /\ total' = all % TalkerWord
  BY <1>1, <1>2
<1>4. c <= Goal(s)
  BY <1>1
<1> HIDE DEF c, y, all
<1>5. c % TalkerWord = c /\ r' = y /\ total' \in 0 .. TalkerWord - 1
  <2>1. c % TalkerWord = c /\ y % TalkerWord = y
    BY <1>3, TalkerSizes, SmallMod
  <2>2. all % TalkerWord \in 0 .. TalkerWord - 1
    BY <1>3, TalkerSizes, ModParts
  <2> QED BY <1>3, <2>1, <2>2
<1>6. c \in Nat
  BY <1>3, TalkerSizes
<1> QED BY <1>1, <1>4, <1>5, <1>6 DEF c, y

\* The clock ticks.
LEMMA TickKeeps == ASSUME ShaperInv, T!Tick PROVE ShaperInv'
<1>1. now' = now + 1 /\ groups' = 0 /\ UNCHANGED <<shaper_pc, s, r, count, sent, total, elapsed, wake, late, short>>
  BY DEF T!Tick
<1>2. T!TypeOK
  BY DEF ShaperInv
<1>3. T!TypeOK'
  BY <1>1, <1>2, TalkerSizes DEF T!TypeOK
<1>4. Goal(s)' = Goal(s) /\ OnTime'
  BY <1>1 DEF Goal, OnTime, Base, Worth, ShaperInv
<1>5. s * WIDTH \in Int
  BY <1>2, Counters, TalkerSizes, Z3
<1>6. shaper_pc' \in {"ready", "sending"} => s' * WIDTH <= now' + 3
  <2> SUFFICES ASSUME shaper_pc \in {"ready", "sending"} PROVE s * WIDTH <= (now + 1) + 3
    BY <1>1
  <2> DEFINE k == s * WIDTH
  <2>1. k \in Int /\ now \in Int /\ k <= now + 3
    BY <1>2, <1>5, Counters DEF ShaperInv
  <2> HIDE DEF k
  <2>2. k <= (now + 1) + 3
    BY <2>1
  <2> QED BY <2>2 DEF k
<1> QED BY <1>1, <1>3, <1>4, <1>6 DEF ShaperInv

\* send_packets() sends what it is asked to, or less.
LEMMA SendGroupKeeps == ASSUME ShaperInv, Fits, T!SendGroup PROVE ShaperInv'
<1>1. PICK n \in 0 .. T!Asked : sent' = n /\ short' = (short \/ n < T!Asked)
  BY DEF T!SendGroup
<1>2. /\ shaper_pc = "ready" /\ groups < MaxGroups /\ groups' = groups + 1 /\ shaper_pc' = "sending"
      /\ UNCHANGED <<now, s, r, count, total, elapsed, wake, late>>
  BY DEF T!SendGroup
<1>3. T!TypeOK
  BY DEF ShaperInv
<1>4. sent' \in 0 .. HalfWord - 1 /\ count + sent' <= Goal(s) /\ sent' <= T!Asked
  BY <1>1, <1>3, GroupIs, Counters, SharesFit, TalkerSizes
<1>5. short' \in BOOLEAN
  BY <1>1
<1>6. T!TypeOK'
  <2>1. groups' \in 0 .. MaxGroups
    BY <1>2, <1>3, Counters, TalkerSizes
  <2> QED BY <1>2, <1>3, <1>4, <1>5, <2>1 DEF T!TypeOK
<1>7. Goal(s)' = Goal(s)
  BY <1>2 DEF Goal
<1>8. OnTime'
  <2> SUFFICES ASSUME ~late', ~short'
               PROVE  r' = s' /\ count' = Base(s)' /\ total' = Worth(s)' /\ count' + sent' = Goal(s)'
    BY DEF OnTime
  <2>1. ~late /\ ~short /\ n >= T!Asked
    <3>1. ~late
      BY <1>2
    <3>2. ~(short \/ n < T!Asked)
      BY <1>1, Zenon
    <3>3. n >= T!Asked
      BY <3>2, GroupIs
    <3> QED BY <3>1, <3>2, <3>3, Zenon
  <2>2. r = s /\ count = Base(s) /\ total = Worth(s)
    BY <2>1 DEF ShaperInv, OnTime
  <2>3. Goal(s) - count = Worth(r + 1) - Worth(r)
    <3>1. s \in Nat /\ Worth(s) \in Nat /\ Worth(s + 1) \in Nat
      BY <1>3, <2>2, Counters, SharesFit
    <3> QED BY <2>2, <3>1, TalkerSizes DEF Goal, Base
  <2>4. sent' = Worth(r + 1) - Worth(r)
    BY <1>1, <2>1, <2>3, GroupIs, <1>3, SharesFit
  <2>5. count + sent' = Goal(s)
    BY <2>3, <2>4, <1>3, SharesFit, Counters
  <2>6. Base(s)' = Base(s) /\ Worth(s)' = Worth(s)
    BY <1>2 DEF Base, Worth
  <2> QED BY <1>2, <1>7, <2>2, <2>5, <2>6
<1> QED BY <1>2, <1>4, <1>6, <1>7, <1>8 DEF ShaperInv

\* More of the same slot.
LEMMA ResendKeeps == ASSUME ShaperInv, Fits, T!Resend PROVE ShaperInv'
<1>1. /\ T!Account /\ T!Expected(s) > (count + sent) % TalkerWord /\ count' = (count + sent) % TalkerWord
      /\ shaper_pc' = "ready" /\ UNCHANGED <<s, wake, late>>
  BY DEF T!Resend
<1>2. T!TypeOK
  BY DEF ShaperInv
<1>3. /\ shaper_pc = "sending" /\ UNCHANGED <<now, sent, short, groups>> /\ elapsed' = now
      /\ r' = r + 1 /\ total' \in 0 .. TalkerWord - 1
      /\ (count + sent) % TalkerWord = count + sent /\ count + sent \in Nat /\ count + sent <= Goal(s)
  BY <1>1, Accounted
<1>4. count' = count + sent /\ T!Expected(s) = Goal(s) /\ Goal(s) > count + sent
  BY <1>1, <1>2, <1>3, SharesFit
<1>5. count' \in 0 .. TalkerWord - 1 /\ r' \in 0 .. TalkerWord - 1 /\ elapsed' \in 0 .. now'
  BY <1>2, <1>3, <1>4, SharesFit, Counters, TalkerSizes
<1>6. T!TypeOK'
  BY <1>1, <1>2, <1>3, <1>5 DEF T!TypeOK
<1>7. Goal(s)' = Goal(s)
  BY <1>1 DEF Goal
<1>8. OnTime'
  <2>1. late' \/ short'
    <3> SUFFICES ASSUME ~late, ~short PROVE FALSE
      BY <1>1, <1>3
    <3>1. count + sent = Goal(s)
      BY <1>3 DEF ShaperInv, OnTime
    <3> QED BY <1>4, <3>1, <1>2, SharesFit
  <2> QED BY <2>1 DEF OnTime
<1> QED BY <1>1, <1>3, <1>4, <1>6, <1>7, <1>8 DEF ShaperInv

\* Slot n, not before slot s, is begun, with c packets in the window.
LEMMA BeginsSlot ==
  ASSUME ShaperInv, Fits, Fits', T!Account, NEW n \in Nat, s' = n, s <= n,
         count' = T!CountAt(s, n, (count + sent) % TalkerWord)
  PROVE  /\ n + 1 < TalkerWord /\ n * WIDTH \in Nat /\ n * WIDTH < TalkerWord
         /\ count' = IF n >= SLOTS /\ count + sent >= PACKETS
                       THEN IF count + sent > Left(s, n, r + 1) THEN (count + sent) - Left(s, n, r + 1) ELSE 0
                       ELSE count + sent
         /\ n >= SLOTS => Left(s, n, r + 1) \in Nat
         /\ count' \in 0 .. TalkerWord - 1 /\ count' <= Goal(n)
         /\ r + 2 < TalkerWord /\ PACKETS * (n + (r + 1) + 2) < TalkerWord
<1>1. T!TypeOK /\ s \in Nat /\ r \in Nat
  BY Counters DEF ShaperInv
<1>2. r' = r + 1 /\ (count + sent) % TalkerWord = count + sent /\ count + sent \in Nat /\ count + sent <= Goal(s)
  BY Accounted
<1>3. PACKETS * (n + (r + 1) + 2) < TalkerWord /\ WIDTH * (n + 1) < TalkerWord
  BY <1>2 DEF Fits
<1> DEFINE y == r + 1  c == count + sent
<1>4. y \in Nat /\ PACKETS * (n + y + 2) < TalkerWord
  BY <1>1, <1>3
<1>5. c \in Nat /\ c <= Goal(s) /\ count' = T!CountAt(s, n, c)
  BY <1>2
<1> HIDE DEF c
<1>6. /\ T!CountAt(s, n, c) = IF n >= SLOTS /\ c >= PACKETS
                                THEN IF c > Left(s, n, r + 1) THEN c - Left(s, n, r + 1) ELSE 0
                                ELSE c
      /\ n >= SLOTS => Left(s, n, r + 1) \in Nat
      /\ T!CountAt(s, n, c) \in Nat /\ T!CountAt(s, n, c) <= c /\ T!CountAt(s, n, c) <= Goal(n)
  BY <1>1, <1>3, <1>5, CountAtIs
<1> HIDE DEF y
<1>7. n + 1 < TalkerWord /\ y + 1 < TalkerWord /\ n * WIDTH \in Nat /\ n * WIDTH < TalkerWord
  BY <1>3, <1>4, FitsAt
<1>8. count' \in 0 .. TalkerWord - 1
  BY <1>1, <1>5, <1>6, SharesFit, TalkerSizes
<1>9. r + 2 < TalkerWord
  BY <1>1, <1>7, TalkerSizes DEF y
<1> QED BY <1>3, <1>5, <1>6, <1>7, <1>8, <1>9 DEF c

\* The slot is complete.
LEMMA NextSlotKeeps == ASSUME ShaperInv, Fits, Fits', T!NextSlot PROVE ShaperInv'
<1>1. /\ T!Account /\ T!Expected(s) <= (count + sent) % TalkerWord
      /\ s' = (s + 1) % TalkerWord /\ count' = T!CountAt(s, s', (count + sent) % TalkerWord)
      /\ T!Sleep(((s' * WIDTH) % TalkerWord) - now) /\ late' = late
  BY DEF T!NextSlot
<1>2. T!TypeOK
  BY DEF ShaperInv
<1>3. /\ shaper_pc = "sending" /\ UNCHANGED <<now, sent, short, groups>> /\ elapsed' = now
      /\ r' = r + 1 /\ total' = (total + sent) % TalkerWord /\ total' \in 0 .. TalkerWord - 1
      /\ (count + sent) % TalkerWord = count + sent /\ count + sent \in Nat /\ count + sent <= Goal(s)
  BY <1>1, Accounted
<1> PICK n : n = s + 1
  OBVIOUS
<1>4. n \in Nat /\ s <= n /\ n \in 0 .. TalkerWord - 1 /\ s \in Nat
  BY <1>2, SharesFit, Counters, TalkerSizes
<1>5. s' = n
  BY <1>1, <1>4, TalkerSizes, SmallMod
<1>6. count' = T!CountAt(s, n, (count + sent) % TalkerWord)
  BY <1>1, <1>5
<1>7. /\ n + 1 < TalkerWord /\ n * WIDTH \in Nat /\ n * WIDTH < TalkerWord
      /\ count' = IF n >= SLOTS /\ count + sent >= PACKETS
                    THEN IF count + sent > Left(s, n, r + 1) THEN (count + sent) - Left(s, n, r + 1) ELSE 0
                    ELSE count + sent
      /\ count' \in 0 .. TalkerWord - 1 /\ count' <= Goal(n) /\ r + 2 < TalkerWord
      /\ PACKETS * (n + (r + 1) + 2) < TalkerWord
  BY <1>1, <1>4, <1>5, <1>6, BeginsSlot
<1>8. shaper_pc' = "sleeping" /\ wake' \in Nat /\ n * WIDTH <= wake' + 3
  <2> DEFINE at_time == n * WIDTH
  <2>1. at_time \in 0 .. TalkerWord - 1 /\ now \in Nat
    BY <1>2, <1>7, Counters, TalkerSizes
  <2>2. shaper_pc' = "sleeping"
        /\ wake' = IF (at_time % TalkerWord) - now >= 4 THEN now + ((at_time % TalkerWord) - now) ELSE now
    BY <1>1, <1>5 DEF T!Sleep
  <2> HIDE DEF at_time
  <2>3. at_time % TalkerWord = at_time
    BY <2>1, TalkerSizes, SmallMod
  <2>4. wake' \in Nat /\ at_time <= wake' + 3
    BY <2>1, <2>2, <2>3, TalkerSizes
  <2> QED BY <2>2, <2>4 DEF at_time
<1>9. T!TypeOK'
  <2>1. r' \in 0 .. TalkerWord - 1 /\ elapsed' \in 0 .. now'
    BY <1>2, <1>3, SharesFit, Counters, TalkerSizes
  <2> QED BY <1>1, <1>2, <1>3, <1>4, <1>5, <1>7, <1>8, <2>1 DEF T!TypeOK
<1>10. Goal(s)' = Goal(n) /\ Base(s)' = Base(n) /\ Worth(s)' = Worth(n)
  BY <1>5 DEF Goal, Base, Worth
<1>11. OnTime'
  <2> SUFFICES ASSUME ~late', ~short'
               PROVE  r' = n /\ count' = Base(n) /\ total' = Worth(n)
    BY <1>5, <1>8, <1>10 DEF OnTime
  <2>1. r = s /\ count = Base(s) /\ total = Worth(s) /\ count + sent = Goal(s)
    BY <1>1, <1>3 DEF ShaperInv, OnTime
  <2>2. r' = n
    BY <1>3, <2>1
  <2>3. Worth(s) \in Nat /\ Worth(n) \in Nat /\ Worth(n + 1) \in Nat /\ Worth(n) <= Worth(n + 1) /\ Worth(n + 1) - Worth(n) <= PACKETS
        /\ Worth(n) < TalkerWord
    BY <1>2, <1>4, <2>1, Worths, SharesFit
  <2>4. total' = Worth(n)
    <3>1. total + sent = Worth(n)
      <4>1. Goal(s) - Base(s) = Worth(n) - Worth(s)
        BY <1>4, <2>3, TalkerSizes DEF Goal, Base
      <4>2. sent \in Nat /\ total \in Nat /\ count \in Nat /\ Goal(s) \in Nat
        BY <1>2, Counters, SharesFit
      <4> QED BY <2>1, <2>3, <4>1, <4>2
    <3>2. Worth(n) \in 0 .. TalkerWord - 1
      BY <2>3, TalkerSizes
    <3> QED BY <1>3, <3>1, <3>2, TalkerSizes, SmallMod
  <2>5. count' = Base(n)
    <3>1. CASE n < SLOTS
      <4>1. Goal(s) = Worth(n) /\ Base(n) = Worth(n)
        BY <1>4, <3>1, TalkerSizes DEF Goal, Base
      <4> QED BY <1>7, <2>1, <3>1, <4>1, <1>4, TalkerSizes
    <3>2. CASE n >= SLOTS
      <4>1. s >= SLOTS - 1 /\ Goal(s) = PACKETS
        BY <1>4, <3>2, Goals, TalkerSizes
      <4>2. Left(s, n, r + 1) = Worth(n + 1) - Worth(n)
        <5>1. ~(s < SLOTS - 1) /\ r + 1 = n /\ n + (n - s) = n + 1
          BY <1>4, <2>1, <4>1, TalkerSizes
        <5> QED BY <5>1 DEF Left
      <4>3. Base(n) = PACKETS - (Worth(n + 1) - Worth(n))
        BY <1>4, <3>2, TalkerSizes DEF Base
      <4> DEFINE left == Worth(n + 1) - Worth(n)
      <4>4. left \in Nat /\ left <= PACKETS
        BY <2>3, TalkerSizes
      <4>5. count' = IF PACKETS > left THEN PACKETS - left ELSE 0
        BY <1>7, <2>1, <3>2, <4>1, <4>2, TalkerSizes
      <4> HIDE DEF left
      <4>6. count' = PACKETS - left
        BY <4>4, <4>5, TalkerSizes
      <4> QED BY <4>3, <4>6 DEF left
    <3> QED BY <1>4, <3>1, <3>2, TalkerSizes
  <2> QED BY <2>2, <2>4, <2>5
<1> QED BY <1>5, <1>7, <1>8, <1>9, <1>10, <1>11 DEF ShaperInv

\* The clock is in a later slot.
LEMMA SkipSlotsKeeps == ASSUME ShaperInv, Fits, Fits', T!SkipSlots PROVE ShaperInv'
<1>1. /\ T!Account /\ T!ClockSlot > s /\ s' = T!ClockSlot
      /\ count' = T!CountAt(s, s', (count + sent) % TalkerWord) /\ T!Sleep(0) /\ late' = TRUE
  BY DEF T!SkipSlots
<1>2. T!TypeOK
  BY DEF ShaperInv
<1>3. /\ shaper_pc = "sending" /\ UNCHANGED <<now, sent, short, groups>> /\ elapsed' = now
      /\ r' = r + 1 /\ total' \in 0 .. TalkerWord - 1
  BY <1>1, Accounted
<1> PICK n : n = now \div WIDTH
  OBVIOUS
<1>4. n \in Nat /\ n * WIDTH <= now
  <2> DEFINE rest == now % WIDTH
  <2>1. now \in Nat /\ WIDTH \in Nat \ {0}
    BY <1>2, Counters, TalkerSizes
  <2>2. n \in Int /\ rest \in 0 .. WIDTH - 1 /\ now = WIDTH * n + rest
    BY <2>1, ModParts
  <2> HIDE DEF rest
  <2>3. n >= 0
    BY <2>1, DivGrows
  <2>4. n * WIDTH <= now
    BY <2>1, <2>2, Z3
  <2> QED BY <2>2, <2>3, <2>4
<1>5. s' = n /\ s <= n
  BY <1>1, <1>2, <1>4, Counters DEF T!ClockSlot
<1>6. count' = T!CountAt(s, n, (count + sent) % TalkerWord)
  BY <1>1, <1>5
<1>7. n + 1 < TalkerWord /\ count' \in 0 .. TalkerWord - 1 /\ count' <= Goal(n) /\ n * WIDTH \in Nat
  BY <1>1, <1>4, <1>5, <1>6, BeginsSlot
<1>8. shaper_pc' = "sleeping" /\ wake' = now
  BY <1>1 DEF T!Sleep
<1>9. T!TypeOK'
  <2>1. r' \in 0 .. TalkerWord - 1 /\ elapsed' \in 0 .. now' /\ n \in 0 .. TalkerWord - 1 /\ wake' \in Nat
    BY <1>2, <1>3, <1>4, <1>7, <1>8, SharesFit, Counters, TalkerSizes
  <2> QED BY <1>1, <1>2, <1>3, <1>5, <1>7, <1>8, <2>1 DEF T!TypeOK
<1>10. Goal(s)' = Goal(n)
  BY <1>5 DEF Goal
<1>11. OnTime'
  BY <1>1 DEF OnTime
<1>12. n * WIDTH <= wake' + 3
  <2> DEFINE k == n * WIDTH
  <2>1. k \in Nat /\ k <= now /\ now \in Nat
    BY <1>2, <1>4, <1>7, Counters
  <2> HIDE DEF k
  <2>2. k <= now + 3
    BY <2>1
  <2> QED BY <1>8, <2>2 DEF k
<1> QED BY <1>5, <1>7, <1>8, <1>9, <1>10, <1>11, <1>12 DEF ShaperInv

\* The sleep is over.
LEMMA WakeUpKeeps == ASSUME ShaperInv, T!WakeUp PROVE ShaperInv'
<1>1. /\ shaper_pc = "sleeping" /\ now >= wake /\ shaper_pc' \in {"ready", "done"}
      /\ UNCHANGED <<now, s, r, count, sent, total, elapsed, wake, late, short, groups>>
  BY DEF T!WakeUp
<1>2. T!TypeOK
  BY DEF ShaperInv
<1>3. T!TypeOK'
  BY <1>1, <1>2 DEF T!TypeOK
<1>4. Goal(s)' = Goal(s) /\ OnTime'
  BY <1>1 DEF Goal, OnTime, Base, Worth, ShaperInv
<1>5. s * WIDTH <= now + 3
  <2> DEFINE k == s * WIDTH
  <2>1. k \in Int
    BY <1>2, Counters, TalkerSizes, Z3
  <2>2. k <= wake + 3 /\ wake \in Nat /\ now \in Nat
    BY <1>1, <1>2, Counters DEF ShaperInv
  <2> HIDE DEF k
  <2>3. k <= now + 3
    BY <1>1, <2>1, <2>2
  <2> QED BY <2>3 DEF k
<1> QED BY <1>1, <1>3, <1>4, <1>5 DEF ShaperInv

\* A step of another part, or none.
LEMMA StillKeeps == ASSUME ShaperInv, UNCHANGED shaperVars PROVE ShaperInv'
<1>1. UNCHANGED <<now, shaper_pc, s, r, count, sent, total, elapsed, wake, late, short, groups>>
  BY DEF shaperVars
<1>2. T!TypeOK'
  BY <1>1 DEF ShaperInv, T!TypeOK
<1>3. Goal(s)' = Goal(s) /\ OnTime'
  BY <1>1 DEF Goal, OnTime, Base, Worth, ShaperInv
<1> QED BY <1>1, <1>2, <1>3 DEF ShaperInv

-----------------------------------------------------------------------------
(* UdpTalker: the rate *)

\* The slots that have left the window in slot x.
Over(x) == IF x + 1 <= SLOTS THEN 0 ELSE x + 1 - SLOTS

\* Slots that share the packets of the window evenly are worth as much each.
LEMMA EvenWorth ==
  ASSUME PACKETS % SLOTS = 0
  PROVE  /\ Per \in Nat /\ PACKETS = Per * SLOTS
         /\ \A x \in Nat : Worth(x) = Per * x
<1>1. Per \in Nat /\ PACKETS = SLOTS * Per + 0
  <2>1. Per \in Int /\ PACKETS = SLOTS * Per + (PACKETS % SLOTS)
    BY TalkerSizes, ModParts DEF Per
  <2>2. Per >= 0
    BY TalkerSizes, DivGrows DEF Per
  <2> QED BY <2>1, <2>2
<1>2. PACKETS = Per * SLOTS
  BY <1>1, TalkerSizes, Z3
<1>3. ASSUME NEW x \in Nat
      PROVE  Worth(x) = Per * x
  <2> DEFINE a == PACKETS * x  q == Per * x
  <2>1. a \in Int /\ q \in Int /\ a = SLOTS * q + 0
    BY <1>1, TalkerSizes, Z3
  <2>2. 0 \in 0 .. SLOTS - 1
    BY TalkerSizes
  <2> HIDE DEF a, q
  <2>3. a \div SLOTS = q
    BY <2>1, <2>2, TalkerSizes, ModUnique
  <2> QED BY <2>3 DEF a, q, Worth
<1> QED BY <1>1, <1>2, <1>3

\* A remainder is not more than what is divided.
LEMMA ModLess ==
  ASSUME NEW a \in Nat, NEW W \in Nat \ {0}
  PROVE  a % W <= a
<1> DEFINE q == a \div W  rem == a % W
<1>1. q \in Int /\ rem \in 0 .. W - 1 /\ a = W * q + rem
  BY ModParts
<1>2. q >= 0
  BY DivGrows
<1> HIDE DEF q, rem
<1>3. rem <= a
  BY <1>1, <1>2, Z3
<1> QED BY <1>3 DEF rem

\* A new slot: what left the window are the packets of the slots that are over.
LEMMA RateAtSlot ==
  ASSUME PACKETS % SLOTS = 0, ShaperInv, RateInv, Fits, Fits', T!Account, NEW n \in Nat, s' = n, s < n,
         count' = T!CountAt(s, n, (count + sent) % TalkerWord)
  PROVE  RateInv'
<1>1. T!TypeOK /\ s \in Nat /\ r \in Nat /\ total \in Nat /\ count \in Nat /\ sent \in Nat
  BY Counters DEF ShaperInv
<1>2. total' = (total + sent) % TalkerWord /\ total' \in Nat
  BY Accounted, TalkerSizes
<1>3. total' <= total + sent
  <2> DEFINE all == total + sent
  <2>1. all \in Nat
    BY <1>1
  <2> HIDE DEF all
  <2>2. all % TalkerWord <= all
    BY <2>1, TalkerSizes, ModLess
  <2> QED BY <1>2, <2>2 DEF all
<1> DEFINE c == count + sent
           left == Left(s, n, r + 1)
<1>4. /\ count' = IF n >= SLOTS /\ c >= PACKETS THEN IF c > left THEN c - left ELSE 0 ELSE c
      /\ n >= SLOTS => left \in Nat
      /\ count' \in Nat
  <2>1. s <= n
    BY <1>1
  <2>2. /\ count' = IF n >= SLOTS /\ c >= PACKETS THEN IF c > left THEN c - left ELSE 0 ELSE c
        /\ n >= SLOTS => left \in Nat
        /\ count' \in 0 .. TalkerWord - 1
    BY <2>1, BeginsSlot
  <2> QED BY <2>2, TalkerSizes
<1>5. Per \in Nat /\ PACKETS = Per * SLOTS /\ \A x \in Nat : Worth(x) = Per * x
  BY EvenWorth
<1> DEFINE was == Per * Over(s)
           is == Per * Over(n)
<1>6. Over(s) \in Nat /\ Over(n) \in Nat /\ Over(s) <= Over(n)
  BY <1>1, TalkerSizes DEF Over
<1>7. was \in Nat /\ is \in Nat /\ was <= is
  BY <1>5, <1>6, Z3
<1>8. total' <= c + was /\ c \in Nat
  <2>1. total <= count + was
    BY DEF RateInv, Over
  <2> HIDE DEF was
  <2> QED BY <1>1, <1>2, <1>3, <1>7, <2>1
<1>9. n >= SLOTS => was + left = is
  <2> SUFFICES ASSUME n >= SLOTS PROVE was + left = is
    OBVIOUS
  <2> DEFINE from == IF s < SLOTS - 1 THEN SLOTS - 1 ELSE s
             gone == n - from
             y == r + 1
             z == y + gone
  <2>1. gone \in Nat /\ y \in Nat /\ z \in Nat /\ Over(s) + gone = Over(n)
    BY <1>1, TalkerSizes DEF Over
  <2>2. left = Worth(z) - Worth(y)
    BY DEF Left
  <2> HIDE DEF from, gone, y
  <2>3. left = Per * z - Per * y
    BY <1>5, <2>1, <2>2
  <2> HIDE DEF left
  <2>4. left = Per * gone
    BY <1>5, <2>1, <2>3, Z3
  <2> HIDE DEF z
  <2>5. Per * Over(s) + Per * gone = Per * Over(n)
    BY <1>5, <1>6, <2>1, Z3
  <2> QED BY <2>4, <2>5
<1> HIDE DEF was, is, c, left
<1>10. total' <= count' + is
  BY <1>2, <1>4, <1>7, <1>8, <1>9
<1>11. is = Per * (IF s' + 1 <= SLOTS THEN 0 ELSE s' + 1 - SLOTS)
  BY DEF is, Over
<1> QED BY <1>10, <1>11 DEF RateInv, Per

\* Every step keeps to the rate.
LEMMA RateKeeps ==
  ASSUME PACKETS % SLOTS = 0, ShaperInv, RateInv, Fits, Fits', T!Next
  PROVE  RateInv'
<1>1. T!TypeOK
  BY DEF ShaperInv
<1>2. CASE UNCHANGED <<s, count, total>>
  BY <1>2 DEF RateInv, Per
<1>3. CASE T!Resend
  <2>1. T!Account /\ UNCHANGED s /\ count' = (count + sent) % TalkerWord
    BY <1>3 DEF T!Resend
  <2>2. total' = (total + sent) % TalkerWord /\ count' = count + sent
    BY <2>1, Accounted
  <2>3. total \in Nat /\ sent \in Nat /\ count \in Nat /\ s \in Nat
    BY <1>1, Counters
  <2> DEFINE all == total + sent
  <2>4. all \in Nat
    BY <2>3
  <2>5. all % TalkerWord <= all /\ all % TalkerWord \in Nat
    <3> HIDE DEF all
    <3> QED BY <2>4, TalkerSizes, ModLess, ModParts
  <2> DEFINE was == Per * Over(s)
  <2>6. was \in Nat
    <3>1. Over(s) \in Nat
      BY <2>3, TalkerSizes DEF Over
    <3> QED BY <3>1, EvenWorth, Z3
  <2>7. total <= count + was
    BY DEF RateInv, Over
  <2> HIDE DEF was
  <2>8. total' <= count' + was
    BY <2>2, <2>3, <2>5, <2>6, <2>7
  <2> QED BY <2>1, <2>8 DEF RateInv, Over, was, Per
<1>4. CASE T!NextSlot
  <2> PICK n : n = s + 1
    OBVIOUS
  <2>1. n \in Nat /\ s < n /\ n \in 0 .. TalkerWord - 1
    BY <1>1, SharesFit, Counters, TalkerSizes
  <2>2. s' = n
    BY <1>4, <2>1, TalkerSizes, SmallMod DEF T!NextSlot
  <2>3. T!Account /\ count' = T!CountAt(s, n, (count + sent) % TalkerWord)
    BY <1>4, <2>2 DEF T!NextSlot
  <2> QED BY <2>1, <2>2, <2>3, RateAtSlot
<1>5. CASE T!SkipSlots
  <2> PICK n : n = T!ClockSlot
    OBVIOUS
  <2>1. s' = n /\ n > s /\ T!Account /\ count' = T!CountAt(s, n, (count + sent) % TalkerWord)
    BY <1>5 DEF T!SkipSlots
  <2>2. n \in Nat
    BY <1>1, Counters, TalkerSizes, DivGrows DEF T!ClockSlot
  <2>3. s < n
    BY <1>1, <2>1, <2>2, Counters
  <2> QED BY <2>1, <2>2, <2>3, RateAtSlot
<1> QED BY <1>2, <1>3, <1>4, <1>5 DEF T!Next, T!Thread, T!Tick, T!SendGroup, T!WakeUp, T!Finished, T!vars

-----------------------------------------------------------------------------
(* UdpTalker: what follows *)

\* The invariants hold at the start.
LEMMA ShaperBegins == ASSUME T!Init PROVE ShaperInv /\ RateInv
<1>1. /\ now = 0 /\ shaper_pc = "ready" /\ s = 0 /\ r = 0 /\ count = 0 /\ sent = 0 /\ total = 0
      /\ elapsed = 0 /\ wake = 0 /\ late = FALSE /\ short = FALSE /\ groups = 0
  BY DEF T!Init
<1>2. T!TypeOK
  <2>1. /\ 0 \in Nat /\ 0 \in 0 .. 0 /\ 0 \in 0 .. TalkerWord - 1 /\ 0 \in 0 .. HalfWord - 1 /\ 0 \in 0 .. MaxGroups
    BY TalkerSizes
  <2> QED BY <1>1, <2>1 DEF T!TypeOK
<1>3. Goal(0) \in Nat /\ 0 * WIDTH = 0
  BY Goals, TalkerSizes, Z3
<1>4. Base(0) = 0 /\ Worth(0) = 0
  BY Worths, TalkerSizes DEF Base
<1>5. ShaperInv
  BY <1>1, <1>2, <1>3, <1>4 DEF ShaperInv, OnTime
<1>6. Per * 0 = 0
  <2>1. Per \in Int
    BY TalkerSizes DEF Per
  <2> QED BY <2>1, Z3
<1>7. RateInv
  BY <1>1, <1>6, TalkerSizes DEF RateInv
<1> QED BY <1>5, <1>7

\* Every step keeps the invariant.
LEMMA ShaperKeeps ==
  ASSUME ShaperInv, Fits, Fits', [PNext]_<<which, vars, casVars, shaperVars, loadVars>>
  PROVE  ShaperInv'
<1>1. CASE T!Next
  BY <1>1, TickKeeps, SendGroupKeeps, ResendKeeps, NextSlotKeeps, SkipSlotsKeeps, WakeUpKeeps, StillKeeps
     DEF T!Next, T!Thread, T!Finished, T!vars, shaperVars
<1>2. CASE UNCHANGED shaperVars
  BY <1>2, StillKeeps
<1> QED BY <1>1, <1>2 DEF PNext

\* Every step of the programs keeps to the rate.
LEMMA RateStays ==
  ASSUME PACKETS % SLOTS = 0, ShaperInv, RateInv, Fits, Fits',
         [PNext]_<<which, vars, casVars, shaperVars, loadVars>>
  PROVE  RateInv'
<1>1. CASE UNCHANGED shaperVars
  BY <1>1 DEF shaperVars, RateInv, Per
<1> QED BY <1>1, RateKeeps DEF PNext

\* What the invariant says of the slots.
LEMMA SlotsOf == ASSUME ShaperInv, Fits PROVE SlotsKept
<1>1. T!TypeOK /\ T!Expected(s) = Goal(s)
  BY SharesFit DEF ShaperInv
<1>2. T!WindowNotExceeded
  BY <1>1 DEF ShaperInv, T!WindowNotExceeded
<1>3. T!BurstBound
  <2> SUFFICES ASSUME shaper_pc = "ready" PROVE s * WIDTH - now <= 3
    BY DEF T!BurstBound
  <2> DEFINE k == s * WIDTH
  <2>1. k \in Int
    BY <1>1, Counters, TalkerSizes, Z3
  <2>2. k <= now + 3 /\ now \in Nat
    BY <1>1, Counters DEF ShaperInv
  <2> HIDE DEF k
  <2>3. k - now <= 3
    BY <2>1, <2>2
  <2> QED BY <2>3 DEF k
<1>4. T!OnTimeSendsAll
  <2> SUFFICES ASSUME ~late, ~short PROVE total = T!PacketsExpected
    BY DEF T!OnTimeSendsAll
  <2>1. r = s /\ total = Worth(s)
    BY DEF ShaperInv, OnTime
  <2>2. T!Share(s) = Worth(s)
    BY <1>1, <2>1, SharesFit
  <2> QED BY <2>1, <2>2 DEF T!PacketsExpected, T!Share
<1> QED BY <1>2, <1>3, <1>4 DEF SlotsKept, T!SlotsKept

\* What it says of the rate.
LEMMA RateOf == ASSUME PACKETS % SLOTS = 0, ShaperInv, RateInv PROVE RateKept
<1>1. T!TypeOK /\ count <= Goal(s)
  BY DEF ShaperInv
<1>2. s \in Nat /\ total \in Nat /\ count \in Nat
  BY <1>1, Counters
<1>3. Per \in Nat /\ PACKETS = Per * SLOTS /\ \A x \in Nat : Worth(x) = Per * x
  BY EvenWorth
<1> DEFINE k == s + 1
           gone == Over(s)
<1>4. k \in Nat /\ gone \in Nat /\ (k < SLOTS + 1 => gone = 0) /\ (k >= SLOTS => gone = k - SLOTS)
  BY <1>2, TalkerSizes DEF Over
<1>5. Worth(k) = Per * k /\ Goal(s) = IF k - 1 < SLOTS THEN Per * k ELSE Per * SLOTS
  <2>1. Worth(k) = Per * k
    BY <1>3, <1>4
  <2> QED BY <1>2, <1>3, <2>1 DEF Goal
<1>6. total <= count + Per * gone
  BY DEF RateInv, Over
<1> HIDE DEF k, gone
<1>7. Goal(s) + Per * gone = Per * k
  <2>1. CASE k - 1 < SLOTS
    <3>1. gone = 0 /\ Goal(s) = Per * k
      BY <1>4, <1>5, <2>1, TalkerSizes
    <3> QED BY <1>3, <1>4, <3>1, Z3
  <2>2. CASE k - 1 >= SLOTS
    <3>1. gone = k - SLOTS /\ Goal(s) = Per * SLOTS
      BY <1>4, <1>5, <2>2, TalkerSizes
    <3> QED BY <1>3, <1>4, <3>1, TalkerSizes, Z3
  <2> QED BY <1>4, <2>1, <2>2, TalkerSizes
<1>8. total <= Worth(k)
  <2> DEFINE x == Per * gone  w == Per * k
  <2>1. x \in Int /\ w \in Int
    BY <1>3, <1>4, Z3
  <2>2. Goal(s) + x = w /\ total <= count + x /\ Worth(k) = w /\ count <= Goal(s) /\ Goal(s) \in Nat
    BY <1>1, <1>2, <1>5, <1>6, <1>7, Goals
  <2> HIDE DEF x, w
  <2> QED BY <1>2, <2>1, <2>2
<1> QED BY <1>8 DEF Worth, RateKept, T!RateKept, k

\* UdpTalker: for any slots, widths and numbers of packets, whatever the clock, short
\* sends and late wake-ups do, the window never has more than its slot is to reach,
\* no packet leaves more than 3 ms before its slot, and a run that is on time sends
\* all it says; as long as the products fit a word and the groups 16 bits.
THEOREM ShaperKeepsSlots == PSpec /\ []Fits => []SlotsKept
<1>1. PInit => ShaperInv
  BY ShaperBegins DEF PInit
<1>2. ShaperInv /\ Fits /\ Fits' /\ [PNext]_<<which, vars, casVars, shaperVars, loadVars>> => ShaperInv'
  BY ShaperKeeps
<1>3. ShaperInv /\ Fits => SlotsKept
  BY SlotsOf
<1> QED BY <1>1, <1>2, <1>3, PTL DEF PSpec

\* UdpTalker: when the slots share the packets evenly, no more leave than the slots so
\* far are worth; as long as the products fit a word and the groups 16 bits.
THEOREM ShaperKeepsRate ==
  ASSUME PACKETS % SLOTS = 0
  PROVE  PSpec /\ []Fits => []RateKept
<1>1. PInit => ShaperInv /\ RateInv
  BY ShaperBegins DEF PInit
<1>2. ShaperInv /\ Fits /\ Fits' /\ [PNext]_<<which, vars, casVars, shaperVars, loadVars>> => ShaperInv'
  BY ShaperKeeps
<1>3. ShaperInv /\ RateInv /\ Fits /\ Fits' /\ [PNext]_<<which, vars, casVars, shaperVars, loadVars>> => RateInv'
  BY RateStays
<1>4. ShaperInv /\ RateInv => RateKept
  BY RateOf
<1> QED BY <1>1, <1>2, <1>3, <1>4, PTL DEF PSpec

================================================================================
