--------------------------- MODULE CoreReadWrite ---------------------------
(***************************************************************************)
(* The read/write latency benchmark of core_latency: corerw_benchmark.     *)
(* Two threads on two cores spin on each other's word: "pong" answers what *)
(* it sees in ping_ with its opposite in pong_, "ping" waits for that and  *)
(* copies it to ping_.  main() calls init() once and run() for every pair  *)
(* of cores, one pair after the other.                                     *)
(*                                                                         *)
(* A load and a store are a step each; the loads acquire and the stores    *)
(* release, and each word has one writer.                                  *)
(***************************************************************************)
EXTENDS Integers

CONSTANTS
  ITERATIONS,  \* iterations_: exchanges in a sample
  SAMPLES,     \* samples_
  RUNS,        \* pairs of cores main() measures
  Word         \* 2^32: the values of a std::uint32_t

\* make_options() accepts 1 to 60000 of each.
ASSUME ReadWriteAssumption ==
  /\ {ITERATIONS, SAMPLES, RUNS} \subseteq Nat \ {0}
  /\ Word \in Nat /\ ITERATIONS * SAMPLES < Word

Threads == {"ping", "pong"}

PING == 0
PONG == 1

VARIABLES
  runs,   \* calls of run() that returned
  flag,   \* the sync_event of this call is set
  ping,   \* ping_
  pong,   \* pong_
  pc,     \* where each thread stands
  v,      \* its local v
  i       \* exchanges it has done in this run

vars == <<runs, flag, ping, pong, pc, v, i>>

\* Mutant of Total: the loops end one exchange early.
TotalShort(t) == SAMPLES * ITERATIONS - 1

\* The exchanges of each thread: samples_ times iterations_ in one, and
\* iterations_ * samples_ in std::uint32_t in the other.
Total(t) == IF t = "ping" THEN SAMPLES * ITERATIONS
                          ELSE (ITERATIONS * SAMPLES) % Word

-----------------------------------------------------------------------------

\* The locals of a new call of run().
NewThreads ==
  /\ flag' = FALSE
  /\ pc' = [t \in Threads |-> "wait"]
  /\ v' = [t \in Threads |-> IF t = "ping" THEN PONG ELSE PING]
  /\ i' = [t \in Threads |-> 0]

\* init(), and the first call of run().
Init ==
  /\ runs = 0 /\ flag = FALSE
  /\ ping = PING /\ pong = PING
  /\ pc = [t \in Threads |-> "wait"]
  /\ v = [t \in Threads |-> IF t = "ping" THEN PONG ELSE PING]
  /\ i = [t \in Threads |-> 0]

\* flag.set(), when both threads are created
Set ==
  /\ ~flag
  /\ flag' = TRUE
  /\ UNCHANGED <<runs, ping, pong, pc, v, i>>

\* flag.wait(), and the first test of the loop
Begin(t) ==
  /\ pc[t] = "wait" /\ flag
  /\ pc' = [pc EXCEPT ![t] = IF i[t] < Total(t) THEN "load" ELSE "done"]
  /\ UNCHANGED <<runs, flag, ping, pong, v, i>>

\* Mutant of Load: a look instead of a spin.
LoadOnce(t) ==
  /\ pc[t] = "load"
  /\ pc' = [pc EXCEPT ![t] = "store"]
  /\ UNCHANGED <<runs, flag, ping, pong, v, i>>

\* The spin ends: the other thread's word is what this one waits for.
Load(t) ==
  /\ pc[t] = "load"
  /\ (IF t = "ping" THEN pong ELSE ping) = v[t]
  /\ pc' = [pc EXCEPT ![t] = "store"]
  /\ UNCHANGED <<runs, flag, ping, pong, v, i>>

\* What both threads do after their store.
Advance(t) ==
  /\ pc[t] = "store"
  /\ v' = [v EXCEPT ![t] = 1 - @]
  /\ i' = [i EXCEPT ![t] = @ + 1]
  /\ pc' = [pc EXCEPT ![t] = IF i[t] + 1 < Total(t) THEN "load" ELSE "done"]
  /\ UNCHANGED <<runs, flag>>

StorePing == Advance("ping") /\ ping' = v["ping"] /\ UNCHANGED pong

StorePong == Advance("pong") /\ pong' = 1 - v["pong"] /\ UNCHANGED ping

\* join() of both threads; main() calls run() again, but not init().
Join ==
  /\ \A t \in Threads : pc[t] = "done"
  /\ runs < RUNS
  /\ runs' = runs + 1
  /\ NewThreads
  /\ UNCHANGED <<ping, pong>>

\* main() returns.
Finished == runs = RUNS /\ UNCHANGED vars

Step(t) == Begin(t) \/ Load(t)

Next ==
  \/ runs < RUNS /\ Set
  \/ \E t \in Threads : Step(t)
  \/ StorePing \/ StorePong
  \/ Join
  \/ Finished

\* Each thread has a core of its own, so it runs.
Fairness ==
  /\ WF_vars(runs < RUNS /\ Set) /\ WF_vars(Join)
  /\ WF_vars(Step("ping") \/ StorePing) /\ WF_vars(Step("pong") \/ StorePong)

Spec == Init /\ [][Next]_vars /\ Fairness

-----------------------------------------------------------------------------

\* "Both must be PING, else there may be race conditions": when run() begins,
\* for the second time as for the first.  That is so when the exchanges of a
\* run are even in number.
StartsAtPing ==
  ~flag => ping = PING /\ pong = PING

\* The threads hand over in turn, pong first, in every run: no exchange is
\* skipped and none is counted twice, so a sample is ITERATIONS round trips.
Turns == INSTANCE Alternation
           WITH Length <- SAMPLES * ITERATIONS,
                first <- i["pong"], second <- i["ping"]
TakesTurns == Turns!Spec

\* Every run() returns, and so does main().
Completes == <>(runs = RUNS)

=============================================================================
