------------------------------- MODULE CoreCas -------------------------------
(****************************************************************************)
(* The compare-and-swap benchmark of core_latency: two threads that are     *)
(* pinned to two cores swap one word, flag_, to and fro.  A swap is one     *)
(* atomic step in C++, on x86 and with the extension LSE of arm64; without  *)
(* it an arm64 core loads the word and sets its monitor, and its store      *)
(* succeeds only while nobody has written the word since.                   *)
(****************************************************************************)
EXTENDS Naturals

CONSTANTS
    ITERATIONS, \* iterations_: exchanges in a sample
    SAMPLES,    \* samples_
    RUNS        \* pairs of cores main() measures

Threads == {"ping", "pong"}
PING == 0
PONG == 1

VARIABLES
    ctype,      \* ctype_
    runs,       \* calls of run() that returned
    event,      \* the sync_event of this call is set
    token,      \* flag_
    at,         \* where each thread stands
    monitor,    \* the threads whose core has the word exclusively
    i           \* exchanges each has done in this run

vars == <<ctype, runs, event, token, at, monitor, i>>

-----------------------------------------------------------------------------
(* Which benchmarks there are, by the processor the program was built for *)

Builds == {"i386", "x86_64", "aarch64", "aarch64+lse", "other"}
Compiled(build) ==
    CASE build = "i386" -> [cas |-> "x86"]
      [] build = "x86_64" -> [cas |-> "x86_64"]
      [] build = "aarch64" -> [llsc |-> "arm64"]
      [] build = "aarch64+lse" -> [llsc |-> "arm64", lse |-> "arm64_lse"]
      [] build = "other" -> <<>>
supported(build) == {<<"default", "cpp">>} \cup {<<n, Compiled(build)[n]>> : n \in DOMAIN Compiled(build)}
\* The types of the name given to -b; none for one that is not supported.
mode(build, benchmark) == {entry[2] : entry \in {e \in supported(build) : e[1] = benchmark}}

-----------------------------------------------------------------------------

NewThreads == [at |-> [t \in Threads |-> "wait"], i |-> [t \in Threads |-> 0]]

\* init() sets the word, and fails for LSE on a processor that has none; main()
\* then returns.
Init ==
    /\ \E build \in Builds, benchmark \in {"default", "cas", "llsc", "lse"} :
          ctype \in mode(build, benchmark)
    /\ token = PING
    /\ runs \in IF ctype = "arm64_lse" THEN {0, RUNS} ELSE {0}
    /\ event = FALSE /\ at = NewThreads.at /\ i = NewThreads.i /\ monitor = {}

Set ==
    /\ runs < RUNS /\ ~event /\ event' = TRUE
    /\ UNCHANGED <<ctype, runs, token, at, monitor, i>>

\* flag.wait(), then the first pass of the loop.
Begin(t) ==
    /\ at[t] = "wait" /\ event
    /\ at' = [at EXCEPT ![t] = "load"]
    /\ UNCHANGED <<ctype, runs, event, token, monitor, i>>

Compare(t) == IF t = "ping" THEN PING ELSE PONG
Swap(t) == IF t = "ping" THEN PONG ELSE PING

\* The word is stored and the exchange counted: samples_ times iterations_ of
\* them in both threads.
Exchange(t) ==
    /\ token' = Swap(t)
    /\ i' = [i EXCEPT ![t] = @ + 1]
    /\ at' = [at EXCEPT ![t] = IF i[t] + 1 = SAMPLES * ITERATIONS THEN "done" ELSE "load"]
    /\ UNCHANGED <<ctype, runs, event>>

\* The swap in one step; one that fails is tried again.
CompareAndSwap(t) ==
    /\ ctype # "arm64" /\ at[t] = "load" /\ token = Compare(t)
    /\ Exchange(t) /\ UNCHANGED monitor

\* Mutant of LoadExclusive: the jump back is missing.
LoadUnchecked(t) ==
    /\ ctype = "arm64" /\ at[t] = "load"
    /\ monitor' = monitor \cup {t}
    /\ at' = [at EXCEPT ![t] = "store"]
    /\ UNCHANGED <<ctype, runs, event, token, i>>

\* ldxr, and the jump back when the word is not the one to be swapped.
LoadExclusive(t) ==
    /\ ctype = "arm64" /\ at[t] = "load"
    /\ monitor' = monitor \cup {t}
    /\ at' = [at EXCEPT ![t] = IF token = Compare(t) THEN "store" ELSE "load"]
    /\ UNCHANGED <<ctype, runs, event, token, i>>

\* stxr: a store clears the other core's monitor.
StoreExclusive(t) ==
    /\ at[t] = "store" /\ t \in monitor
    /\ Exchange(t) /\ monitor' = {}
\* It fails without the monitor, or for a reason of the processor's own.
StoreFails(t) ==
    /\ at[t] = "store"
    /\ monitor' = monitor \ {t}
    /\ at' = [at EXCEPT ![t] = "load"]
    /\ UNCHANGED <<ctype, runs, event, token, i>>

\* join() of both threads; main() calls run() for the next pair, but not init().
Join ==
    /\ \A t \in Threads : at[t] = "done"
    /\ runs < RUNS /\ runs' = runs + 1
    /\ event' = FALSE /\ at' = NewThreads.at /\ i' = NewThreads.i /\ monitor' = {}
    /\ UNCHANGED <<ctype, token>>

Finished == runs = RUNS /\ UNCHANGED vars

Step(t) == Begin(t) \/ CompareAndSwap(t) \/ LoadExclusive(t) \/ StoreExclusive(t) \/ StoreFails(t)

Next == Set \/ (\E t \in Threads : Step(t)) \/ Join \/ Finished

\* Each thread has a core of its own, so it runs; and a store that is tried
\* again and again does not fail for ever.
Fairness ==
    /\ WF_vars(Set) /\ WF_vars(Join)
    /\ \A t \in Threads : WF_vars(Step(t)) /\ SF_vars(StoreExclusive(t))

Spec == Init /\ [][Next]_vars /\ Fairness

-----------------------------------------------------------------------------
(* Properties *)

\* The threads swap in turn, ping first, in every run and with every type of
\* swap, although only the first run follows init().
Turns == INSTANCE Alternation
           WITH Length <- SAMPLES * ITERATIONS, first <- i["ping"], second <- i["pong"]
SwapsTakeTurns == Turns!Spec

\* Every run() returns, and so does main().
Completes == <>(runs = RUNS)

=============================================================================
