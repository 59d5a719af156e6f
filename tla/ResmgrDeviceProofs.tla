------------------------- MODULE ResmgrDeviceProofs -------------------------
(***************************************************************************)
(* The single-threaded resource manager gives back what it took, and calls *)
(* of exit() do what they promise, for every number of callers, waiters,   *)
(* paths and runs.                                                         *)
(*                                                                         *)
(* What run() holds is a function of where it stands and of `failing':     *)
(* Held says which.  That a code is returned only after a call of exit()   *)
(* gave one follows the request backwards: run() reaches its return past   *)
(* exit_requested_, which no call sets before it wrote exit_code_.  That   *)
(* one call at most unblocks the loop rests on the compare and exchange:   *)
(* Gate says that nobody is past it before exit_requested_ is set, and     *)
(* that a queued pulse is the only trace of the call that was.             *)
(***************************************************************************)
EXTENDS ResmgrDevice, FiniteSetTheorems, TLAPS

\* The loop has been left for an exit, or not yet left.
Serving == pc \in LoopPcs \cup {"abort"} \/ (pc = "freeRunning" /\ ~failing)

\* What run() holds, by where it stands.
Held ==
  /\ chid <=> pc = "channel"
  /\ dpp <=> pc \notin {"idle", "driver", "channel", "code", "fail"}
  /\ running <=> Serving
  /\ context <=> Serving \/ pc \in {"running", "freeContext"}
  /\ ctp <=> context \/ pc = "freeCtp"
  /\ attached = 1 .. ids
  /\ ctp \/ pc = "context" => ids = NPaths
  /\ pc = "attach" => ids < NPaths
  /\ ~dpp \/ pc = "freeDpp" => ids = 0
  /\ failing => pc \in {"freeRunning", "freeIds", "freeDpp", "fail"}

\* The callers that have passed the compare and exchange and not yet returned.
Unblocking(c) == cpc[c] \in {"isRunning", "load", "unblock"}

\* At most one caller is ever past it, and at most one pulse comes of it.
Gate ==
  /\ ~exitRequested => pulses = 0 /\ \A c \in Callers : ~Unblocking(c)
  /\ \A c, d \in Callers : Unblocking(c) /\ Unblocking(d) => c = d
  /\ pulses # 0 => pulses = 1 /\ \A c \in Callers : ~Unblocking(c)

\* A request comes after a code, and a return after a request.
Given ==
  /\ exitCode # NULL => cpc[exitCode] # "start"
  /\ \A c \in Callers : cpc[c] # "start" => exitCode # NULL
  /\ exitRequested => exitCode # NULL
  /\ pc = "code" \/ (pc \in FreePcs /\ ~failing) => exitRequested

IInv == TypeOK /\ Held /\ Gate /\ Given /\ CodeWasGiven

-----------------------------------------------------------------------------

LEMMA InitInv == Init => IInv
<1> SUFFICES ASSUME Init PROVE IInv
  OBVIOUS
<1> USE DEF Init
<1>1. TypeOK
  <2>1. pc \in Pcs /\ runs \in 0 .. MaxRuns
    BY MaxRunsAssumption DEF Pcs
  <2>2. attached \in SUBSET Paths /\ ids \in 0 .. NPaths
    BY NPathsAssumption
  <2>3. {chid, dpp, ctp, context, failing, running, exitRequested, event} \subseteq BOOLEAN
    OBVIOUS
  <2>4. {missed, badUnblock} \subseteq BOOLEAN
    OBVIOUS
  <2>5. cpc \in [Callers -> CallerPcs]
    BY DEF CallerPcs
  <2>6. carg \in [Callers -> BOOLEAN] /\ wpc \in [Waiters -> {"start", "wait", "done"}]
    OBVIOUS
  <2>7. QED
    BY <2>1, <2>2, <2>3, <2>4, <2>5, <2>6 DEF TypeOK
<1>2. Held
  BY DEF Held, Serving, LoopPcs
<1>3. Gate
  BY DEF Gate, Unblocking
<1>4. Given
  BY DEF Given, FreePcs
<1>5. CodeWasGiven
  BY DEF CodeWasGiven
<1>6. QED
  BY <1>1, <1>2, <1>3, <1>4, <1>5 DEF IInv

\* The steps of the thread of run() leave the calls of exit() alone.
LEMMA RunInv == IInv /\ (RunBegin \/ Run \/ BlockMessage \/ BlockInterrupted \/ BlockError) => IInv'
<1> SUFFICES ASSUME IInv, RunBegin \/ Run \/ BlockMessage \/ BlockInterrupted \/ BlockError
             PROVE  IInv'
  OBVIOUS
<1> USE DEF RunBegin, Run, Setup, RunNotReady, RunChannel, RunDispatch, RunNoDispatch,
        RunAttach, RunNoAttach, RunContext, RunNoContext, RunSetRunning, RunWaitSet,
        BlockPulse, BlockMessage, BlockInterrupted, BlockError, Handler, TestExit, Loop,
        Free, FreeRunning, FreeContext, FreeCtp, FreeIds, FreeDpp, RunFail, RunReturn, Others,
        exitVars, history
<1>1. TypeOK'
  <2> USE DEF IInv, TypeOK
  <2>1. (pc \in Pcs)' /\ (runs \in 0 .. MaxRuns)'
    BY MaxRunsAssumption DEF Pcs, SetupPcs, LoopPcs, FreePcs
  <2>2. (attached \in SUBSET Paths /\ ids \in 0 .. NPaths)'
    BY NPathsAssumption DEF Held, Paths
  <2>3. ({chid, dpp, ctp, context, failing, running, exitRequested, event} \subseteq BOOLEAN)'
    OBVIOUS
  <2>4. ({missed, badUnblock} \subseteq BOOLEAN)'
    OBVIOUS
  <2>5. (exitCode \in Callers \cup {NULL} /\ pulses \in Nat)'
    OBVIOUS
  <2>6. (result \in {<<"none">>, <<"error">>} \cup {<<"code", c>> : c \in Callers \cup {NULL}})'
    OBVIOUS
  <2>7. (cpc \in [Callers -> CallerPcs] /\ carg \in [Callers -> BOOLEAN])'
    OBVIOUS
  <2>8. (wpc \in [Waiters -> {"start", "wait", "done"}])'
    OBVIOUS
  <2>9. QED
    BY <2>1, <2>2, <2>3, <2>4, <2>5, <2>6, <2>7, <2>8
<1>2. Held'
  <2> USE DEF IInv, TypeOK, Held, Serving, Pcs, SetupPcs, LoopPcs, FreePcs
  <2>1. (chid <=> pc = "channel")'
    OBVIOUS
  <2>2. (dpp <=> pc \notin {"idle", "driver", "channel", "code", "fail"})'
    OBVIOUS
  <2>3. (running <=> Serving)'
    OBVIOUS
  <2>4. (context <=> Serving \/ pc \in {"running", "freeContext"})'
    OBVIOUS
  <2>5. (ctp <=> context \/ pc = "freeCtp")'
    OBVIOUS
  <2>6. (attached = 1 .. ids)'
    <3>1. attached = 1 .. ids /\ ids \in Nat
      BY NPathsAssumption
    <3>2. CASE RunAttach
      <4>1. (1 .. ids) \cup {ids + 1} = 1 .. (ids + 1)
        BY <3>1
      <4>2. QED
        BY <3>1, <3>2, <4>1
    <3>3. CASE FreeIds
      <4>1. (1 .. ids) \ (1 .. ids) = 1 .. 0
        BY <3>1
      <4>2. QED
        BY <3>1, <3>3, <4>1
    <3>4. CASE UNCHANGED <<attached, ids>>
      BY <3>1, <3>4
    <3>5. QED
      BY <3>2, <3>3, <3>4
  <2>7. (ctp \/ pc = "context" => ids = NPaths)'
    BY NPathsAssumption
  <2>8. (pc = "attach" => ids < NPaths)'
    BY NPathsAssumption
  <2>9. (~dpp \/ pc = "freeDpp" => ids = 0)'
    OBVIOUS
  <2>10. (failing => pc \in {"freeRunning", "freeIds", "freeDpp", "fail"})'
    OBVIOUS
  <2>11. QED
    BY <2>1, <2>2, <2>3, <2>4, <2>5, <2>6, <2>7, <2>8, <2>9, <2>10
<1>3. Gate'
  BY DEF IInv, TypeOK, Gate, Unblocking
<1>4. Given'
  BY DEF IInv, TypeOK, Held, Given, FreePcs
<1>5. CodeWasGiven'
  BY DEF IInv, TypeOK, Given, CodeWasGiven, FreePcs
<1>6. QED
  BY <1>1, <1>2, <1>3, <1>4, <1>5 DEF IInv

\* A call of exit() leaves what run() holds alone.
LEMMA ExitInv == ASSUME NEW c \in Callers, IInv, Exit(c) PROVE IInv'
<1> USE DEF Exit, ExitCode, ExitRequest, ExitIsRunning, ExitLoad, ExitUnblock, CallerAt,
        CallerGoto, RunSide, runVars, history
<1>0. cpc \in [Callers -> CallerPcs]
  BY DEF IInv, TypeOK
<1>1. TypeOK'
  <2> USE DEF IInv, TypeOK
  <2>1. /\ (pc \in Pcs /\ runs \in 0 .. MaxRuns /\ attached \in SUBSET Paths /\ ids \in 0 .. NPaths)'
        /\ (result \in {<<"none">>, <<"error">>} \cup {<<"code", d>> : d \in Callers \cup {NULL}})'
        /\ (wpc \in [Waiters -> {"start", "wait", "done"}])'
    OBVIOUS
  <2>2. ({chid, dpp, ctp, context, failing, running, exitRequested, event} \subseteq BOOLEAN)'
    OBVIOUS
  <2>3. ({missed, badUnblock} \subseteq BOOLEAN)'
    OBVIOUS
  <2>4. (exitCode \in Callers \cup {NULL} /\ pulses \in Nat)'
    OBVIOUS
  <2>5. (cpc \in [Callers -> CallerPcs])'
    BY DEF CallerPcs
  <2>6. (carg \in [Callers -> BOOLEAN])'
    OBVIOUS
  <2>7. QED
    BY <2>1, <2>2, <2>3, <2>4, <2>5, <2>6
<1>2. Held'
  BY DEF IInv, Held, Serving
<1>3. Gate'
  BY <1>0 DEF IInv, TypeOK, Gate, Unblocking, CallerPcs
<1>4. Given'
  BY <1>0, NullAssumption DEF IInv, TypeOK, Given, CallerPcs
<1>5. CodeWasGiven'
  BY <1>0 DEF IInv, TypeOK, CodeWasGiven, CallerPcs
<1>6. QED
  BY <1>1, <1>2, <1>3, <1>4, <1>5 DEF IInv

LEMMA ExitOnRunThreadInv == ASSUME NEW c \in Callers, IInv, ExitOnRunThread(c) PROVE IInv'
<1> USE DEF ExitOnRunThread, CallerAt, CallerGoto
<1>0. cpc \in [Callers -> CallerPcs]
  BY DEF IInv, TypeOK
<1>1. TypeOK'
  BY DEF IInv, TypeOK, CallerPcs, Pcs, SetupPcs, LoopPcs, FreePcs
<1>2. Held'
  BY DEF IInv, Held, Serving, LoopPcs
<1>3. Gate'
  BY <1>0 DEF IInv, TypeOK, Gate, Unblocking, CallerPcs
<1>4. Given'
  BY <1>0, NullAssumption DEF IInv, TypeOK, Given, CallerPcs, FreePcs
<1>5. CodeWasGiven'
  BY <1>0 DEF IInv, TypeOK, CodeWasGiven, CallerPcs
<1>6. QED
  BY <1>1, <1>2, <1>3, <1>4, <1>5 DEF IInv

\* A waiter changes nothing but its own place.
LEMMA WaitInv == ASSUME NEW w \in Waiters, IInv, WaitBegin(w) \/ WaitEnd(w) PROVE IInv'
<1> USE DEF WaitBegin, WaitEnd, runVars, exitVars, history
<1>1. TypeOK'
  BY DEF IInv, TypeOK
<1>2. Held' /\ Gate' /\ Given' /\ CodeWasGiven'
  BY DEF IInv, Held, Serving, Gate, Unblocking, Given, CodeWasGiven
<1>3. QED
  BY <1>1, <1>2 DEF IInv

LEMMA StepInv == IInv /\ [Next]_vars => IInv'
<1> SUFFICES ASSUME IInv, [Next]_vars PROVE IInv'
  OBVIOUS
<1>1. CASE RunBegin \/ Run \/ BlockMessage \/ BlockInterrupted \/ BlockError
  BY <1>1, RunInv
<1>2. ASSUME NEW c \in Callers, Exit(c) PROVE IInv'
  BY <1>2, ExitInv
<1>3. ASSUME NEW c \in Callers, ExitOnRunThread(c) PROVE IInv'
  BY <1>3, ExitOnRunThreadInv
<1>4. ASSUME NEW w \in Waiters, WaitBegin(w) \/ WaitEnd(w) PROVE IInv'
  BY <1>4, WaitInv
<1>5. CASE UNCHANGED vars
  BY <1>5 DEF IInv, TypeOK, Held, Serving, Gate, Unblocking, Given, CodeWasGiven, vars, runVars,
     exitVars, history
<1>6. QED
  BY <1>1, <1>2, <1>3, <1>4, <1>5 DEF Next

LEMMA AlwaysInv == Spec => []IInv
<1>1. QED
  BY InitInv, StepInv, PTL DEF Spec

-----------------------------------------------------------------------------
(* What follows *)

\* A set all of whose members are equal has at most one.
LEMMA AtMostOne == ASSUME NEW S, \A c, d \in S : c = d PROVE Cardinality(S) <= 1
<1>1. CASE S = {}
  BY <1>1, FS_EmptySet
<1>2. ASSUME NEW c \in S PROVE Cardinality(S) <= 1
  <2>1. S = {c}
    OBVIOUS
  <2>2. Cardinality({c}) = 1
    BY FS_Singleton
  <2>3. Cardinality(S) = 1
    BY <2>1, <2>2
  <2>4. QED
    BY <2>3
<1>3. QED
  BY <1>1, <1>2

\* device.h, device.cpp: whichever way run() returned, free() and the error
\* paths gave back the channel, the handle, the context and every path.
THEOREM Released == Spec => []ResourcesReleased
<1>1. IInv => ResourcesReleased
  <2> SUFFICES ASSUME IInv, pc = "idle"
               PROVE  ~chid /\ ~dpp /\ ~ctp /\ ~context /\ attached = {} /\ ~running
    BY DEF ResourcesReleased
  <2>1. ids = 0 /\ attached = 1 .. ids
    BY DEF IInv, Held
  <2>2. QED
    BY <2>1 DEF IInv, Held, Serving, LoopPcs
<1>2. QED
  BY <1>1, AlwaysInv, PTL

\* device.cpp, exit(): a call that sees running_ finds the context and every
\* path, at most one call unblocks the loop, with one pulse, and run() returns
\* a code that some call gave, although any call may overwrite it.
THEOREM ExitOnce == Spec => []ExitsOnce
<1>1. IInv => RunningIsServing
  BY DEF IInv, Held, Serving, RunningIsServing, LoopPcs, Paths
<1>2. IInv => UnblockedOnce
  <2> SUFFICES ASSUME IInv PROVE UnblockedOnce
    OBVIOUS
  <2> DEFINE S == {c \in Callers : cpc[c] \in {"isRunning", "load", "unblock"}}
  <2>1. \A c, d \in S : c = d
    BY DEF IInv, Gate, Unblocking
  <2>2. Cardinality(S) <= 1
    <3> HIDE DEF S
    <3>1. QED
      BY <2>1, AtMostOne
  <2>3. pulses <= 1
    BY DEF IInv, TypeOK, Gate
  <2>4. QED
    BY <2>2, <2>3 DEF UnblockedOnce
<1>3. IInv => ExitsOnce
  BY <1>1, <1>2 DEF IInv, ExitsOnce
<1>4. QED
  BY <1>3, AlwaysInv, PTL

=============================================================================
