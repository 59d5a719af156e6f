---------------------------- MODULE ResmgrDevice ----------------------------
(***************************************************************************)
(* The single-threaded resource manager of qnx/lib/libosqnx:               *)
(* device::run(), exit() and wait() of resmgr/device.h and device.cpp.     *)
(*                                                                         *)
(* One thread calls run(); other threads call exit(), or a signal or a     *)
(* message handler calls it on the thread of run(); further threads wait   *)
(* for the dispatch loop to start.  running_event_ is used through its     *)
(* promise (EventLatch, which SyncEvent implements): a flag.               *)
(*                                                                         *)
(* The dispatch library of QNX is external.  dispatch_unblock() queues a   *)
(* pulse that makes one dispatch_block() return; a message of a client may *)
(* arrive at any time, and none has to.                                    *)
(*                                                                         *)
(* `missed' and `badUnblock' are history variables, read by no guard.      *)
(***************************************************************************)
EXTENDS Naturals, FiniteSets

CONSTANTS Callers,  \* calls of exit(); the code each passes is its name
          Waiters,  \* threads that call wait()
          NPaths,   \* paths of the driver
          MaxRuns,  \* bound: how often run() is called
          NULL

ASSUME NPathsAssumption == NPaths \in Nat \ {0}
ASSUME MaxRunsAssumption == MaxRuns \in Nat
ASSUME NullAssumption == NULL \notin Callers

Paths == 1 .. NPaths

VARIABLES
  pc,        \* the thread of run()
  runs,      \* calls of run() so far
  chid,      \* a channel no dispatch handle owns yet
  dpp,       \* dpp_ is not null
  ctp,       \* ctp_ is not null
  context,   \* the dispatch context is allocated
  attached,  \* paths in the name space
  ids,       \* number of ids the failing or ending run has to detach
  failing,   \* the run ends with an error
  running,   \* running_
  exitRequested,  \* exit_requested_
  exitCode,       \* exit_code_, NULL for its initial 0
  event,     \* the flag of running_event_
  pulses,    \* unblock pulses queued
  result,    \* of the last run(): "none", "error" or <<"code", exitCode>>
  cpc,       \* the callers of exit()
  carg,      \* the ctp_ a caller passes to dispatch_unblock()
  wpc,       \* the waiters
  missed,      \* exit() skipped the pulse although run() had begun its set-up
  badUnblock   \* dispatch_unblock() was given no valid context

runVars == <<pc, runs, chid, dpp, ctp, context, attached, ids, failing, result>>
exitVars == <<exitRequested, exitCode, cpc, carg>>
history == <<missed, badUnblock>>
vars == <<runVars, running, exitVars, event, pulses, wpc, history>>

SetupPcs == {"driver", "channel", "attach", "context", "running"}
LoopPcs == {"event", "block", "handler", "test"}
FreePcs == {"freeRunning", "freeContext", "freeCtp", "freeIds", "freeDpp", "fail"}
Pcs == SetupPcs \cup LoopPcs \cup FreePcs \cup {"idle", "code", "abort"}
CallerPcs == {"start", "request", "isRunning", "load", "unblock", "done"}

TypeOK ==
  /\ pc \in Pcs /\ runs \in 0 .. MaxRuns
  /\ {chid, dpp, ctp, context, failing, running, exitRequested, event} \subseteq BOOLEAN
  /\ {missed, badUnblock} \subseteq BOOLEAN
  /\ attached \in SUBSET Paths /\ ids \in 0 .. NPaths
  /\ exitCode \in Callers \cup {NULL}
  /\ pulses \in Nat
  /\ result \in {<<"none">>, <<"error">>} \cup {<<"code", c>> : c \in Callers \cup {NULL}}
  /\ cpc \in [Callers -> CallerPcs]
  /\ carg \in [Callers -> BOOLEAN]
  /\ wpc \in [Waiters -> {"start", "wait", "done"}]

Init ==
  /\ pc = "idle" /\ runs = 0
  /\ chid = FALSE /\ dpp = FALSE /\ ctp = FALSE /\ context = FALSE
  /\ attached = {} /\ ids = 0 /\ failing = FALSE /\ result = <<"none">>
  /\ running = FALSE /\ exitRequested = FALSE /\ exitCode = NULL
  /\ event = FALSE /\ pulses = 0
  /\ cpc = [c \in Callers |-> "start"]
  /\ carg = [c \in Callers |-> FALSE]
  /\ wpc = [w \in Waiters |-> "start"]
  /\ missed = FALSE /\ badUnblock = FALSE

Others == <<exitVars, pulses, wpc, history>>

-----------------------------------------------------------------------------
(* device<TDriver>::run() and details::device::run_internal() *)

\* is_exited(): wait_set() and return exit_code(), or go on.
RunBegin ==
  /\ pc = "idle" /\ runs < MaxRuns
  /\ runs' = runs + 1
  /\ IF exitRequested THEN pc' = "code" /\ event' = TRUE
                      ELSE pc' = "driver" /\ UNCHANGED event
  /\ UNCHANGED <<chid, dpp, ctp, context, attached, ids, failing, result, running, Others>>

\* The driver is not ready or has no paths, or ChannelCreate() fails.
RunNotReady ==
  /\ pc = "driver"
  /\ event' = TRUE
  /\ result' = <<"error">>
  /\ pc' = "idle"
  /\ UNCHANGED <<runs, chid, dpp, ctp, context, attached, ids, failing, running, Others>>

RunChannel ==
  /\ pc = "driver" /\ ~dpp
  /\ chid' = TRUE
  /\ pc' = "channel"
  /\ UNCHANGED <<runs, dpp, ctp, context, attached, ids, failing, result, running, event, Others>>

\* dispatch_create_channel(): the handle takes over the channel ...
RunDispatch ==
  /\ pc = "channel"
  /\ dpp' = TRUE /\ chid' = FALSE
  /\ pc' = "attach"
  /\ UNCHANGED <<runs, ctp, context, attached, ids, failing, result, running, event, Others>>

\* Mutant of RunNoDispatch: the channel is not destroyed.
RunNoDispatchLeak ==
  /\ pc = "channel"
  /\ event' = TRUE
  /\ result' = <<"error">>
  /\ pc' = "idle"
  /\ UNCHANGED <<runs, chid, dpp, ctp, context, attached, ids, failing, running, Others>>

\* ... or fails, and ChannelDestroy(chid).
RunNoDispatch ==
  /\ pc = "channel"
  /\ chid' = FALSE
  /\ event' = TRUE
  /\ result' = <<"error">>
  /\ pc' = "idle"
  /\ UNCHANGED <<runs, dpp, ctp, context, attached, ids, failing, running, Others>>

\* resmgr_attach() of the next path.
RunAttach ==
  /\ pc = "attach"
  /\ ids' = ids + 1
  /\ attached' = attached \cup {ids'}
  /\ pc' = IF ids' = NPaths THEN "context" ELSE "attach"
  /\ UNCHANGED <<runs, chid, dpp, ctp, context, failing, result, running, event, Others>>

\* resmgr_attach() fails: free(ids, i).
RunNoAttach ==
  /\ pc = "attach"
  /\ failing' = TRUE
  /\ pc' = "freeRunning"
  /\ UNCHANGED <<runs, chid, dpp, ctp, context, attached, ids, result, running, event, Others>>

RunContext ==
  /\ pc = "context"
  /\ ctp' = TRUE /\ context' = TRUE
  /\ pc' = "running"
  /\ UNCHANGED <<runs, chid, dpp, attached, ids, failing, result, running, event, Others>>

\* dispatch_context_alloc() fails: free(ids, path_count).
RunNoContext ==
  /\ pc = "context"
  /\ failing' = TRUE
  /\ pc' = "freeRunning"
  /\ UNCHANGED <<runs, chid, dpp, ctp, context, attached, ids, result, running, event, Others>>

RunSetRunning ==
  /\ pc = "running"
  /\ running' = TRUE
  /\ pc' = "event"
  /\ UNCHANGED <<runs, chid, dpp, ctp, context, attached, ids, failing, result, event, Others>>

RunWaitSet ==
  /\ pc = "event"
  /\ event' = TRUE
  /\ pc' = "block"
  /\ UNCHANGED <<runs, chid, dpp, ctp, context, attached, ids, failing, result, running, Others>>

Loop(next) ==
  /\ pc' = next
  /\ UNCHANGED <<runs, chid, dpp, ctp, context, attached, ids, failing, result, running,
                 event, exitVars, wpc, history>>

\* dispatch_block() returns with a pulse of dispatch_unblock(), ...
BlockPulse == pc = "block" /\ pulses > 0 /\ pulses' = pulses - 1 /\ Loop("handler")

\* ... with a message of a client, with EINTR, ...
BlockMessage == pc = "block" /\ Loop("handler") /\ UNCHANGED pulses
BlockInterrupted == pc = "block" /\ Loop("test") /\ UNCHANGED pulses

\* ... or with another error, and the process aborts.
BlockError == pc = "block" /\ Loop("abort") /\ UNCHANGED pulses

Handler == pc = "handler" /\ Loop("test") /\ UNCHANGED pulses

TestExit ==
  /\ pc = "test"
  /\ Loop(IF exitRequested THEN "freeRunning" ELSE "block")
  /\ UNCHANGED pulses

-----------------------------------------------------------------------------
(* device::free() *)

FreeRunning ==
  /\ pc = "freeRunning"
  /\ running' = FALSE
  /\ pc' = IF ctp THEN "freeContext" ELSE "freeIds"
  /\ UNCHANGED <<runs, chid, dpp, ctp, context, attached, ids, failing, result, event, Others>>

FreeContext ==
  /\ pc = "freeContext"
  /\ context' = FALSE
  /\ pc' = "freeCtp"
  /\ UNCHANGED <<runs, chid, dpp, ctp, attached, ids, failing, result, running, event, Others>>

FreeCtp ==
  /\ pc = "freeCtp"
  /\ ctp' = FALSE
  /\ pc' = "freeIds"
  /\ UNCHANGED <<runs, chid, dpp, context, attached, ids, failing, result, running, event, Others>>

\* resmgr_detach() of each id, in a loop no other thread observes.
FreeIds ==
  /\ pc = "freeIds"
  /\ attached' = attached \ (1 .. ids)
  /\ ids' = 0
  /\ pc' = "freeDpp"
  /\ UNCHANGED <<runs, chid, dpp, ctp, context, failing, result, running, event, Others>>

\* dispatch_destroy(): the handle, its channel and the pulses in it are gone.
FreeDpp ==
  /\ pc = "freeDpp"
  /\ dpp' = FALSE
  /\ pulses' = 0
  /\ pc' = IF failing THEN "fail" ELSE "code"
  /\ UNCHANGED <<runs, chid, ctp, context, attached, ids, failing, result, running, event,
                 exitVars, wpc, history>>

\* Mutant of RunFail: wait_set() is forgotten.
RunFailSilent ==
  /\ pc = "fail"
  /\ failing' = FALSE
  /\ result' = <<"error">>
  /\ pc' = "idle"
  /\ UNCHANGED <<runs, chid, dpp, ctp, context, attached, ids, running, event, Others>>

\* wait_set(); return unexpected.
RunFail ==
  /\ pc = "fail"
  /\ failing' = FALSE
  /\ event' = TRUE
  /\ result' = <<"error">>
  /\ pc' = "idle"
  /\ UNCHANGED <<runs, chid, dpp, ctp, context, attached, ids, running, Others>>

\* return exit_code_;
RunReturn ==
  /\ pc = "code"
  /\ result' = <<"code", exitCode>>
  /\ pc' = "idle"
  /\ UNCHANGED <<runs, chid, dpp, ctp, context, attached, ids, failing, running, event, Others>>

-----------------------------------------------------------------------------
(* device::exit(code) *)

\* An aborted process takes no step.
CallerAt(c, label) == pc # "abort" /\ cpc[c] = label
CallerGoto(c, label) == cpc' = [cpc EXCEPT ![c] = label]
RunSide == <<runVars, running, event, wpc>>

ExitCode(c) ==
  /\ CallerAt(c, "start")
  /\ exitCode' = c
  /\ CallerGoto(c, "request")
  /\ UNCHANGED <<RunSide, pulses, exitRequested, carg, history>>

\* Mutant of ExitRequest: a plain store of exit_requested_.
ExitRequestStore(c) ==
  /\ CallerAt(c, "request")
  /\ exitRequested' = TRUE
  /\ CallerGoto(c, "isRunning")
  /\ UNCHANGED <<RunSide, pulses, exitCode, carg, history>>

\* compare_exchange_strong(exit_requested_): only the first call goes on.
ExitRequest(c) ==
  /\ CallerAt(c, "request")
  /\ exitRequested' = TRUE
  /\ CallerGoto(c, IF exitRequested THEN "done" ELSE "isRunning")
  /\ UNCHANGED <<RunSide, pulses, exitCode, carg, history>>

\* Mutant of ExitIsRunning: no dispatch_unblock().
ExitIsRunningMute(c) ==
  /\ CallerAt(c, "isRunning")
  /\ CallerGoto(c, "done")
  /\ missed' = (missed \/ pc \in SetupPcs)
  /\ UNCHANGED <<RunSide, pulses, exitRequested, exitCode, carg, badUnblock>>

ExitIsRunning(c) ==
  /\ CallerAt(c, "isRunning")
  /\ CallerGoto(c, IF running THEN "load" ELSE "done")
  /\ missed' = (missed \/ pc \in SetupPcs)
  /\ UNCHANGED <<RunSide, pulses, exitRequested, exitCode, carg, badUnblock>>

\* The argument ctp_ is loaded, and then dispatch_unblock() is called with it.
ExitLoad(c) ==
  /\ CallerAt(c, "load")
  /\ carg' = [carg EXCEPT ![c] = ctp]
  /\ CallerGoto(c, "unblock")
  /\ UNCHANGED <<RunSide, pulses, exitRequested, exitCode, history>>

ExitUnblock(c) ==
  /\ CallerAt(c, "unblock")
  /\ pulses' = IF carg[c] /\ context THEN pulses + 1 ELSE pulses
  /\ badUnblock' = (badUnblock \/ ~(carg[c] /\ context))
  /\ CallerGoto(c, "done")
  /\ UNCHANGED <<RunSide, exitRequested, exitCode, carg, missed>>

\* exit() called by a signal handler, or by a message handler, on the thread
\* of run(): that thread takes no other step meanwhile, and a dispatch_block()
\* it is in returns with EINTR.
ExitOnRunThread(c) ==
  /\ pc # "idle" /\ CallerAt(c, "start")
  /\ exitCode' = c
  /\ exitRequested' = TRUE
  /\ CallerGoto(c, "done")
  /\ LET pulse == ~exitRequested /\ running
     IN /\ pulses' = IF pulse /\ ctp /\ context THEN pulses + 1 ELSE pulses
        /\ badUnblock' = (badUnblock \/ (pulse /\ ~(ctp /\ context)))
  /\ missed' = (missed \/ (~exitRequested /\ ~running /\ pc \in SetupPcs))
  /\ pc' = IF pc = "block" THEN "test" ELSE pc
  /\ UNCHANGED <<runs, chid, dpp, ctp, context, attached, ids, failing, result, running,
                 event, wpc, carg>>

-----------------------------------------------------------------------------
(* device::wait() *)

WaitBegin(w) ==
  /\ pc # "abort" /\ wpc[w] = "start"
  /\ wpc' = [wpc EXCEPT ![w] = "wait"]
  /\ UNCHANGED <<runVars, running, exitVars, event, pulses, history>>

WaitEnd(w) ==
  /\ pc # "abort" /\ wpc[w] = "wait" /\ event
  /\ wpc' = [wpc EXCEPT ![w] = "done"]
  /\ UNCHANGED <<runVars, running, exitVars, event, pulses, history>>

-----------------------------------------------------------------------------

Setup ==
  \/ RunNotReady \/ RunChannel \/ RunDispatch \/ RunNoDispatch \/ RunAttach
  \/ RunNoAttach \/ RunContext \/ RunNoContext \/ RunSetRunning \/ RunWaitSet

Free == FreeRunning \/ FreeContext \/ FreeCtp \/ FreeIds \/ FreeDpp

Run == Setup \/ BlockPulse \/ Handler \/ TestExit \/ Free \/ RunFail \/ RunReturn

Exit(c) ==
  ExitCode(c) \/ ExitRequest(c) \/ ExitIsRunning(c) \/ ExitLoad(c) \/ ExitUnblock(c)

Next ==
  \/ RunBegin \/ Run \/ BlockMessage \/ BlockInterrupted \/ BlockError
  \/ \E c \in Callers : Exit(c) \/ ExitOnRunThread(c)
  \/ \E w \in Waiters : WaitBegin(w) \/ WaitEnd(w)

Spec == Init /\ [][Next]_vars

\* run() is called and its thread is scheduled, and so are the others; no
\* client has to send a message, no signal has to come.
Fairness ==
  /\ WF_vars(RunBegin) /\ WF_vars(Run)
  /\ \A c \in Callers : WF_vars(Exit(c) /\ cpc[c] # "start")
  /\ \A w \in Waiters : WF_vars(WaitEnd(w))

FairSpec == Spec /\ Fairness

-----------------------------------------------------------------------------
(* Properties *)

\* When run() has returned, by whatever path, nothing it created is left: no
\* channel, dispatch handle or context, and no path in the name space.
ResourcesReleased ==
  pc = "idle" => ~chid /\ ~dpp /\ ~ctp /\ ~context /\ attached = {} /\ ~running

\* While running_ is set the context is valid and every path is attached:
\* what exit() relies on when it sees the flag.
RunningIsServing == running => dpp /\ ctp /\ context /\ attached = Paths

\* run() returns the code of some call of exit(), although exit_code_ is a
\* plain int and later calls overwrite it while run() reads it.
CodeWasGiven ==
  result[1] = "code" => \E c \in Callers : result = <<"code", c>> /\ cpc[c] # "start"

\* Of all calls of exit(), at most one gets to unblock the dispatch loop, and
\* at most one pulse is ever queued.
UnblockedOnce ==
  /\ Cardinality({c \in Callers : cpc[c] \in {"isRunning", "load", "unblock"}}) <= 1
  /\ pulses <= 1

\* All three: a call of exit() that sees running_ finds what it relies on, is the
\* only one to unblock the loop, and run() returns a code that was given to it.
ExitsOnce == RunningIsServing /\ CodeWasGiven /\ UnblockedOnce

\* Nobody waits forever: each way through run() sets the event.
WaitersReleased == \A w \in Waiters : (wpc[w] = "wait") ~> (wpc[w] = "done" \/ pc = "abort")

Exited == pc \in {"idle", "abort"}

\* Once exit() has requested it, run() returns, without the help of any
\* message, provided the call did not fall in the set-up of run().
ExitEndsRunUnlessMissed == exitRequested ~> (Exited \/ missed)

\* "Set an exit code, exiting the dispatch loop from run()." (device.h:98)
ExitEndsRun == exitRequested ~> Exited

\* "If it does get here, then `running_` must be true, which means that the
\* `ctp_` must be valid." (device.cpp:151)
UnblockIsValid == ~badUnblock
=============================================================================
