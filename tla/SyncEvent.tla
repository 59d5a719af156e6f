----------------------------- MODULE SyncEvent -----------------------------
(***************************************************************************)
(* class sync_event of qnx/lib/libubench/include/ubench/thread.h: a flag   *)
(* guarded by a mutex, and a condition variable its waiters block on.      *)
(*                                                                         *)
(* The steps are those of the mutex and of the condition variable: a       *)
(* waiter releases the mutex and joins the wait set in one step, may be    *)
(* woken spuriously, and takes the mutex again before it looks at the      *)
(* flag; set() notifies after it has released the mutex.                   *)
(***************************************************************************)
CONSTANTS Threads, NULL

ASSUME NullAssumption == NULL \notin Threads

VARIABLES
  flag,     \* flag_
  mutex,    \* holder of mutex_
  waitset,  \* threads blocked on cond_var_
  pc,
  call,     \* the wait a thread is in: "none", "wait" or "wait_for"
  result    \* what the thread's last wait returned

vars == <<flag, mutex, waitset, pc, call, result>>

WaitPcs == {"enter", "check", "blocked", "woken", "timeout", "lastCheck"}
HoldingPcs == {"setFlag", "check", "lastCheck", "clearFlag"}
Pcs == WaitPcs \cup HoldingPcs \cup {"idle", "set", "notify", "clear"}

TypeOK ==
  /\ flag \in BOOLEAN
  /\ mutex \in Threads \cup {NULL}
  /\ waitset \in SUBSET Threads
  /\ pc \in [Threads -> Pcs]
  /\ call \in [Threads -> {"none", "wait", "wait_for"}]
  /\ result \in [Threads -> BOOLEAN]

Init ==
  /\ flag = FALSE
  /\ mutex = NULL
  /\ waitset = {}
  /\ pc = [t \in Threads |-> "idle"]
  /\ call = [t \in Threads |-> "none"]
  /\ result = [t \in Threads |-> FALSE]

Goto(t, label) == pc' = [pc EXCEPT ![t] = label]

Lock(t, from, to) ==
  /\ pc[t] = from /\ mutex = NULL
  /\ mutex' = t
  /\ Goto(t, to)
  /\ UNCHANGED <<flag, waitset, call, result>>

-----------------------------------------------------------------------------
(* set() *)

SetCall(t) ==
  /\ pc[t] = "idle"
  /\ Goto(t, "set")
  /\ UNCHANGED <<flag, mutex, waitset, call, result>>

SetLock(t) == Lock(t, "set", "setFlag")

\* flag_ = true, and the end of the lock_guard's scope.
SetFlag(t) ==
  /\ pc[t] = "setFlag"
  /\ flag' = TRUE
  /\ mutex' = NULL
  /\ Goto(t, "notify")
  /\ UNCHANGED <<waitset, call, result>>

\* Mutant of SetNotify: notify_one().
SetNotifyOne(t) ==
  /\ pc[t] = "notify"
  /\ \E woken \in {{}} \cup {{u} : u \in waitset} :
       /\ woken = {} => waitset = {}
       /\ waitset' = waitset \ woken
       /\ pc' = [u \in Threads |-> IF u = t THEN "idle"
                                   ELSE IF u \in woken THEN "woken" ELSE pc[u]]
  /\ UNCHANGED <<flag, mutex, call, result>>

\* notify_all()
SetNotify(t) ==
  /\ pc[t] = "notify"
  /\ waitset' = {}
  /\ pc' = [u \in Threads |-> IF u = t THEN "idle"
                              ELSE IF u \in waitset THEN "woken" ELSE pc[u]]
  /\ UNCHANGED <<flag, mutex, call, result>>

-----------------------------------------------------------------------------
(* clear().  "Clearing an event while an object is waiting on it has         *)
(* undefined behaviour": its callers make sure that nobody waits.            *)

Nobody == \A u \in Threads : call[u] = "none"

ClearCall(t) ==
  /\ pc[t] = "idle" /\ Nobody
  /\ Goto(t, "clear")
  /\ UNCHANGED <<flag, mutex, waitset, call, result>>

ClearLock(t) == Lock(t, "clear", "clearFlag")

ClearFlag(t) ==
  /\ pc[t] = "clearFlag"
  /\ flag' = FALSE
  /\ mutex' = NULL
  /\ Goto(t, "idle")
  /\ UNCHANGED <<waitset, call, result>>

Clearing == \E u \in Threads : pc[u] \in {"clear", "clearFlag"}

-----------------------------------------------------------------------------
(* wait() and wait_for() *)

WaitCall(t, kind) ==
  /\ pc[t] = "idle" /\ ~Clearing
  /\ call' = [call EXCEPT ![t] = kind]
  /\ Goto(t, "enter")
  /\ UNCHANGED <<flag, mutex, waitset, result>>

WaitLock(t) == Lock(t, "enter", "check")

\* Returns with the value of the flag and releases the mutex.
WaitReturn(t) ==
  /\ result' = [result EXCEPT ![t] = flag]
  /\ call' = [call EXCEPT ![t] = "none"]
  /\ mutex' = NULL
  /\ Goto(t, "idle")
  /\ UNCHANGED <<flag, waitset>>

\* The predicate [this] { return flag_; } holds ...
WaitDone(t) == pc[t] = "check" /\ flag /\ WaitReturn(t)

\* ... or the thread gives up the mutex and blocks, in one step.
WaitBlock(t) ==
  /\ pc[t] = "check" /\ ~flag
  /\ waitset' = waitset \cup {t}
  /\ mutex' = NULL
  /\ Goto(t, "blocked")
  /\ UNCHANGED <<flag, call, result>>

WaitSpurious(t) ==
  /\ pc[t] = "blocked"
  /\ waitset' = waitset \ {t}
  /\ Goto(t, "woken")
  /\ UNCHANGED <<flag, mutex, call, result>>

\* Mutant of WaitRelock: a thread that was woken does not test the flag again.
WaitRelockOnce(t) == Lock(t, "woken", "lastCheck")

WaitRelock(t) == Lock(t, "woken", "check")

\* The deadline of wait_for() passes: it looks at the flag a last time.
WaitTimeout(t) ==
  /\ pc[t] = "blocked" /\ call[t] = "wait_for"
  /\ waitset' = waitset \ {t}
  /\ Goto(t, "timeout")
  /\ UNCHANGED <<flag, mutex, call, result>>

WaitTimeoutLock(t) == Lock(t, "timeout", "lastCheck")

WaitLastCheck(t) == pc[t] = "lastCheck" /\ WaitReturn(t)

-----------------------------------------------------------------------------

Locks(t) ==
  SetLock(t) \/ ClearLock(t) \/ WaitLock(t) \/ WaitRelock(t) \/ WaitTimeoutLock(t)

Steps(t) ==
  \/ SetFlag(t) \/ SetNotify(t) \/ ClearFlag(t)
  \/ WaitDone(t) \/ WaitBlock(t) \/ WaitLastCheck(t)

Calls(t) ==
  \/ SetCall(t) \/ ClearCall(t)
  \/ \E kind \in {"wait", "wait_for"} : WaitCall(t, kind)

Next ==
  \E t \in Threads :
    Locks(t) \/ Steps(t) \/ Calls(t) \/ WaitSpurious(t) \/ WaitTimeout(t)

Spec == Init /\ [][Next]_vars

\* A running thread proceeds; a deadline stays past once it has passed, however
\* often the thread is woken and blocks again; and a thread that contends for
\* the mutex again and again gets it.
FairSpec ==
  Spec /\ \A t \in Threads :
            WF_vars(Steps(t)) /\ SF_vars(WaitTimeout(t)) /\ SF_vars(Locks(t))

-----------------------------------------------------------------------------
(* Properties *)

\* No wakeup is lost: when the flag is set and a thread is blocked, a set()
\* that will notify it is still on its way.
NoLostWakeup ==
  flag /\ waitset # {} => \E t \in Threads : pc[t] = "notify"

\* The event is the latch of EventLatch: waits return what the flag says, and
\* no waiter is left behind.
Latch == INSTANCE EventLatch
ImplementsLatch == Latch!Spec
=============================================================================
