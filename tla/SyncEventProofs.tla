-------------------------- MODULE SyncEventProofs --------------------------
(* Theorems about SyncEvent for every set of threads.                        *)
EXTENDS SyncEvent, TLAPS

\* The mutex is held by the thread inside a critical section; a thread is in
\* a wait exactly while its call says so; only a wait with a deadline times
\* out; and nobody waits while the flag is being cleared.
Discipline ==
  /\ waitset = {t \in Threads : pc[t] = "blocked"}
  /\ \A t \in Threads :
       /\ pc[t] \in HoldingPcs <=> mutex = t
       /\ pc[t] \in WaitPcs <=> call[t] # "none"
       /\ pc[t] \in {"timeout", "lastCheck"} => call[t] = "wait_for"
  /\ Clearing => Nobody

Inv == TypeOK /\ Discipline /\ NoLostWakeup

LEMMA InvInit == Init => Inv
  BY NullAssumption
     DEF Init, Inv, TypeOK, Discipline, NoLostWakeup, Pcs, WaitPcs, HoldingPcs,
         Clearing, Nobody

LEMMA InvStep == Inv /\ [Next]_vars => Inv'
<1> SUFFICES ASSUME Inv, [Next]_vars PROVE Inv'
  OBVIOUS
<1> USE NullAssumption
    DEF Inv, TypeOK, Discipline, NoLostWakeup, Pcs, WaitPcs, HoldingPcs, Clearing,
        Nobody, Goto
<1>1. ASSUME NEW t \in Threads, Locks(t) PROVE Inv'
  BY <1>1 DEF Locks, Lock, SetLock, ClearLock, WaitLock, WaitRelock, WaitTimeoutLock
<1>2. ASSUME NEW t \in Threads, SetCall(t) \/ ClearCall(t) PROVE Inv'
  BY <1>2 DEF SetCall, ClearCall
<1>3. ASSUME NEW t \in Threads, SetFlag(t) PROVE Inv'
  BY <1>3 DEF SetFlag
<1>4. ASSUME NEW t \in Threads, SetNotify(t) PROVE Inv'
  BY <1>4 DEF SetNotify
<1>5. ASSUME NEW t \in Threads, ClearFlag(t) PROVE Inv'
  BY <1>5 DEF ClearFlag
<1>6. ASSUME NEW t \in Threads, NEW kind \in {"wait", "wait_for"}, WaitCall(t, kind)
      PROVE  Inv'
  BY <1>6 DEF WaitCall
<1>7. ASSUME NEW t \in Threads, WaitDone(t) \/ WaitLastCheck(t) PROVE Inv'
  BY <1>7 DEF WaitDone, WaitLastCheck, WaitReturn
<1>8. ASSUME NEW t \in Threads, WaitBlock(t) PROVE Inv'
  BY <1>8 DEF WaitBlock
<1>9. ASSUME NEW t \in Threads, WaitSpurious(t) \/ WaitTimeout(t) PROVE Inv'
  BY <1>9 DEF WaitSpurious, WaitTimeout
<1>10. ASSUME UNCHANGED vars PROVE Inv'
  BY <1>10 DEF vars
<1> QED
  BY <1>1, <1>2, <1>3, <1>4, <1>5, <1>6, <1>7, <1>8, <1>9, <1>10
     DEF Next, Steps, Calls

\* A thread never stays blocked with the flag set and no notification coming,
\* whatever the number of threads that set and wait.
THEOREM NoWakeupLost == Spec => []NoLostWakeup
<1>1. Inv => NoLostWakeup
  BY DEF Inv
<1> QED
  BY <1>1, InvInit, InvStep, PTL DEF Spec

\* Every step of the event is a step of the latch, or none: wait() returns
\* only when the flag is set and wait_for() returns the value of the flag.
THEOREM EventIsLatch == Spec => Latch!Init /\ [][Latch!Next]_(Latch!vars)
<1>1. Init => Latch!Init
  BY DEF Init, Latch!Init
<1>2. Inv /\ [Next]_vars => [Latch!Next]_(Latch!vars)
  <2> SUFFICES ASSUME Inv, [Next]_vars PROVE [Latch!Next]_(Latch!vars)
    OBVIOUS
  <2> USE DEF Latch!Next, Latch!vars
  <2>1. ASSUME NEW t \in Threads, Locks(t) PROVE UNCHANGED Latch!vars
    BY <2>1 DEF Locks, Lock, SetLock, ClearLock, WaitLock, WaitRelock, WaitTimeoutLock
  <2>2. ASSUME NEW t \in Threads, SetCall(t) \/ ClearCall(t) \/ SetNotify(t)
                                   \/ WaitBlock(t) \/ WaitSpurious(t) \/ WaitTimeout(t)
        PROVE  UNCHANGED Latch!vars
    BY <2>2 DEF SetCall, ClearCall, SetNotify, WaitBlock, WaitSpurious, WaitTimeout
  <2>3. ASSUME NEW t \in Threads, SetFlag(t) PROVE Latch!Set
    BY <2>3 DEF SetFlag, Latch!Set
  <2>4. ASSUME NEW t \in Threads, ClearFlag(t) PROVE Latch!Clear
    BY <2>4 DEF ClearFlag, Latch!Clear, Inv, Discipline, Clearing, Nobody
  <2>5. ASSUME NEW t \in Threads, NEW kind \in {"wait", "wait_for"}, WaitCall(t, kind)
        PROVE  Latch!Enter(t)
    BY <2>5 DEF WaitCall, Latch!Enter, Inv, TypeOK, Discipline, WaitPcs
  <2>6. ASSUME NEW t \in Threads, WaitDone(t) PROVE Latch!Leave(t)
    BY <2>6 DEF WaitDone, WaitReturn, Latch!Leave, Inv, TypeOK, Discipline, WaitPcs
  <2>7. ASSUME NEW t \in Threads, WaitLastCheck(t) PROVE Latch!Leave(t)
    BY <2>7 DEF WaitLastCheck, WaitReturn, Latch!Leave, Inv, Discipline
  <2> QED
    BY <2>1, <2>2, <2>3, <2>4, <2>5, <2>6, <2>7 DEF Next, Steps, Calls, vars
<1> QED
  BY <1>1, <1>2, InvInit, InvStep, PTL DEF Spec
=============================================================================
