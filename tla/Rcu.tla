-------------------------------- MODULE Rcu --------------------------------
(***************************************************************************)
(* The user-space read-copy-update container of                            *)
(* qnx/lib/libubench/include/ubench/atomics/rcu.h: class rcu (the root     *)
(* with N preallocated slots and the atomic index of the current one) and  *)
(* class rcu_ptr (the counted handles it gives to readers).                *)
(*                                                                         *)
(* Every access to a shared atomic, and every access to the non-atomic     *)
(* slot_[i].ptr_, is an action of its own, in program order.  Any thread   *)
(* may call read(), update() and the operations of rcu_ptr; one rcu_ptr    *)
(* object is used by one thread at a time, as the class requires.          *)
(*                                                                         *)
(* `live' is the heap: the objects that are allocated.  An address that    *)
(* was freed may be allocated again by a later update().                   *)
(*                                                                         *)
(* `stale' and `seen' are history variables, read by no guard.             *)
(***************************************************************************)
EXTENDS Naturals, FiniteSets

CONSTANTS N,        \* number of slots, template parameter N of rcu
          RefMod,   \* range of the uint32_t counter, 2^32 in the code
          Threads,
          Ptrs,     \* the rcu_ptr objects of the program
          Objects,  \* addresses of heap objects of type T
          NULL

Slots == 0 .. N - 1

ASSUME SlotAssumption == N \in Nat \ {0}
ASSUME PtrsAssumption == IsFiniteSet(Ptrs) /\ IsFiniteSet(Threads)
\* Fewer references than the counter can count: every rcu_ptr, and the root.
ASSUME RefModAssumption == RefMod \in Nat /\ Cardinality(Ptrs) + 1 < RefMod
ASSUME NullAssumption ==
  NULL \notin Slots /\ NULL \notin Objects /\ NULL \notin Threads /\ NULL \notin Ptrs

VARIABLES
  root,      \* "alive", then "destroyed" or "aborted" by ~rcu()
  index,     \* index_
  refcount,  \* slot_[s].refcount_
  slotPtr,   \* slot_[s].ptr_
  mutex,     \* holder of write_mutex_
  live,      \* allocated objects
  ref,       \* rcu_ptr p: the slot of the counter refcount_ points to
  ptr,       \* rcu_ptr p: ptr_
  pc,
  i, rc, old, obj, dest,  \* locals of the call a thread is in
  stale,     \* some read() loaded ptr_ of a slot update() had not filled yet
  seen       \* objects that were current since the thread's read() began

shared == <<root, index, refcount, slotPtr, mutex>>
handles == <<ref, ptr>>
locals == <<i, rc, old, obj, dest>>
history == <<stale, seen>>
vars == <<shared, handles, live, pc, locals, history>>

ReadPcs == {"readIndex", "readRef", "readCas", "readPtr"}
LockedPcs == {"scan", "storeRef", "storePtr", "storeIndex", "freeOld", "deleteOld"}
Pcs == ReadPcs \cup LockedPcs \cup {"idle", "lock", "ptrDelete"}

TypeOK ==
  /\ root \in {"alive", "destroyed", "aborted"}
  /\ index \in Slots
  /\ refcount \in [Slots -> 0 .. RefMod - 1]
  /\ slotPtr \in [Slots -> Objects \cup {NULL}]
  /\ mutex \in Threads \cup {NULL}
  /\ live \in SUBSET Objects
  /\ ref \in [Ptrs -> Slots \cup {NULL}]
  /\ ptr \in [Ptrs -> Objects \cup {NULL}]
  /\ pc \in [Threads -> Pcs]
  /\ i \in [Threads -> Slots]
  /\ rc \in [Threads -> 0 .. RefMod - 1]
  /\ old \in [Threads -> Slots]
  /\ obj \in [Threads -> Objects \cup {NULL}]
  /\ dest \in [Threads -> Ptrs \cup {NULL}]
  /\ stale \in BOOLEAN
  /\ seen \in [Threads -> SUBSET Objects]

\* Arithmetic of the unsigned counter, with its wrap-around.
Inc(n) == IF n = RefMod - 1 THEN 0 ELSE n + 1
Dec(n) == IF n = 0 THEN RefMod - 1 ELSE n - 1

NextSlot(s) == (s + 1) % N

\* The object an update() of thread u is about to make visible.
Filling(u, s) == pc[u] = "storePtr" /\ i[u] = s

Idle(t) == root = "alive" /\ pc[t] = "idle"

\* A rcu_ptr object no call is working on, and one that holds nothing.
Unused(p) == \A t \in Threads : dest[t] # p
Empty(p) == ref[p] = NULL /\ ptr[p] = NULL

Goto(t, label) == pc' = [pc EXCEPT ![t] = label]

\* A call returns: its locals are gone.
Return(t) ==
  /\ Goto(t, "idle")
  /\ i' = [i EXCEPT ![t] = 0]
  /\ rc' = [rc EXCEPT ![t] = 0]
  /\ old' = [old EXCEPT ![t] = 0]
  /\ obj' = [obj EXCEPT ![t] = NULL]
  /\ dest' = [dest EXCEPT ![t] = NULL]

-----------------------------------------------------------------------------
(* rcu::rcu(unique_ptr): slot 0 holds the first object, with one reference. *)

Init ==
  /\ root = "alive"
  /\ index = 0
  /\ refcount = [s \in Slots |-> IF s = 0 THEN 1 ELSE 0]
  /\ \E o \in Objects :
       /\ slotPtr = [s \in Slots |-> IF s = 0 THEN o ELSE NULL]
       /\ live = {o}
  /\ mutex = NULL
  /\ ref = [p \in Ptrs |-> NULL]
  /\ ptr = [p \in Ptrs |-> NULL]
  /\ pc = [t \in Threads |-> "idle"]
  /\ i = [t \in Threads |-> 0]
  /\ rc = [t \in Threads |-> 0]
  /\ old = [t \in Threads |-> 0]
  /\ obj = [t \in Threads |-> NULL]
  /\ dest = [t \in Threads |-> NULL]
  /\ stale = FALSE
  /\ seen = [t \in Threads |-> {}]

-----------------------------------------------------------------------------
(* rcu::read() *)

\* The caller provides the storage p of the returned rcu_ptr.
ReadBegin(t, p) ==
  /\ Idle(t) /\ Empty(p) /\ Unused(p)
  /\ dest' = [dest EXCEPT ![t] = p]
  /\ seen' = [seen EXCEPT ![t] = {slotPtr[index]}]
  /\ Goto(t, "readIndex")
  /\ UNCHANGED <<shared, handles, live, i, rc, old, obj, stale>>

ReadIndex(t) ==
  /\ pc[t] = "readIndex"
  /\ i' = [i EXCEPT ![t] = index]
  /\ Goto(t, "readRef")
  /\ UNCHANGED <<shared, handles, live, rc, old, obj, dest, history>>

\* Mutant of ReadRef: a freed slot is not recognised.
ReadRefUnchecked(t) ==
  /\ pc[t] = "readRef"
  /\ rc' = [rc EXCEPT ![t] = refcount[i[t]]]
  /\ Goto(t, "readCas")
  /\ UNCHANGED <<shared, handles, live, i, old, obj, dest, history>>

\* Mutant of ReadRef: after a freed slot the index is not loaded again.
ReadRefSpin(t) ==
  /\ pc[t] = "readRef"
  /\ rc' = [rc EXCEPT ![t] = refcount[i[t]]]
  /\ Goto(t, IF refcount[i[t]] = 0 THEN "readRef" ELSE "readCas")
  /\ UNCHANGED <<shared, handles, live, i, old, obj, dest, history>>

\* A counter of 0 is a slot update() freed: start again.
ReadRef(t) ==
  /\ pc[t] = "readRef"
  /\ rc' = [rc EXCEPT ![t] = refcount[i[t]]]
  /\ Goto(t, IF refcount[i[t]] = 0 THEN "readIndex" ELSE "readCas")
  /\ UNCHANGED <<shared, handles, live, i, old, obj, dest, history>>

\* Mutant of ReadCas: a store instead of the compare-exchange.
ReadCasBlind(t) ==
  /\ pc[t] = "readCas"
  /\ refcount' = [refcount EXCEPT ![i[t]] = Inc(rc[t])]
  /\ ref' = [ref EXCEPT ![dest[t]] = i[t]]
  /\ Goto(t, "readPtr")
  /\ UNCHANGED <<root, index, slotPtr, mutex, ptr, live, locals, history>>

\* compare_exchange_strong(rc_start, rc_start + 1), the reference is taken.
ReadCas(t) ==
  /\ pc[t] = "readCas"
  /\ refcount[i[t]] = rc[t]
  /\ refcount' = [refcount EXCEPT ![i[t]] = Inc(rc[t])]
  /\ ref' = [ref EXCEPT ![dest[t]] = i[t]]
  /\ Goto(t, "readPtr")
  /\ UNCHANGED <<root, index, slotPtr, mutex, ptr, live, locals, history>>

\* The counter changed since it was loaded: start again.
ReadRetry(t) ==
  /\ pc[t] = "readCas"
  /\ refcount[i[t]] # rc[t]
  /\ Goto(t, "readIndex")
  /\ UNCHANGED <<shared, handles, live, locals, history>>

\* rcu_ptr(slot_[i].ptr_, &slot_[i].refcount_): ptr_ is not atomic, and is
\* loaded whatever update() is doing to the slot.
ReadPtr(t) ==
  /\ pc[t] = "readPtr"
  /\ ptr' = [ptr EXCEPT ![dest[t]] = slotPtr[i[t]]]
  /\ ref' = [ref EXCEPT ![dest[t]] = IF slotPtr[i[t]] = NULL THEN NULL ELSE i[t]]
  /\ stale' = (stale \/ \E u \in Threads : Filling(u, i[t]))
  /\ seen' = [seen EXCEPT ![t] = {}]
  /\ Return(t)
  /\ UNCHANGED <<shared, live>>

-----------------------------------------------------------------------------
(* rcu::update(unique_ptr) *)

\* The caller allocated o.  (With a null pointer update() returns at once.)
UpdateBegin(t, o) ==
  /\ Idle(t) /\ o \notin live
  /\ live' = live \cup {o}
  /\ obj' = [obj EXCEPT ![t] = o]
  /\ Goto(t, "lock")
  /\ UNCHANGED <<shared, handles, i, rc, old, dest, history>>

\* Mutant of UpdateLock: the lock is not taken.
UpdateLockless(t) ==
  /\ pc[t] = "lock"
  /\ i' = [i EXCEPT ![t] = index]
  /\ old' = [old EXCEPT ![t] = index]
  /\ Goto(t, "scan")
  /\ UNCHANGED <<shared, handles, live, rc, obj, dest, history>>

\* lock_guard, and i = i_start = index_, which only a lock holder changes.
UpdateLock(t) ==
  /\ pc[t] = "lock" /\ mutex = NULL
  /\ mutex' = t
  /\ i' = [i EXCEPT ![t] = index]
  /\ old' = [old EXCEPT ![t] = index]
  /\ Goto(t, "scan")
  /\ UNCHANGED <<root, index, refcount, slotPtr, handles, live, rc, obj, dest, history>>

\* One turn of the loop that looks for a slot whose counter is 0.
UpdateScan(t) ==
  /\ pc[t] = "scan"
  /\ NextSlot(i[t]) # old[t]
  /\ i' = [i EXCEPT ![t] = NextSlot(i[t])]
  /\ Goto(t, IF refcount[NextSlot(i[t])] = 0 THEN "storeRef" ELSE "scan")
  /\ UNCHANGED <<shared, handles, live, rc, old, obj, dest, history>>

\* Mutant of UpdateFull: gives up at the first slot in use.
UpdateFullEarly(t) ==
  /\ pc[t] = "scan"
  /\ NextSlot(i[t]) = old[t] \/ refcount[NextSlot(i[t])] # 0
  /\ live' = live \ {obj[t]}
  /\ mutex' = NULL
  /\ Return(t)
  /\ UNCHANGED <<root, index, refcount, slotPtr, handles, history>>

\* Every other slot was in use: return false, the caller still owns the
\* object and its unique_ptr deletes it.
UpdateFull(t) ==
  /\ pc[t] = "scan"
  /\ NextSlot(i[t]) = old[t]
  /\ live' = live \ {obj[t]}
  /\ mutex' = NULL
  /\ Return(t)
  /\ UNCHANGED <<root, index, refcount, slotPtr, handles, history>>

UpdateStoreRef(t) ==
  /\ pc[t] = "storeRef"
  /\ refcount' = [refcount EXCEPT ![i[t]] = 1]
  /\ Goto(t, "storePtr")
  /\ UNCHANGED <<root, index, slotPtr, mutex, handles, live, locals, history>>

UpdateStorePtr(t) ==
  /\ pc[t] = "storePtr"
  /\ slotPtr' = [slotPtr EXCEPT ![i[t]] = obj[t]]
  /\ Goto(t, "storeIndex")
  /\ UNCHANGED <<root, index, refcount, mutex, handles, live, locals, history>>

UpdateStoreIndex(t) ==
  /\ pc[t] = "storeIndex"
  /\ index' = i[t]
  /\ seen' = [u \in Threads |->
                IF pc[u] \in ReadPcs THEN seen[u] \cup {slotPtr[i[t]]} ELSE seen[u]]
  /\ Goto(t, "freeOld")
  /\ UNCHANGED <<root, refcount, slotPtr, mutex, handles, live, locals, stale>>

\* Mutant of UpdateFreeOld: the object is never deleted by update().
UpdateFreeOldLeak(t) ==
  /\ pc[t] = "freeOld"
  /\ refcount' = [refcount EXCEPT ![old[t]] = Dec(@)]
  /\ mutex' = NULL
  /\ Return(t)
  /\ UNCHANGED <<root, index, slotPtr, handles, live, history>>

\* rcu::free(i_start): the root gives up its reference to the old slot.
UpdateFreeOld(t) ==
  /\ pc[t] = "freeOld"
  /\ refcount' = [refcount EXCEPT ![old[t]] = Dec(@)]
  /\ IF refcount[old[t]] = 1
       THEN Goto(t, "deleteOld") /\ UNCHANGED <<mutex, locals>>
       ELSE Return(t) /\ mutex' = NULL
  /\ UNCHANGED <<root, index, slotPtr, handles, live, history>>

UpdateDeleteOld(t) ==
  /\ pc[t] = "deleteOld"
  /\ live' = live \ {slotPtr[old[t]]}
  /\ mutex' = NULL
  /\ Return(t)
  /\ UNCHANGED <<root, index, refcount, slotPtr, handles, history>>

-----------------------------------------------------------------------------
(* rcu_ptr *)

\* Mutant of Copy: the copy is not counted.
CopyUncounted(t, p, q) ==
  /\ Idle(t) /\ Empty(p) /\ Unused(p) /\ ptr[q] # NULL
  /\ ref' = [ref EXCEPT ![p] = ref[q]]
  /\ ptr' = [ptr EXCEPT ![p] = ptr[q]]
  /\ UNCHANGED <<shared, live, pc, locals, history>>

\* rcu_ptr(const rcu_ptr &): p becomes a copy of q.
Copy(t, p, q) ==
  /\ Idle(t) /\ Empty(p) /\ Unused(p) /\ ptr[q] # NULL
  /\ refcount' = [refcount EXCEPT ![ref[q]] = Inc(@)]
  /\ ref' = [ref EXCEPT ![p] = ref[q]]
  /\ ptr' = [ptr EXCEPT ![p] = ptr[q]]
  /\ UNCHANGED <<root, index, slotPtr, mutex, live, pc, locals, history>>

\* swap(); with an empty p, the move constructor.  An assignment is a copy or a
\* move into a temporary, a swap and a free() of the temporary.
Swap(t, p, q) ==
  /\ Idle(t) /\ Unused(p) /\ Unused(q) /\ ptr[q] # NULL
  /\ ref' = [ref EXCEPT ![p] = ref[q], ![q] = ref[p]]
  /\ ptr' = [ptr EXCEPT ![p] = ptr[q], ![q] = ptr[p]]
  /\ UNCHANGED <<shared, live, pc, locals, history>>

\* rcu_ptr::free(), of reset(), of the destructor and of the temporary in an
\* assignment.  The fields are cleared here, only their user reads them.
Reset(t, p) ==
  /\ Idle(t) /\ ptr[p] # NULL
  /\ refcount' = [refcount EXCEPT ![ref[p]] = Dec(@)]
  /\ ref' = [ref EXCEPT ![p] = NULL]
  /\ ptr' = [ptr EXCEPT ![p] = NULL]
  /\ IF refcount[ref[p]] = 1
       THEN Goto(t, "ptrDelete") /\ obj' = [obj EXCEPT ![t] = ptr[p]]
       ELSE UNCHANGED <<pc, obj>>
  /\ UNCHANGED <<root, index, slotPtr, mutex, live, i, rc, old, dest, history>>

\* deleter_type{}(ptr_)
PtrDelete(t) ==
  /\ pc[t] = "ptrDelete"
  /\ live' = live \ {obj[t]}
  /\ Return(t)
  /\ UNCHANGED <<shared, handles, history>>

-----------------------------------------------------------------------------
(* rcu::~rcu(), called when no other call is running. *)

\* Mutant of Destroy: the other slots are not looked at.
DestroyUnchecked ==
  /\ root = "alive"
  /\ \A t \in Threads : pc[t] = "idle"
  /\ refcount' = [refcount EXCEPT ![index] = Dec(@)]
  /\ live' = IF refcount[index] = 1 THEN live \ {slotPtr[index]} ELSE live
  /\ root' = IF refcount[index] = 1 THEN "destroyed" ELSE "aborted"
  /\ UNCHANGED <<index, slotPtr, mutex, handles, pc, locals, history>>

Destroy ==
  /\ root = "alive"
  /\ \A t \in Threads : pc[t] = "idle"
  /\ refcount' = [refcount EXCEPT ![index] = Dec(@)]
  /\ live' = IF refcount[index] = 1 THEN live \ {slotPtr[index]} ELSE live
  /\ root' = IF refcount[index] = 1 /\ \A s \in Slots : refcount'[s] = 0
               THEN "destroyed" ELSE "aborted"
  /\ UNCHANGED <<index, slotPtr, mutex, handles, pc, locals, history>>

Over == root # "alive" /\ UNCHANGED vars

-----------------------------------------------------------------------------

\* The steps of a call in progress.
Step(t) ==
  \/ ReadIndex(t) \/ ReadRef(t) \/ ReadCas(t) \/ ReadRetry(t) \/ ReadPtr(t)
  \/ UpdateLock(t) \/ UpdateScan(t) \/ UpdateFull(t) \/ UpdateStoreRef(t)
  \/ UpdateStorePtr(t) \/ UpdateStoreIndex(t) \/ UpdateFreeOld(t)
  \/ UpdateDeleteOld(t) \/ PtrDelete(t)

\* A new call.
Call(t) ==
  \/ \E p \in Ptrs : ReadBegin(t, p) \/ Reset(t, p)
  \/ \E p, q \in Ptrs : Copy(t, p, q) \/ Swap(t, p, q)
  \/ \E o \in Objects : UpdateBegin(t, o)

Next == (\E t \in Threads : Step(t) \/ Call(t)) \/ Destroy \/ Over

Spec == Init /\ [][Next]_vars

\* A call that is running is scheduled; nobody has to make a call.
FairSpec == Spec /\ \A t \in Threads : WF_vars(Step(t))

-----------------------------------------------------------------------------
(* Properties *)

\* The root's own reference: to the current slot, to the slot update() is
\* filling, and to the previous slot until update() has given it up.
RootOwns(s) ==
  \/ root = "alive" /\ index = s
  \/ \E t \in Threads : pc[t] \in {"storePtr", "storeIndex"} /\ i[t] = s
  \/ \E t \in Threads : pc[t] = "freeOld" /\ old[t] = s

Holders(s) == {p \in Ptrs : ref[p] = s}

\* Each counter of slot_ counts exactly the rcu_ptr objects that refer to the
\* slot (or whose read() has taken its reference) and the root's reference:
\* no interleaving of the compare-exchange of read(), the plain store of
\* update() and the decrements of free() loses or invents a reference.
RefcountAccounts ==
  \A s \in Slots :
    refcount[s] = Cardinality(Holders(s)) + (IF RootOwns(s) THEN 1 ELSE 0)

\* A rcu_ptr never refers to a freed object, and holds the object of its
\* slot, as long as no read() has loaded the pointer of a slot between
\* update()'s store of the counter and its store of the pointer.
NoUseAfterFree ==
  ~stale => \A p \in Ptrs : ptr[p] # NULL => /\ ptr[p] \in live
                                             /\ ptr[p] = slotPtr[ref[p]]

\* The object a call is about to delete is allocated and no longer reachable:
\* no rcu_ptr has it, no referenced slot has it and no other call deletes it.
\* So the last reference, and only the last one, frees an object, once.
NoDoubleFree ==
  LET Doomed(t) == IF pc[t] = "ptrDelete" THEN obj[t] ELSE slotPtr[old[t]]
      Deleting == {t \in Threads : pc[t] \in {"ptrDelete", "deleteOld"}}
  IN ~stale =>
       \A t \in Deleting :
         /\ Doomed(t) \in live
         /\ \A p \in Ptrs : ptr[p] # Doomed(t)
         /\ \A s \in Slots : slotPtr[s] = Doomed(t) =>
              \/ refcount[s] = 0
              \/ \E u \in Threads : Filling(u, s)
         /\ \A u \in Deleting : u # t => Doomed(u) # Doomed(t)

\* With no call running, the allocated objects are the current one and those
\* some rcu_ptr holds: nothing leaks.
NoLeak ==
  (~stale /\ root = "alive" /\ \A t \in Threads : pc[t] = "idle") =>
    live = {slotPtr[index]} \cup {ptr[p] : p \in {q \in Ptrs : ptr[q] # NULL}}

\* ~rcu() aborts if and only if the program still holds a rcu_ptr, and when it
\* does not abort it leaves no object behind.
DestructorVerdict ==
  ~stale => /\ root = "aborted" => \E p \in Ptrs : ptr[p] # NULL
            /\ root = "destroyed" => live = {} /\ \A p \in Ptrs : ptr[p] = NULL

\* The slots and the counters implement the cell of SnapshotCell: read()
\* returns an object that was current at some moment of the call or that an
\* update() in progress is publishing, even when its slot was recycled while
\* the reader was delayed; and no object is freed that is current or held.
Cell == INSTANCE SnapshotCell WITH
          cur <- IF root = "alive" THEN slotPtr[index] ELSE NULL,
          fresh <- {obj[t] : t \in {u \in Threads : pc[u] \in
                      {"lock", "scan", "storeRef", "storePtr", "storeIndex"}}},
          held <- ptr, window <- seen, broken <- stale
ImplementsCell == Cell!Spec

\* update() fails for want of a slot only if the program can hold as many
\* references as there are slots besides the current one.
UpdateFindsSlot ==
  [][(\E t \in Threads : UpdateFull(t)) => Cardinality(Ptrs) >= N - 1]_vars

\* read() is lock-free: a call that never returns is overtaken by infinitely
\* many changes other threads make to the counters or to the index.
Interferes(t) == pc'[t] = pc[t] /\ <<refcount, index>>' # <<refcount, index>>
ReadLockFree ==
  \A t \in Threads :
    \/ (pc[t] \in ReadPcs) ~> (pc[t] \notin ReadPcs)
    \/ []<><<Interferes(t)>>_vars

\* "We never want to return a 'freed' slot." (rcu.h:143): no rcu_ptr refers
\* to a freed object, with no condition on how its read() was interleaved.
NeverReturnsFreed == \A p \in Ptrs : ptr[p] # NULL => ptr[p] \in live
=============================================================================
