------------------------------ MODULE RcuProofs ------------------------------
(***************************************************************************)
(* Theorems about Rcu for every number of slots, threads, handles and      *)
(* objects.  The invariant is built in layers, each proved from the ones   *)
(* before it: the type invariant, the control state of the calls, the      *)
(* reference counts and the ownership of the objects.  On them rest the    *)
(* verdict of the destructor, the scan of update() and the refinement of   *)
(* SnapshotCell.                                                           *)
(***************************************************************************)
EXTENDS Rcu, FiniteSetTheorems, TLAPS

-----------------------------------------------------------------------------
(* Types *)

\* Every slot a call may load a pointer from has been filled once.
UsedSlots ==
  /\ slotPtr[index] # NULL
  /\ \A t \in Threads :
       /\ pc[t] \in {"lock", "scan", "storeRef", "storePtr"} => obj[t] # NULL
       /\ pc[t] \in {"storeIndex", "readRef", "readCas", "readPtr"} =>
            slotPtr[i[t]] # NULL

TypeInv == TypeOK /\ UsedSlots

LEMMA NextSlotType == ASSUME NEW s \in Slots PROVE NextSlot(s) \in Slots
  BY SlotAssumption DEF NextSlot, Slots

LEMMA CounterType ==
  ASSUME NEW n \in 0 .. RefMod - 1
  PROVE  Inc(n) \in 0 .. RefMod - 1 /\ Dec(n) \in 0 .. RefMod - 1
  BY RefModAssumption DEF Inc, Dec

LEMMA ZeroType == 0 \in Slots /\ 0 \in 0 .. RefMod - 1 /\ 1 \in 0 .. RefMod - 1
  BY SlotAssumption, RefModAssumption, PtrsAssumption, FS_CardinalityType DEF Slots

LEMMA TypeInit == Init => TypeInv
<1> SUFFICES ASSUME Init PROVE TypeInv
  OBVIOUS
<1>1. TypeOK
  BY ZeroType DEF Init, TypeOK, Pcs
<1>2. UsedSlots
  BY ZeroType, NullAssumption DEF Init, UsedSlots
<1> QED
  BY <1>1, <1>2 DEF TypeInv

LEMMA TypeStep == TypeInv /\ [Next]_vars => TypeInv'
<1> SUFFICES ASSUME TypeInv, [Next]_vars PROVE TypeInv'
  OBVIOUS
<1> USE NullAssumption DEF TypeInv, TypeOK, UsedSlots, Pcs, ReadPcs, LockedPcs,
        shared, handles, locals, history, Goto, Return, Idle
<1>1. ASSUME NEW t \in Threads, NEW p \in Ptrs, ReadBegin(t, p) PROVE TypeInv'
  BY <1>1 DEF ReadBegin
<1>2. ASSUME NEW t \in Threads, ReadIndex(t) PROVE TypeInv'
  BY <1>2 DEF ReadIndex
<1>3. ASSUME NEW t \in Threads, ReadRef(t) PROVE TypeInv'
  BY <1>3 DEF ReadRef
<1>4. ASSUME NEW t \in Threads, ReadCas(t) PROVE TypeInv'
  BY <1>4, CounterType DEF ReadCas
<1>5. ASSUME NEW t \in Threads, ReadRetry(t) PROVE TypeInv'
  BY <1>5 DEF ReadRetry
<1>6. ASSUME NEW t \in Threads, ReadPtr(t) PROVE TypeInv'
  BY <1>6, ZeroType DEF ReadPtr
<1>7. ASSUME NEW t \in Threads, NEW o \in Objects, UpdateBegin(t, o) PROVE TypeInv'
  BY <1>7 DEF UpdateBegin
<1>8. ASSUME NEW t \in Threads, UpdateLock(t) PROVE TypeInv'
  BY <1>8 DEF UpdateLock
<1>9. ASSUME NEW t \in Threads, UpdateScan(t) PROVE TypeInv'
  BY <1>9, NextSlotType DEF UpdateScan
<1>10. ASSUME NEW t \in Threads, UpdateFull(t) PROVE TypeInv'
  BY <1>10, ZeroType DEF UpdateFull
<1>11. ASSUME NEW t \in Threads, UpdateStoreRef(t) PROVE TypeInv'
  BY <1>11, ZeroType DEF UpdateStoreRef
<1>12. ASSUME NEW t \in Threads, UpdateStorePtr(t) PROVE TypeInv'
  BY <1>12 DEF UpdateStorePtr
<1>13. ASSUME NEW t \in Threads, UpdateStoreIndex(t) PROVE TypeInv'
  BY <1>13 DEF UpdateStoreIndex
<1>14. ASSUME NEW t \in Threads, UpdateFreeOld(t) PROVE TypeInv'
  BY <1>14, ZeroType, CounterType DEF UpdateFreeOld
<1>15. ASSUME NEW t \in Threads, UpdateDeleteOld(t) PROVE TypeInv'
  BY <1>15, ZeroType DEF UpdateDeleteOld
<1>16. ASSUME NEW t \in Threads, NEW p \in Ptrs, NEW q \in Ptrs, Copy(t, p, q)
       PROVE TypeInv'
  BY <1>16, CounterType DEF Copy
<1>17. ASSUME NEW t \in Threads, NEW p \in Ptrs, NEW q \in Ptrs, Swap(t, p, q)
       PROVE TypeInv'
  BY <1>17 DEF Swap
<1>18. ASSUME NEW t \in Threads, NEW p \in Ptrs, Reset(t, p) PROVE TypeInv'
  BY <1>18, CounterType DEF Reset
<1>19. ASSUME NEW t \in Threads, PtrDelete(t) PROVE TypeInv'
  BY <1>19, ZeroType DEF PtrDelete
<1>20. ASSUME Destroy PROVE TypeInv'
  BY <1>20, CounterType DEF Destroy
<1>21. ASSUME UNCHANGED vars PROVE TypeInv'
  BY <1>21 DEF vars
<1> QED
  BY <1>1, <1>2, <1>3, <1>4, <1>5, <1>6, <1>7, <1>8, <1>9, <1>10, <1>11, <1>12,
     <1>13, <1>14, <1>15, <1>16, <1>17, <1>18, <1>19, <1>20, <1>21
     DEF Next, Step, Call, Over

\* Every variable of the model keeps its type, and no call ever loads the
\* pointer of a slot that was never filled.
THEOREM TypeCorrect == Spec => []TypeOK
<1>1. TypeInv => TypeOK
  BY DEF TypeInv
<1> QED
  BY <1>1, TypeInit, TypeStep, PTL DEF Spec
-----------------------------------------------------------------------------
(* Control state of the calls *)

\* write_mutex_ covers the whole of update(); the slot being filled is not
\* the current one, and neither is the one being given up; a compare-exchange
\* is only tried on a counter that was not 0.
Locking ==
  /\ \A t \in Threads : pc[t] \in LockedPcs <=> mutex = t
  /\ \A t \in Threads :
       /\ pc[t] \in {"scan", "storeRef", "storePtr", "storeIndex"} => old[t] = index
       /\ pc[t] \in {"storeRef", "storePtr", "storeIndex"} => i[t] # old[t]
       /\ pc[t] \in {"freeOld", "deleteOld"} => old[t] # index
       /\ pc[t] = "storeIndex" => slotPtr[i[t]] = obj[t]
       /\ pc[t] = "readCas" => rc[t] # 0
  /\ root # "alive" => \A t \in Threads : pc[t] = "idle"

\* Each read() has its own rcu_ptr, which refers to a slot exactly when the
\* compare-exchange has taken the reference.
Reservations ==
  /\ \A t \in Threads :
       /\ pc[t] \notin ReadPcs => dest[t] = NULL
       /\ pc[t] \in ReadPcs =>
            /\ dest[t] \in Ptrs
            /\ ptr[dest[t]] = NULL
            /\ ref[dest[t]] = IF pc[t] = "readPtr" THEN i[t] ELSE NULL
  /\ \A t, u \in Threads : t # u /\ dest[t] = dest[u] => dest[t] = NULL
  /\ \A p \in Ptrs :
       /\ ptr[p] # NULL => ref[p] # NULL
       /\ ref[p] # NULL /\ ptr[p] = NULL =>
            \E t \in Threads : pc[t] = "readPtr" /\ dest[t] = p

LEMMA LockingInit == Init => Locking
  BY NullAssumption DEF Init, Locking, LockedPcs

LEMMA ReservationsInit == Init => Reservations
  BY DEF Init, Reservations, ReadPcs

LEMMA LockingStep == TypeInv /\ Locking /\ [Next]_vars => Locking'
<1> SUFFICES ASSUME TypeInv, Locking, [Next]_vars PROVE Locking'
  OBVIOUS
<1> USE NullAssumption DEF TypeInv, TypeOK, Locking, Pcs, ReadPcs, LockedPcs,
        shared, handles, locals, history, Goto, Return, Idle
<1>1. ASSUME NEW t \in Threads, NEW p \in Ptrs, ReadBegin(t, p) PROVE Locking'
  BY <1>1 DEF ReadBegin
<1>2. ASSUME NEW t \in Threads, ReadIndex(t) PROVE Locking'
  BY <1>2 DEF ReadIndex
<1>3. ASSUME NEW t \in Threads, ReadRef(t) PROVE Locking'
  BY <1>3 DEF ReadRef
<1>4. ASSUME NEW t \in Threads, ReadCas(t) PROVE Locking'
  BY <1>4 DEF ReadCas
<1>5. ASSUME NEW t \in Threads, ReadRetry(t) PROVE Locking'
  BY <1>5 DEF ReadRetry
<1>6. ASSUME NEW t \in Threads, ReadPtr(t) PROVE Locking'
  BY <1>6 DEF ReadPtr
<1>7. ASSUME NEW t \in Threads, NEW o \in Objects, UpdateBegin(t, o)
       PROVE Locking'
  BY <1>7 DEF UpdateBegin
<1>8. ASSUME NEW t \in Threads, UpdateLock(t) PROVE Locking'
  BY <1>8 DEF UpdateLock
<1>9. ASSUME NEW t \in Threads, UpdateScan(t) PROVE Locking'
  BY <1>9 DEF UpdateScan
<1>10. ASSUME NEW t \in Threads, UpdateFull(t) PROVE Locking'
  BY <1>10 DEF UpdateFull
<1>11. ASSUME NEW t \in Threads, UpdateStoreRef(t) PROVE Locking'
  BY <1>11 DEF UpdateStoreRef
<1>12. ASSUME NEW t \in Threads, UpdateStorePtr(t) PROVE Locking'
  BY <1>12 DEF UpdateStorePtr
<1>13. ASSUME NEW t \in Threads, UpdateStoreIndex(t) PROVE Locking'
  BY <1>13 DEF UpdateStoreIndex
<1>14. ASSUME NEW t \in Threads, UpdateFreeOld(t) PROVE Locking'
  BY <1>14 DEF UpdateFreeOld
<1>15. ASSUME NEW t \in Threads, UpdateDeleteOld(t) PROVE Locking'
  BY <1>15 DEF UpdateDeleteOld
<1>16. ASSUME NEW t \in Threads, NEW p \in Ptrs, NEW q \in Ptrs, Copy(t, p, q)
       PROVE Locking'
  BY <1>16 DEF Copy
<1>17. ASSUME NEW t \in Threads, NEW p \in Ptrs, NEW q \in Ptrs, Swap(t, p, q)
       PROVE Locking'
  BY <1>17 DEF Swap
<1>18. ASSUME NEW t \in Threads, NEW p \in Ptrs, Reset(t, p) PROVE Locking'
  BY <1>18 DEF Reset
<1>19. ASSUME NEW t \in Threads, PtrDelete(t) PROVE Locking'
  BY <1>19 DEF PtrDelete
<1>20. ASSUME Destroy PROVE Locking'
  BY <1>20 DEF Destroy
<1>21. ASSUME UNCHANGED vars PROVE Locking'
  BY <1>21 DEF vars
<1> QED
  BY <1>1, <1>2, <1>3, <1>4, <1>5, <1>6, <1>7, <1>8, <1>9, <1>10, <1>11, <1>12,
     <1>13, <1>14, <1>15, <1>16, <1>17, <1>18, <1>19, <1>20, <1>21
     DEF Next, Step, Call, Over

LEMMA ReservationsStep == TypeInv /\ Reservations /\ [Next]_vars => Reservations'
<1> SUFFICES ASSUME TypeInv, Reservations, [Next]_vars PROVE Reservations'
  OBVIOUS
<1> USE NullAssumption DEF TypeInv, TypeOK, UsedSlots, Reservations, Pcs, ReadPcs,
        LockedPcs, shared, handles, locals, history, Goto, Return, Idle, Unused,
        Empty
<1>1. ASSUME NEW t \in Threads, NEW p \in Ptrs, ReadBegin(t, p)
       PROVE Reservations'
  BY <1>1 DEF ReadBegin
<1>2. ASSUME NEW t \in Threads, ReadIndex(t) PROVE Reservations'
  BY <1>2 DEF ReadIndex
<1>3. ASSUME NEW t \in Threads, ReadRef(t) PROVE Reservations'
  BY <1>3 DEF ReadRef
<1>4. ASSUME NEW t \in Threads, ReadCas(t) PROVE Reservations'
  BY <1>4 DEF ReadCas
<1>5. ASSUME NEW t \in Threads, ReadRetry(t) PROVE Reservations'
  BY <1>5 DEF ReadRetry
<1>6. ASSUME NEW t \in Threads, ReadPtr(t) PROVE Reservations'
  BY <1>6 DEF ReadPtr
<1>7. ASSUME NEW t \in Threads, NEW o \in Objects, UpdateBegin(t, o)
       PROVE Reservations'
  BY <1>7 DEF UpdateBegin
<1>8. ASSUME NEW t \in Threads, UpdateLock(t) PROVE Reservations'
  BY <1>8 DEF UpdateLock
<1>9. ASSUME NEW t \in Threads, UpdateScan(t) PROVE Reservations'
  BY <1>9 DEF UpdateScan
<1>10. ASSUME NEW t \in Threads, UpdateFull(t) PROVE Reservations'
  BY <1>10 DEF UpdateFull
<1>11. ASSUME NEW t \in Threads, UpdateStoreRef(t) PROVE Reservations'
  BY <1>11 DEF UpdateStoreRef
<1>12. ASSUME NEW t \in Threads, UpdateStorePtr(t) PROVE Reservations'
  BY <1>12 DEF UpdateStorePtr
<1>13. ASSUME NEW t \in Threads, UpdateStoreIndex(t) PROVE Reservations'
  BY <1>13 DEF UpdateStoreIndex
<1>14. ASSUME NEW t \in Threads, UpdateFreeOld(t) PROVE Reservations'
  BY <1>14 DEF UpdateFreeOld
<1>15. ASSUME NEW t \in Threads, UpdateDeleteOld(t) PROVE Reservations'
  BY <1>15 DEF UpdateDeleteOld
<1>16. ASSUME NEW t \in Threads, NEW p \in Ptrs, NEW q \in Ptrs, Copy(t, p, q)
       PROVE Reservations'
  BY <1>16 DEF Copy
<1>17. ASSUME NEW t \in Threads, NEW p \in Ptrs, NEW q \in Ptrs, Swap(t, p, q)
       PROVE Reservations'
  BY <1>17 DEF Swap
<1>18. ASSUME NEW t \in Threads, NEW p \in Ptrs, Reset(t, p) PROVE Reservations'
  BY <1>18 DEF Reset
<1>19. ASSUME NEW t \in Threads, PtrDelete(t) PROVE Reservations'
  BY <1>19 DEF PtrDelete
<1>20. ASSUME Destroy PROVE Reservations'
  BY <1>20 DEF Destroy
<1>21. ASSUME UNCHANGED vars PROVE Reservations'
  BY <1>21 DEF vars
<1> QED
  BY <1>1, <1>2, <1>3, <1>4, <1>5, <1>6, <1>7, <1>8, <1>9, <1>10, <1>11, <1>12,
     <1>13, <1>14, <1>15, <1>16, <1>17, <1>18, <1>19, <1>20, <1>21
     DEF Next, Step, Call, Over

-----------------------------------------------------------------------------
(* Reference counts *)

\* The counts, and the two slots whose counter is 0 while update() works on
\* them: no read() can bring a counter back from 0.
Accounts ==
  /\ RefcountAccounts
  /\ \A t \in Threads :
       /\ pc[t] = "storeRef" => refcount[i[t]] = 0
       /\ pc[t] = "deleteOld" => refcount[old[t]] = 0

\* What is known of a state in the proofs of this section.
Known == TypeInv /\ Locking /\ Reservations

\* The holders of a slot are finitely many, fewer than the counter can count.
LEMMA HoldersFinite ==
  ASSUME NEW s \in Slots
  PROVE  /\ IsFiniteSet(Holders(s))
         /\ Cardinality(Holders(s)) \in Nat
         /\ Cardinality(Holders(s)) <= Cardinality(Ptrs)
         /\ Holders(s) = {} <=> Cardinality(Holders(s)) = 0
<1>1. Holders(s) \subseteq Ptrs
  BY DEF Holders
<1> QED
  BY <1>1, PtrsAssumption, FS_Subset, FS_CardinalityType, FS_EmptySet

\* Counters stay clear of the wrap-around.
LEMMA CounterRange ==
  ASSUME TypeInv, RefcountAccounts, NEW s \in Slots
  PROVE  /\ refcount[s] \in Nat
         /\ refcount[s] < RefMod
         /\ refcount[s] = 0 <=> (Holders(s) = {} /\ ~RootOwns(s))
         /\ refcount[s] = 1 /\ RootOwns(s) => Holders(s) = {}
<1>1. refcount[s] \in 0 .. RefMod - 1
  BY DEF TypeInv, TypeOK
<1> QED
  BY <1>1, HoldersFinite, RefModAssumption DEF RefcountAccounts

LEMMA HoldersAdd ==
  ASSUME NEW s \in Slots, NEW p \in Ptrs, ref \in [Ptrs -> Slots \cup {NULL}],
         ref[p] = NULL, ref' = [ref EXCEPT ![p] = s]
  PROVE  /\ Cardinality(Holders(s)') = Cardinality(Holders(s)) + 1
         /\ \A r \in Slots : r # s => Holders(r)' = Holders(r)
         /\ Cardinality(Holders(s)) + 1 <= Cardinality(Ptrs)
<1>1. Holders(s)' = Holders(s) \cup {p} /\ p \notin Holders(s)
  BY NullAssumption DEF Holders
<1>2. \A r \in Slots : r # s => Holders(r)' = Holders(r)
  BY NullAssumption DEF Holders
<1>3. Cardinality(Holders(s)') = Cardinality(Holders(s)) + 1
  BY <1>1, HoldersFinite, FS_AddElement
<1>4. Holders(s)' \subseteq Ptrs
  BY DEF Holders
<1> QED
  BY <1>2, <1>3, <1>4, PtrsAssumption, FS_Subset

LEMMA HoldersRemove ==
  ASSUME NEW p \in Ptrs, ref \in [Ptrs -> Slots \cup {NULL}],
         ref[p] \in Slots, ref' = [ref EXCEPT ![p] = NULL]
  PROVE  /\ Cardinality(Holders(ref[p])) \in Nat
         /\ \A s \in Slots : Cardinality(Holders(s)') =
              IF s = ref[p] THEN Cardinality(Holders(s)) - 1 ELSE Cardinality(Holders(s))
         /\ Holders(ref[p]) # {}
<1>1. p \in Holders(ref[p])
  BY DEF Holders
<1>2. \A s \in Slots : Holders(s)' = IF s = ref[p] THEN Holders(s) \ {p} ELSE Holders(s)
  BY NullAssumption DEF Holders
<1> QED
  BY <1>1, <1>2, HoldersFinite, FS_RemoveElement

LEMMA HoldersSwap ==
  ASSUME NEW p \in Ptrs, NEW q \in Ptrs, ref \in [Ptrs -> Slots \cup {NULL}],
         ref' = [ref EXCEPT ![p] = ref[q], ![q] = ref[p]]
  PROVE  \A s \in Slots : Cardinality(Holders(s)') = Cardinality(Holders(s))
<1> SUFFICES ASSUME NEW s \in Slots
             PROVE  Cardinality(Holders(s)') = Cardinality(Holders(s))
  OBVIOUS
<1>1. CASE ref[p] = ref[q] \/ s \notin {ref[p], ref[q]}
  <2>1. Holders(s)' = Holders(s)
    BY <1>1, NullAssumption DEF Holders
  <2> QED
    BY <2>1
<1>2. ASSUME NEW a \in {p, q}, NEW b \in {p, q}, a # b,
             ref[a] = s, ref[b] # s
      PROVE  Cardinality(Holders(s)') = Cardinality(Holders(s))
  <2> DEFINE Rest == Holders(s) \ {a}
  <2>1. a \in Holders(s) /\ b \notin Rest /\ Holders(s)' = Rest \cup {b}
    BY <1>2, NullAssumption DEF Holders
  <2>2. IsFiniteSet(Rest) /\ Cardinality(Rest) = Cardinality(Holders(s)) - 1
    BY <2>1, HoldersFinite, FS_RemoveElement
  <2>3. Cardinality(Rest \cup {b}) = Cardinality(Rest) + 1
    BY <2>1, <2>2, FS_AddElement
  <2> QED
    BY <2>1, <2>2, <2>3, HoldersFinite
<1> QED
  BY <1>1, <1>2

LEMMA AccountsInit == Init => Accounts
<1> SUFFICES ASSUME Init PROVE Accounts
  OBVIOUS
<1>1. \A s \in Slots : Holders(s) = {}
  BY NullAssumption DEF Init, Holders
<1>2. \A s \in Slots : RootOwns(s) <=> s = 0
  BY DEF Init, RootOwns
<1> QED
  BY <1>1, <1>2, FS_EmptySet DEF Init, Accounts, RefcountAccounts

\* The steps that touch neither a counter nor a handle.
LEMMA AccountsKept ==
  ASSUME Accounts, refcount' = refcount, ref' = ref,
         \A s \in Slots : RootOwns(s)' <=> RootOwns(s),
         \A t \in Threads :
           /\ pc'[t] = "storeRef" => refcount[i'[t]] = 0
           /\ pc'[t] = "deleteOld" => refcount[old'[t]] = 0
  PROVE  Accounts'
<1>1. \A s \in Slots : Holders(s)' = Holders(s)
  BY DEF Holders
<1> QED
  BY <1>1 DEF Accounts, RefcountAccounts

\* A reference is added to a slot by an increment of its counter.
LEMMA TakeReference ==
  ASSUME TypeInv, RefcountAccounts, NEW s \in Slots, NEW p \in Ptrs,
         ref[p] = NULL, ref' = [ref EXCEPT ![p] = s],
         refcount' = [refcount EXCEPT ![s] = Inc(refcount[s])],
         \A r \in Slots : RootOwns(r)' <=> RootOwns(r)
  PROVE  RefcountAccounts'
<1>1. /\ Cardinality(Holders(s)') = Cardinality(Holders(s)) + 1
      /\ \A r \in Slots : r # s => Holders(r)' = Holders(r)
      /\ Cardinality(Holders(s)) + 1 <= Cardinality(Ptrs)
  BY HoldersAdd DEF TypeInv, TypeOK
<1>2. refcount[s] <= Cardinality(Holders(s)) + 1 /\ refcount[s] \in Nat
  BY CounterRange, HoldersFinite DEF RefcountAccounts
<1>3. refcount[s] # RefMod - 1
  BY <1>1, <1>2, HoldersFinite, RefModAssumption, PtrsAssumption, FS_CardinalityType
<1>4. refcount'[s] = refcount[s] + 1
  BY <1>3 DEF Inc, TypeInv, TypeOK
<1>5. \A r \in Slots : r # s => refcount'[r] = refcount[r]
  BY DEF TypeInv, TypeOK
<1> QED
  BY <1>1, <1>4, <1>5, HoldersFinite DEF RefcountAccounts

\* The root takes the first reference to a slot nobody refers to ...
LEMMA RootTakes ==
  ASSUME RefcountAccounts, TypeInv, NEW s \in Slots, refcount[s] = 0,
         ref' = ref, refcount' = [refcount EXCEPT ![s] = 1], RootOwns(s)',
         \A r \in Slots : r # s => (RootOwns(r)' <=> RootOwns(r))
  PROVE  RefcountAccounts'
<1>1. \A r \in Slots : Holders(r)' = Holders(r)
  BY DEF Holders
<1>2. Cardinality(Holders(s)) = 0
  BY CounterRange, HoldersFinite
<1> QED
  BY <1>1, <1>2 DEF RefcountAccounts, TypeInv, TypeOK

\* ... and gives a reference up.
LEMMA RootDrops ==
  ASSUME RefcountAccounts, TypeInv, NEW s \in Slots, RootOwns(s), ~RootOwns(s)',
         ref' = ref, refcount' = [refcount EXCEPT ![s] = Dec(refcount[s])],
         \A r \in Slots : r # s => (RootOwns(r)' <=> RootOwns(r))
  PROVE  RefcountAccounts' /\ refcount'[s] = refcount[s] - 1
<1>1. \A r \in Slots : Holders(r)' = Holders(r)
  BY DEF Holders
<1>2. refcount[s] # 0 /\ refcount[s] \in Nat
  BY CounterRange
<1>3. refcount'[s] = refcount[s] - 1
  BY <1>2 DEF Dec, TypeInv, TypeOK
<1> QED
  BY <1>1, <1>3, HoldersFinite DEF RefcountAccounts, TypeInv, TypeOK

LEMMA AccountsStep == Known /\ Accounts /\ [Next]_vars => Accounts'
<1> SUFFICES ASSUME Known, Accounts, [Next]_vars PROVE Accounts'
  OBVIOUS
<1> USE NullAssumption DEF Known, TypeInv, TypeOK, UsedSlots, Locking, Accounts,
        RootOwns, Pcs, ReadPcs, LockedPcs, shared, handles, locals, history, Goto,
        Return, Idle
<1>1. ASSUME NEW t \in Threads, NEW p \in Ptrs, ReadBegin(t, p) PROVE Accounts'
  BY <1>1, AccountsKept DEF ReadBegin
<1>2. ASSUME NEW t \in Threads, ReadIndex(t) PROVE Accounts'
  BY <1>2, AccountsKept DEF ReadIndex
<1>3. ASSUME NEW t \in Threads, ReadRef(t) PROVE Accounts'
  BY <1>3, AccountsKept DEF ReadRef
<1>4. ASSUME NEW t \in Threads, ReadRetry(t) PROVE Accounts'
  BY <1>4, AccountsKept DEF ReadRetry
<1>5. ASSUME NEW t \in Threads, ReadPtr(t) PROVE Accounts'
  <2>1. ref' = ref
    BY <1>5 DEF ReadPtr, Reservations
  <2> QED
    BY <1>5, <2>1, AccountsKept DEF ReadPtr
<1>6. ASSUME NEW t \in Threads, NEW o \in Objects, UpdateBegin(t, o) PROVE Accounts'
  BY <1>6, AccountsKept DEF UpdateBegin
<1>7. ASSUME NEW t \in Threads, UpdateLock(t) PROVE Accounts'
  BY <1>7, AccountsKept DEF UpdateLock
<1>8. ASSUME NEW t \in Threads, UpdateScan(t) PROVE Accounts'
  BY <1>8, AccountsKept DEF UpdateScan
<1>9. ASSUME NEW t \in Threads, UpdateFull(t) PROVE Accounts'
  BY <1>9, AccountsKept DEF UpdateFull
<1>10. ASSUME NEW t \in Threads, UpdateStorePtr(t) PROVE Accounts'
  BY <1>10, AccountsKept DEF UpdateStorePtr
<1>11. ASSUME NEW t \in Threads, UpdateStoreIndex(t) PROVE Accounts'
  BY <1>11, AccountsKept DEF UpdateStoreIndex
<1>12. ASSUME NEW t \in Threads, UpdateDeleteOld(t) PROVE Accounts'
  BY <1>12, AccountsKept DEF UpdateDeleteOld
<1>13. ASSUME NEW t \in Threads, PtrDelete(t) PROVE Accounts'
  BY <1>13, AccountsKept DEF PtrDelete
<1>14. ASSUME NEW t \in Threads, ReadCas(t) PROVE Accounts'
  <2>1. /\ i[t] \in Slots /\ dest[t] \in Ptrs /\ ref[dest[t]] = NULL
        /\ ref' = [ref EXCEPT ![dest[t]] = i[t]]
        /\ refcount' = [refcount EXCEPT ![i[t]] = Inc(refcount[i[t]])]
        /\ refcount[i[t]] # 0
    BY <1>14 DEF ReadCas, Reservations
  <2>2. \A s \in Slots : RootOwns(s)' <=> RootOwns(s)
    BY <1>14 DEF ReadCas
  <2>3. RefcountAccounts'
    BY <2>1, <2>2, TakeReference
  <2> QED
    BY <1>14, <2>1, <2>3 DEF ReadCas
<1>15. ASSUME NEW t \in Threads, NEW p \in Ptrs, NEW q \in Ptrs, Copy(t, p, q)
       PROVE Accounts'
  <2>1. /\ ref[q] \in Slots /\ ref[p] = NULL
        /\ ref' = [ref EXCEPT ![p] = ref[q]]
        /\ refcount' = [refcount EXCEPT ![ref[q]] = Inc(refcount[ref[q]])]
    BY <1>15 DEF Copy, Empty, Reservations
  <2>2. \A s \in Slots : RootOwns(s)' <=> RootOwns(s)
    BY <1>15 DEF Copy
  <2>3. RefcountAccounts'
    BY <2>1, <2>2, TakeReference
  <2>4. refcount[ref[q]] # 0
    BY <2>1, CounterRange DEF Holders
  <2> QED
    BY <1>15, <2>1, <2>3, <2>4 DEF Copy
<1>16. ASSUME NEW t \in Threads, NEW p \in Ptrs, NEW q \in Ptrs, Swap(t, p, q)
       PROVE Accounts'
  <2>1. ref' = [ref EXCEPT ![p] = ref[q], ![q] = ref[p]]
    BY <1>16 DEF Swap
  <2>2. \A s \in Slots : Cardinality(Holders(s)') = Cardinality(Holders(s))
    BY <2>1, HoldersSwap
  <2>3. \A s \in Slots : RootOwns(s)' <=> RootOwns(s)
    BY <1>16 DEF Swap
  <2> QED
    BY <1>16, <2>2, <2>3 DEF Swap, RefcountAccounts
<1>17. ASSUME NEW t \in Threads, NEW p \in Ptrs, Reset(t, p) PROVE Accounts'
  <2>1. /\ ref[p] \in Slots
        /\ ref' = [ref EXCEPT ![p] = NULL]
        /\ refcount' = [refcount EXCEPT ![ref[p]] = Dec(refcount[ref[p]])]
    BY <1>17 DEF Reset, Reservations
  <2>2. \A s \in Slots : RootOwns(s)' <=> RootOwns(s)
    BY <1>17 DEF Reset
  <2>3. /\ \A s \in Slots : Cardinality(Holders(s)') =
             IF s = ref[p] THEN Cardinality(Holders(s)) - 1 ELSE Cardinality(Holders(s))
        /\ Holders(ref[p]) # {}
    BY <2>1, HoldersRemove
  <2>4. refcount[ref[p]] # 0 /\ refcount[ref[p]] \in Nat
    BY <2>1, <2>3, CounterRange
  <2>5. refcount'[ref[p]] = refcount[ref[p]] - 1
    BY <2>1, <2>4 DEF Dec
  <2>6. \A s \in Slots : s # ref[p] => refcount'[s] = refcount[s]
    BY <2>1
  <2>7. RefcountAccounts'
    BY <2>1, <2>2, <2>3, <2>5, <2>6, HoldersFinite DEF RefcountAccounts
  <2> QED
    BY <1>17, <2>4, <2>6, <2>7 DEF Reset
<1>18. ASSUME NEW t \in Threads, UpdateStoreRef(t) PROVE Accounts'
  <2>1. /\ i[t] \in Slots /\ refcount[i[t]] = 0 /\ ref' = ref
        /\ refcount' = [refcount EXCEPT ![i[t]] = 1]
    BY <1>18 DEF UpdateStoreRef
  <2>2. \A s \in Slots : RootOwns(s)' <=> (RootOwns(s) \/ s = i[t])
    BY <1>18 DEF UpdateStoreRef
  <2>3. RefcountAccounts'
    <3> HIDE DEF TypeInv, RootOwns
    <3> QED
      BY <2>1, <2>2, RootTakes
  <2> QED
    BY <1>18, <2>3 DEF UpdateStoreRef
<1>19. ASSUME NEW t \in Threads, UpdateFreeOld(t) PROVE Accounts'
  <2>1. /\ old[t] \in Slots /\ old[t] # index /\ ref' = ref
        /\ refcount' = [refcount EXCEPT ![old[t]] = Dec(refcount[old[t]])]
    BY <1>19 DEF UpdateFreeOld
  <2>2. root = "alive" /\ \A u \in Threads : u # t => pc[u] \notin LockedPcs
    BY <1>19 DEF UpdateFreeOld
  <2>3. \A s \in Slots : RootOwns(s) <=> s \in {index, old[t]}
    BY <1>19, <2>2 DEF UpdateFreeOld
  <2>4. root' = "alive" /\ index' = index /\ pc'[t] \in {"deleteOld", "idle"}
        /\ \A u \in Threads : u # t => pc'[u] \notin LockedPcs
    BY <1>19, <2>2 DEF UpdateFreeOld
  <2>5. \A s \in Slots : RootOwns(s)' <=> s = index
    BY <2>4
  <2>6. RefcountAccounts' /\ refcount'[old[t]] = refcount[old[t]] - 1
    <3> HIDE DEF TypeInv, RootOwns
    <3> QED
      BY <2>1, <2>3, <2>5, RootDrops
  <2>7. pc'[t] = "deleteOld" => old'[t] = old[t] /\ refcount[old[t]] = 1
    BY <1>19 DEF UpdateFreeOld
  <2> QED
    BY <2>4, <2>6, <2>7
<1>20. ASSUME Destroy PROVE Accounts'
  <2>1. /\ index \in Slots /\ ref' = ref
        /\ refcount' = [refcount EXCEPT ![index] = Dec(refcount[index])]
    BY <1>20 DEF Destroy
  <2>2. \A s \in Slots : (RootOwns(s) <=> s = index) /\ ~RootOwns(s)'
    BY <1>20 DEF Destroy
  <2>3. RefcountAccounts'
    <3> HIDE DEF TypeInv, RootOwns
    <3> QED
      BY <2>1, <2>2, RootDrops
  <2> QED
    BY <1>20, <2>3 DEF Destroy
<1>21. ASSUME UNCHANGED vars PROVE Accounts'
  BY <1>21, AccountsKept DEF vars
<1> QED
  BY <1>1, <1>2, <1>3, <1>4, <1>5, <1>6, <1>7, <1>8, <1>9, <1>10, <1>11, <1>12,
     <1>13, <1>14, <1>15, <1>16, <1>17, <1>18, <1>19, <1>20, <1>21
     DEF Next, Step, Call, Over

\* The invariant of the control state and of the counters.
CountInv == Known /\ Accounts

LEMMA CountInvariant == Spec => []CountInv
<1>1. Init => CountInv
  BY TypeInit, LockingInit, ReservationsInit, AccountsInit DEF CountInv, Known
<1>2. CountInv /\ [Next]_vars => CountInv'
  BY TypeStep, LockingStep, ReservationsStep, AccountsStep DEF CountInv, Known
<1> QED
  BY <1>1, <1>2, PTL DEF Spec

\* Every counter of slot_ equals the number of references to its slot, in
\* every interleaving, whatever the number of slots, threads and handles.
THEOREM RefcountsExact == Spec => []RefcountAccounts
<1>1. CountInv => RefcountAccounts
  BY DEF CountInv, Accounts
<1> QED
  BY <1>1, CountInvariant, PTL
-----------------------------------------------------------------------------
(* Ownership of the objects *)

\* A referenced slot that update() is not filling owns the object it points
\* to; so does a thread the object it will publish or delete.
SlotOwns(s) == refcount[s] # 0 /\ \A u \in Threads : ~Filling(u, s)
ThreadOwns(t) ==
  pc[t] \in {"lock", "scan", "storeRef", "storePtr", "ptrDelete", "deleteOld"}
Owned(t) == IF pc[t] = "deleteOld" THEN slotPtr[old[t]] ELSE obj[t]

\* Every allocated object has exactly one owner.
OwnedOnce ==
  /\ \A s \in Slots : SlotOwns(s) => slotPtr[s] \in live
  /\ \A r, s \in Slots : SlotOwns(r) /\ SlotOwns(s) /\ slotPtr[r] = slotPtr[s] => r = s
  /\ \A t \in Threads : ThreadOwns(t) => Owned(t) \in live
  /\ \A t, u \in Threads : ThreadOwns(t) /\ ThreadOwns(u) /\ Owned(t) = Owned(u) => t = u
  /\ \A t \in Threads, s \in Slots : ThreadOwns(t) /\ SlotOwns(s) => Owned(t) # slotPtr[s]
  /\ \A o \in live : \/ \E s \in Slots : SlotOwns(s) /\ slotPtr[s] = o
                     \/ \E t \in Threads : ThreadOwns(t) /\ Owned(t) = o

\* Every rcu_ptr has the object of a slot that owns it.
Snapshots ==
  \A p \in Ptrs : ptr[p] # NULL => /\ ptr[p] = slotPtr[ref[p]]
                                   /\ \A u \in Threads : ~Filling(u, ref[p])

OwnerInv == ~stale => OwnedOnce /\ Snapshots

\* What a step leaves alone.
SameSlot(s) == (SlotOwns(s)' <=> SlotOwns(s)) /\ (SlotOwns(s) => slotPtr'[s] = slotPtr[s])
SameThread(t) == (ThreadOwns(t)' <=> ThreadOwns(t)) /\ (ThreadOwns(t) => Owned(t)' = Owned(t))

LEMMA OwnerInit == Init => OwnerInv
  BY ZeroType, NullAssumption
     DEF Init, OwnerInv, OwnedOnce, Snapshots, SlotOwns, ThreadOwns, Owned, Filling

\* The five ways a step may change the owners.
LEMMA OwnersKept ==
  ASSUME OwnedOnce, live' = live, \A s \in Slots : SameSlot(s),
         \A t \in Threads : SameThread(t)
  PROVE  OwnedOnce'
  BY DEF OwnedOnce, SameSlot, SameThread

LEMMA ThreadCreates ==
  ASSUME OwnedOnce, NEW t \in Threads, NEW o, o \notin live, live' = live \cup {o},
         \A u \in Threads : IF u = t THEN ThreadOwns(u)' /\ ~ThreadOwns(u) /\ Owned(u)' = o
                                     ELSE SameThread(u),
         \A s \in Slots : SameSlot(s)
  PROVE  OwnedOnce'
  BY DEF OwnedOnce, SameSlot, SameThread

LEMMA ThreadFrees ==
  ASSUME OwnedOnce, NEW t \in Threads, live' = live \ {Owned(t)}, ThreadOwns(t),
         \A u \in Threads : IF u = t THEN ~ThreadOwns(u)' ELSE SameThread(u),
         \A s \in Slots : SameSlot(s)
  PROVE  OwnedOnce'
  BY DEF OwnedOnce, SameSlot, SameThread

LEMMA ThreadToSlot ==
  ASSUME OwnedOnce, NEW t \in Threads, NEW s \in Slots, live' = live,
         ThreadOwns(t), ~SlotOwns(s), slotPtr'[s] = Owned(t),
         \A u \in Threads : IF u = t THEN ~ThreadOwns(u)' ELSE SameThread(u),
         \A r \in Slots : IF r = s THEN SlotOwns(r)' ELSE SameSlot(r)
  PROVE  OwnedOnce'
  BY DEF OwnedOnce, SameSlot, SameThread

LEMMA SlotToThread ==
  ASSUME OwnedOnce, NEW t \in Threads, NEW s \in Slots, live' = live,
         ~ThreadOwns(t), SlotOwns(s),
         \A u \in Threads : IF u = t THEN ThreadOwns(u)' /\ Owned(u)' = slotPtr[s]
                                     ELSE SameThread(u),
         \A r \in Slots : IF r = s THEN ~SlotOwns(r)' ELSE SameSlot(r)
  PROVE  OwnedOnce'
  BY DEF OwnedOnce, SameSlot, SameThread

LEMMA SlotFrees ==
  ASSUME OwnedOnce, NEW s \in Slots, SlotOwns(s), live' = live \ {slotPtr[s]},
         \A u \in Threads : SameThread(u),
         \A r \in Slots : IF r = s THEN ~SlotOwns(r)' ELSE SameSlot(r)
  PROVE  OwnedOnce'
  BY DEF OwnedOnce, SameSlot, SameThread

\* A referenced slot has a counter above 0.
LEMMA ReferencedSlot ==
  ASSUME CountInv, NEW s \in Slots, Holders(s) # {} \/ RootOwns(s)
  PROVE  refcount[s] # 0
  BY CounterRange DEF CountInv, Known, Accounts

LEMMA HeldSlots == CountInv => \A s \in Slots : Holders(s) # {} => refcount[s] # 0
  BY ReferencedSlot

LEMMA OwnedOnceStep ==
  CountInv /\ CountInv' /\ OwnedOnce /\ Snapshots /\ [Next]_vars => OwnedOnce'
<1> SUFFICES ASSUME CountInv, CountInv', OwnedOnce, Snapshots, [Next]_vars
             PROVE  OwnedOnce'
  OBVIOUS
<1>0. (\A s \in Slots : Holders(s) # {} => refcount[s] # 0)'
  BY HeldSlots, PTL
<1> USE NullAssumption DEF CountInv, Known, TypeInv, TypeOK, Locking, Accounts, Pcs,
        ReadPcs, LockedPcs, shared, handles, locals, history, Goto, Return, Idle
<1>1. ASSUME NEW t \in Threads, NEW p \in Ptrs, ReadBegin(t, p)
       PROVE  OwnedOnce'
  BY <1>1, OwnersKept DEF ReadBegin, SameSlot, SameThread, SlotOwns, ThreadOwns, Owned, Filling
<1>2. ASSUME NEW t \in Threads, ReadIndex(t)
       PROVE  OwnedOnce'
  BY <1>2, OwnersKept DEF ReadIndex, SameSlot, SameThread, SlotOwns, ThreadOwns, Owned, Filling
<1>3. ASSUME NEW t \in Threads, ReadRef(t)
       PROVE  OwnedOnce'
  BY <1>3, OwnersKept DEF ReadRef, SameSlot, SameThread, SlotOwns, ThreadOwns, Owned, Filling
<1>4. ASSUME NEW t \in Threads, ReadRetry(t)
       PROVE  OwnedOnce'
  BY <1>4, OwnersKept DEF ReadRetry, SameSlot, SameThread, SlotOwns, ThreadOwns, Owned, Filling
<1>5. ASSUME NEW t \in Threads, ReadPtr(t)
       PROVE  OwnedOnce'
  BY <1>5, OwnersKept DEF ReadPtr, SameSlot, SameThread, SlotOwns, ThreadOwns, Owned, Filling
<1>6. ASSUME NEW t \in Threads, UpdateLock(t)
       PROVE  OwnedOnce'
  BY <1>6, OwnersKept DEF UpdateLock, SameSlot, SameThread, SlotOwns, ThreadOwns, Owned, Filling
<1>7. ASSUME NEW t \in Threads, UpdateScan(t)
       PROVE  OwnedOnce'
  BY <1>7, OwnersKept DEF UpdateScan, SameSlot, SameThread, SlotOwns, ThreadOwns, Owned, Filling
<1>8. ASSUME NEW t \in Threads, UpdateStoreRef(t)
       PROVE  OwnedOnce'
  BY <1>8, OwnersKept DEF UpdateStoreRef, SameSlot, SameThread, SlotOwns, ThreadOwns, Owned, Filling
<1>9. ASSUME NEW t \in Threads, UpdateStoreIndex(t)
       PROVE  OwnedOnce'
  BY <1>9, OwnersKept DEF UpdateStoreIndex, SameSlot, SameThread, SlotOwns, ThreadOwns, Owned, Filling
<1>10. ASSUME NEW t \in Threads, NEW p \in Ptrs, NEW q \in Ptrs, Swap(t, p, q)
       PROVE  OwnedOnce'
  BY <1>10, OwnersKept DEF Swap, SameSlot, SameThread, SlotOwns, ThreadOwns, Owned, Filling
<1>11. ASSUME NEW t \in Threads, ReadCas(t)
       PROVE  OwnedOnce'
  <2>1. refcount[i[t]] # 0 /\ \A s \in Slots : s # i[t] => refcount'[s] = refcount[s]
    BY <1>11 DEF ReadCas
  <2>2. \A s \in Slots : s = i[t] => Holders(s)' # {}
    BY <1>11 DEF ReadCas, Holders, Reservations
  <2>3. \A s \in Slots : s = i[t] => refcount'[s] # 0
    BY <1>0, <2>2
  <2> QED
    BY <1>11, <2>1, <2>3, OwnersKept DEF ReadCas, SameSlot, SameThread, SlotOwns, ThreadOwns, Owned, Filling
<1>12. ASSUME NEW t \in Threads, NEW p \in Ptrs, NEW q \in Ptrs, Copy(t, p, q)
       PROVE  OwnedOnce'
  <2>1. ref[q] \in Slots /\ \A s \in Slots : s # ref[q] => refcount'[s] = refcount[s]
    BY <1>12 DEF Copy, Reservations
  <2>2. Holders(ref[q]) # {}
    BY <2>1 DEF Holders
  <2>3. refcount[ref[q]] # 0
    BY <2>1, <2>2, ReferencedSlot
  <2>4. \A s \in Slots : s = ref[q] => Holders(s)' # {}
    BY <1>12, <2>1 DEF Copy, Holders
  <2>5. \A s \in Slots : s = ref[q] => refcount'[s] # 0
    BY <1>0, <2>4
  <2> QED
    BY <1>12, <2>1, <2>3, <2>5, OwnersKept DEF Copy, SameSlot, SameThread, SlotOwns, ThreadOwns, Owned, Filling
<1>13. ASSUME NEW t \in Threads, NEW o \in Objects, UpdateBegin(t, o)
       PROVE  OwnedOnce'
  <2>1. \A u \in Threads : IF u = t THEN ThreadOwns(u)' /\ ~ThreadOwns(u) /\ Owned(u)' = o
                                     ELSE SameThread(u)
    BY <1>13 DEF UpdateBegin, SameSlot, SameThread, SlotOwns, ThreadOwns, Owned, Filling
  <2>2. \A s \in Slots : SameSlot(s)
    BY <1>13 DEF UpdateBegin, SameSlot, SameThread, SlotOwns, ThreadOwns, Owned, Filling
  <2> QED
    BY <1>13, <2>1, <2>2, ThreadCreates DEF UpdateBegin
<1>14. ASSUME NEW t \in Threads, UpdateFull(t) \/ UpdateDeleteOld(t) \/ PtrDelete(t)
       PROVE  OwnedOnce'
  <2>1. ThreadOwns(t) /\ live' = live \ {Owned(t)}
    BY <1>14 DEF UpdateFull, UpdateDeleteOld, PtrDelete, ThreadOwns, Owned
  <2>2. \A u \in Threads : IF u = t THEN ~ThreadOwns(u)' ELSE SameThread(u)
    BY <1>14 DEF UpdateFull, UpdateDeleteOld, PtrDelete, SameSlot, SameThread, SlotOwns, ThreadOwns, Owned, Filling
  <2>3. \A s \in Slots : SameSlot(s)
    BY <1>14 DEF UpdateFull, UpdateDeleteOld, PtrDelete, SameSlot, SameThread, SlotOwns, ThreadOwns, Owned, Filling
  <2> QED
    BY <2>1, <2>2, <2>3, ThreadFrees
<1>15. ASSUME NEW t \in Threads, UpdateStorePtr(t)
       PROVE  OwnedOnce'
  <2>1. /\ i[t] \in Slots /\ live' = live /\ ThreadOwns(t) /\ ~SlotOwns(i[t])
        /\ slotPtr'[i[t]] = Owned(t)
    BY <1>15 DEF UpdateStorePtr, SlotOwns, ThreadOwns, Owned, Filling
  <2>2. \A u \in Threads : IF u = t THEN ~ThreadOwns(u)' ELSE SameThread(u)
    BY <1>15 DEF UpdateStorePtr, SameSlot, SameThread, SlotOwns, ThreadOwns, Owned, Filling
  <2>3. refcount[i[t]] # 0
    BY <1>15, ReferencedSlot DEF UpdateStorePtr, RootOwns
  <2>4. \A r \in Slots : IF r = i[t] THEN SlotOwns(r)' ELSE SameSlot(r)
    BY <1>15, <2>3 DEF UpdateStorePtr, SameSlot, SameThread, SlotOwns, ThreadOwns, Owned, Filling
  <2> QED
    BY <2>1, <2>2, <2>4, ThreadToSlot
<1>16. ASSUME NEW t \in Threads, NEW p \in Ptrs, Reset(t, p)
       PROVE  OwnedOnce'
  <2>1. ref[p] \in Slots /\ refcount' = [refcount EXCEPT ![ref[p]] = Dec(refcount[ref[p]])]
    BY <1>16 DEF Reset, Reservations
  <2>2. refcount[ref[p]] # 0
    BY <2>1, ReferencedSlot DEF Holders
  <2>3. CASE refcount[ref[p]] # 1
    <3>1. refcount'[ref[p]] # 0
      BY <2>1, <2>2, <2>3 DEF Dec
    <3> QED
      BY <1>16, <2>1, <2>2, <2>3, <3>1, OwnersKept DEF Reset, SameSlot, SameThread, SlotOwns, ThreadOwns, Owned, Filling
  <2>4. CASE refcount[ref[p]] = 1
    <3>1. refcount'[ref[p]] = 0
      BY <2>1, <2>4 DEF Dec
    <3>2. live' = live /\ ~ThreadOwns(t) /\ SlotOwns(ref[p]) /\ ptr[p] = slotPtr[ref[p]]
      BY <1>16, <2>4 DEF Reset, ThreadOwns, SlotOwns, Snapshots
    <3>3. \A u \in Threads : IF u = t THEN ThreadOwns(u)' /\ Owned(u)' = slotPtr[ref[p]]
                                       ELSE SameThread(u)
      BY <1>16, <2>4, <3>2 DEF Reset, SameThread, ThreadOwns, Owned
    <3>4. \A r \in Slots : IF r = ref[p] THEN ~SlotOwns(r)' ELSE SameSlot(r)
      BY <1>16, <2>1, <2>4, <3>1 DEF Reset, SameSlot, SlotOwns, Filling
    <3> QED
      BY <2>1, <3>2, <3>3, <3>4, SlotToThread
  <2> QED
    BY <2>3, <2>4
<1>17. ASSUME NEW t \in Threads, UpdateFreeOld(t)
       PROVE  OwnedOnce'
  <2>1. old[t] \in Slots /\ refcount' = [refcount EXCEPT ![old[t]] = Dec(refcount[old[t]])]
    BY <1>17 DEF UpdateFreeOld
  <2>2. refcount[old[t]] # 0 /\ \A u \in Threads : ~Filling(u, old[t])
    BY <1>17, <2>1, ReferencedSlot DEF UpdateFreeOld, RootOwns, Filling
  <2>3. CASE refcount[old[t]] # 1
    <3>1. refcount'[old[t]] # 0
      BY <2>1, <2>2, <2>3 DEF Dec
    <3> QED
      BY <1>17, <2>1, <2>2, <2>3, <3>1, OwnersKept DEF UpdateFreeOld, SameSlot, SameThread, SlotOwns, ThreadOwns, Owned, Filling
  <2>4. CASE refcount[old[t]] = 1
    <3>1. refcount'[old[t]] = 0
      BY <2>1, <2>4 DEF Dec
    <3>2. live' = live /\ ~ThreadOwns(t) /\ SlotOwns(old[t])
      BY <1>17, <2>2 DEF UpdateFreeOld, ThreadOwns, SlotOwns
    <3>3. \A u \in Threads : IF u = t THEN ThreadOwns(u)' /\ Owned(u)' = slotPtr[old[t]]
                                       ELSE SameThread(u)
      BY <1>17, <2>4 DEF UpdateFreeOld, SameThread, ThreadOwns, Owned
    <3>4. \A r \in Slots : IF r = old[t] THEN ~SlotOwns(r)' ELSE SameSlot(r)
      BY <1>17, <2>1, <2>4, <3>1 DEF UpdateFreeOld, SameSlot, SlotOwns, Filling
    <3> QED
      BY <2>1, <3>2, <3>3, <3>4, SlotToThread
  <2> QED
    BY <2>3, <2>4
<1>18. ASSUME Destroy PROVE OwnedOnce'
  <2>1. index \in Slots /\ refcount' = [refcount EXCEPT ![index] = Dec(refcount[index])]
    BY <1>18 DEF Destroy
  <2>2. refcount[index] # 0 /\ \A u \in Threads : ~Filling(u, index)
    BY <1>18, <2>1, ReferencedSlot DEF Destroy, RootOwns, Filling
  <2>3. CASE refcount[index] # 1
    <3>1. refcount'[index] # 0
      BY <2>1, <2>2, <2>3 DEF Dec
    <3> QED
      BY <1>18, <2>1, <2>2, <2>3, <3>1, OwnersKept DEF Destroy, SameSlot, SameThread, SlotOwns, ThreadOwns, Owned, Filling
  <2>4. CASE refcount[index] = 1
    <3>1. refcount'[index] = 0
      BY <2>1, <2>4 DEF Dec
    <3> QED
      BY <1>18, <2>1, <2>2, <2>4, <3>1, SlotFrees DEF Destroy, SameSlot, SameThread, SlotOwns, ThreadOwns, Owned, Filling
  <2> QED
    BY <2>3, <2>4
<1>19. ASSUME UNCHANGED vars PROVE OwnedOnce'
  BY <1>19, OwnersKept DEF vars, SameSlot, SameThread, SlotOwns, ThreadOwns, Owned, Filling
<1> QED
  BY <1>1, <1>2, <1>3, <1>4, <1>5, <1>6, <1>7, <1>8, <1>9, <1>10, <1>11, <1>12,
     <1>13, <1>14, <1>15, <1>16, <1>17, <1>18, <1>19 DEF Next, Step, Call, Over

\* A rcu_ptr keeps the object of its slot: update() only fills a slot no
\* rcu_ptr refers to, and a pointer loaded while it fills it sets `stale'.
LEMMA SnapshotsStep ==
  CountInv /\ Snapshots /\ ~stale' /\ [Next]_vars => Snapshots'
<1> SUFFICES ASSUME CountInv, Snapshots, ~stale', [Next]_vars PROVE Snapshots'
  OBVIOUS
<1>0. \A p \in Ptrs : ptr[p] # NULL => ref[p] \in Slots /\ refcount[ref[p]] # 0
  <2> SUFFICES ASSUME NEW p \in Ptrs, ptr[p] # NULL
               PROVE  ref[p] \in Slots /\ refcount[ref[p]] # 0
    OBVIOUS
  <2>1. ref[p] \in Slots
    BY DEF CountInv, Known, TypeInv, TypeOK, Reservations
  <2> QED
    BY <2>1, HeldSlots DEF Holders
<1> USE NullAssumption DEF Snapshots, Filling, CountInv, Known, TypeInv, TypeOK,
        UsedSlots, Locking, Reservations, Accounts, Pcs, ReadPcs, LockedPcs, shared,
        handles, locals, history, Goto, Return, Idle, Empty
<1>1. ASSUME NEW t \in Threads, NEW p \in Ptrs, ReadBegin(t, p)
       PROVE  Snapshots'
  BY <1>1 DEF ReadBegin
<1>2. ASSUME NEW t \in Threads, ReadIndex(t)
       PROVE  Snapshots'
  BY <1>2 DEF ReadIndex
<1>3. ASSUME NEW t \in Threads, ReadRef(t)
       PROVE  Snapshots'
  BY <1>3 DEF ReadRef
<1>4. ASSUME NEW t \in Threads, ReadCas(t)
       PROVE  Snapshots'
  BY <1>4 DEF ReadCas
<1>5. ASSUME NEW t \in Threads, ReadRetry(t)
       PROVE  Snapshots'
  BY <1>5 DEF ReadRetry
<1>6. ASSUME NEW t \in Threads, ReadPtr(t)
       PROVE  Snapshots'
  <2>1. /\ dest[t] \in Ptrs /\ ref' = ref
        /\ ptr' = [ptr EXCEPT ![dest[t]] = slotPtr[i[t]]]
        /\ ref[dest[t]] = i[t] /\ slotPtr' = slotPtr
    BY <1>6 DEF ReadPtr
  <2>2. \A u \in Threads : ~(pc[u] = "storePtr" /\ i[u] = i[t])
    BY <1>6 DEF ReadPtr
  <2>3. \A u \in Threads : pc'[u] = "storePtr" => pc[u] = "storePtr" /\ i'[u] = i[u]
    BY <1>6 DEF ReadPtr
  <2> QED
    BY <2>1, <2>2, <2>3
<1>7. ASSUME NEW t \in Threads, NEW o \in Objects, UpdateBegin(t, o)
       PROVE  Snapshots'
  BY <1>7 DEF UpdateBegin
<1>8. ASSUME NEW t \in Threads, UpdateLock(t)
       PROVE  Snapshots'
  BY <1>8 DEF UpdateLock
<1>9. ASSUME NEW t \in Threads, UpdateScan(t)
       PROVE  Snapshots'
  BY <1>9 DEF UpdateScan
<1>10. ASSUME NEW t \in Threads, UpdateFull(t)
       PROVE  Snapshots'
  BY <1>10 DEF UpdateFull
<1>11. ASSUME NEW t \in Threads, UpdateStoreRef(t)
       PROVE  Snapshots'
  BY <1>11, <1>0 DEF UpdateStoreRef
<1>12. ASSUME NEW t \in Threads, UpdateStorePtr(t)
       PROVE  Snapshots'
  BY <1>12 DEF UpdateStorePtr
<1>13. ASSUME NEW t \in Threads, UpdateStoreIndex(t)
       PROVE  Snapshots'
  BY <1>13 DEF UpdateStoreIndex
<1>14. ASSUME NEW t \in Threads, UpdateFreeOld(t)
       PROVE  Snapshots'
  BY <1>14 DEF UpdateFreeOld
<1>15. ASSUME NEW t \in Threads, UpdateDeleteOld(t)
       PROVE  Snapshots'
  BY <1>15 DEF UpdateDeleteOld
<1>16. ASSUME NEW t \in Threads, NEW p \in Ptrs, NEW q \in Ptrs, Copy(t, p, q)
       PROVE  Snapshots'
  BY <1>16 DEF Copy
<1>17. ASSUME NEW t \in Threads, NEW p \in Ptrs, NEW q \in Ptrs, Swap(t, p, q)
       PROVE  Snapshots'
  BY <1>17 DEF Swap
<1>18. ASSUME NEW t \in Threads, NEW p \in Ptrs, Reset(t, p)
       PROVE  Snapshots'
  BY <1>18 DEF Reset
<1>19. ASSUME NEW t \in Threads, PtrDelete(t)
       PROVE  Snapshots'
  BY <1>19 DEF PtrDelete
<1>20. ASSUME Destroy PROVE Snapshots'
  BY <1>20 DEF Destroy
<1>21. ASSUME UNCHANGED vars PROVE Snapshots'
  BY <1>21 DEF vars
<1> QED
  BY <1>1, <1>2, <1>3, <1>4, <1>5, <1>6, <1>7, <1>8, <1>9, <1>10, <1>11, <1>12,
     <1>13, <1>14, <1>15, <1>16, <1>17, <1>18, <1>19, <1>20, <1>21
     DEF Next, Step, Call, Over

\* `stale' is never reset.
LEMMA StaleStep == [Next]_vars /\ stale => stale'
<1> SUFFICES ASSUME [Next]_vars, stale PROVE stale'
  OBVIOUS
<1>1. ASSUME NEW t \in Threads, Step(t) PROVE stale'
  BY <1>1 DEF Step, ReadIndex, ReadRef, ReadCas, ReadRetry, ReadPtr, UpdateLock,
     UpdateScan, UpdateFull, UpdateStoreRef, UpdateStorePtr, UpdateStoreIndex,
     UpdateFreeOld, UpdateDeleteOld, PtrDelete, history
<1>2. ASSUME NEW t \in Threads, Call(t) PROVE stale'
  BY <1>2 DEF Call, ReadBegin, Reset, Copy, Swap, UpdateBegin, history
<1> QED
  BY <1>1, <1>2 DEF Next, Destroy, Over, vars, history

LEMMA OwnerStep == CountInv /\ CountInv' /\ OwnerInv /\ [Next]_vars => OwnerInv'
  BY OwnedOnceStep, SnapshotsStep, StaleStep DEF OwnerInv

LEMMA OwnerInvariant == Spec => [](CountInv /\ OwnerInv)
  BY CountInvariant, OwnerInit, OwnerStep, PTL DEF Spec

\* As long as no read() loads the pointer of a slot that update() has counted
\* but not filled, no rcu_ptr refers to a freed object.
THEOREM HandlesSafe == Spec => []NoUseAfterFree
<1>1. CountInv /\ OwnerInv => NoUseAfterFree
  <2> SUFFICES ASSUME CountInv, OwnerInv, ~stale, NEW p \in Ptrs, ptr[p] # NULL
               PROVE  ptr[p] \in live /\ ptr[p] = slotPtr[ref[p]]
    BY DEF NoUseAfterFree
  <2>1. ref[p] \in Slots
    BY DEF CountInv, Known, TypeInv, TypeOK, Reservations
  <2>2. SlotOwns(ref[p])
    BY <2>1, HeldSlots DEF Holders, SlotOwns, OwnerInv, Snapshots
  <2> QED
    BY <2>1, <2>2 DEF OwnerInv, OwnedOnce, Snapshots
<1> QED
  BY <1>1, OwnerInvariant, PTL

\* Under the same condition an object is deleted once, and only when nothing
\* refers to it any more.
THEOREM DeletesOnce == Spec => []NoDoubleFree
<1>1. CountInv /\ OwnerInv => NoDoubleFree
  <2> SUFFICES ASSUME CountInv, OwnerInv, ~stale PROVE NoDoubleFree
    BY DEF NoDoubleFree
  <2>0. \A p \in Ptrs : ptr[p] # NULL =>
          ref[p] \in Slots /\ SlotOwns(ref[p]) /\ ptr[p] = slotPtr[ref[p]]
    BY HeldSlots DEF CountInv, Known, TypeInv, TypeOK, Reservations, Holders, SlotOwns,
       OwnerInv, Snapshots
  <2>1. \A t \in Threads : pc[t] \in {"ptrDelete", "deleteOld"} => ThreadOwns(t)
    BY DEF ThreadOwns
  <2>2. \A t \in Threads : ThreadOwns(t) => Owned(t) # NULL
    BY NullAssumption DEF OwnerInv, OwnedOnce, CountInv, Known, TypeInv, TypeOK
  <2> QED
    BY <2>0, <2>1, <2>2 DEF NoDoubleFree, Owned, OwnerInv, OwnedOnce, SlotOwns
<1> QED
  BY <1>1, OwnerInvariant, PTL

\* And when no call is running, every allocated object is the current one or
\* is held by some rcu_ptr.
THEOREM NothingLeaks == Spec => []NoLeak
<1>1. CountInv /\ OwnerInv => NoLeak
  <2> SUFFICES ASSUME CountInv, OwnerInv, ~stale, root = "alive",
                      \A t \in Threads : pc[t] = "idle"
               PROVE  live = {slotPtr[index]} \cup
                             {ptr[p] : p \in {q \in Ptrs : ptr[q] # NULL}}
    BY DEF NoLeak
  <2> USE DEF CountInv, Known
  <2>1. \A t \in Threads : ~ThreadOwns(t)
    BY DEF ThreadOwns
  <2>2. \A s \in Slots : SlotOwns(s) <=> refcount[s] # 0
    BY DEF SlotOwns, Filling
  <2>3. index \in Slots /\ refcount[index] # 0
    BY ReferencedSlot DEF TypeInv, TypeOK, RootOwns
  <2>4. \A s \in Slots : RootOwns(s) => s = index
    BY DEF RootOwns
  <2>5. \A s \in Slots : refcount[s] # 0 /\ s # index => Holders(s) # {}
    BY <2>4, CounterRange DEF Accounts
  <2>6. \A p \in Ptrs : ref[p] # NULL => ptr[p] # NULL
    BY DEF Reservations
  <2>7. \A p \in Ptrs : ptr[p] # NULL => ref[p] \in Slots /\ refcount[ref[p]] # 0
    BY HeldSlots DEF Reservations, TypeInv, TypeOK, Holders
  <2>8. \A s \in Slots : Holders(s) # {} => \E p \in Ptrs : ref[p] = s /\ ptr[p] # NULL
    BY <2>6, NullAssumption DEF Holders
  <2> QED
    BY <2>1, <2>2, <2>3, <2>5, <2>7, <2>8 DEF OwnerInv, OwnedOnce, Snapshots
<1> QED
  BY <1>1, OwnerInvariant, PTL
-----------------------------------------------------------------------------
(* The destructor *)

\* Once ~rcu() has run nothing changes any more, and its verdict is about the
\* counters it found: none left, or at least one.
Verdict ==
  /\ root = "destroyed" => \A s \in Slots : refcount[s] = 0
  /\ root = "aborted" => \E s \in Slots : refcount[s] # 0

LEMMA ClosedStep == CountInv /\ root # "alive" /\ [Next]_vars => UNCHANGED vars
<1> SUFFICES ASSUME CountInv, root # "alive", [Next]_vars PROVE UNCHANGED vars
  OBVIOUS
<1>1. \A t \in Threads : pc[t] = "idle"
  BY DEF CountInv, Known, Locking
<1>2. \A t \in Threads : ~Step(t)
  BY <1>1 DEF Step, ReadIndex, ReadRef, ReadCas, ReadRetry, ReadPtr, UpdateLock,
     UpdateScan, UpdateFull, UpdateStoreRef, UpdateStorePtr, UpdateStoreIndex,
     UpdateFreeOld, UpdateDeleteOld, PtrDelete
<1>3. \A t \in Threads : ~Call(t)
  BY DEF Call, ReadBegin, Reset, Copy, Swap, UpdateBegin, Idle
<1> QED
  BY <1>2, <1>3 DEF Next, Destroy, Over

LEMMA RootStep == [Next]_vars /\ root = "alive" => root' = "alive" \/ Destroy
<1> SUFFICES ASSUME [Next]_vars, root = "alive", ~Destroy PROVE root' = "alive"
  OBVIOUS
<1>1. ASSUME NEW t \in Threads, Step(t) PROVE root' = "alive"
  BY <1>1 DEF Step, ReadIndex, ReadRef, ReadCas, ReadRetry, ReadPtr, UpdateLock,
     UpdateScan, UpdateFull, UpdateStoreRef, UpdateStorePtr, UpdateStoreIndex,
     UpdateFreeOld, UpdateDeleteOld, PtrDelete, shared
<1>2. ASSUME NEW t \in Threads, Call(t) PROVE root' = "alive"
  BY <1>2 DEF Call, ReadBegin, Reset, Copy, Swap, UpdateBegin, shared
<1> QED
  BY <1>1, <1>2 DEF Next, Over, vars, shared

LEMMA VerdictStep == CountInv /\ Verdict /\ [Next]_vars => Verdict'
<1> SUFFICES ASSUME CountInv, Verdict, [Next]_vars PROVE Verdict'
  OBVIOUS
<1>1. CASE root # "alive"
  BY <1>1, ClosedStep DEF Verdict, vars, shared
<1>2. CASE root = "alive" /\ root' = "alive"
  BY <1>2 DEF Verdict
<1>3. CASE root = "alive" /\ Destroy
  <2>1. index \in Slots /\ refcount \in [Slots -> 0 .. RefMod - 1]
    BY DEF CountInv, Known, TypeInv, TypeOK
  <2>2. refcount[index] # 0
    BY <1>3, <2>1, ReferencedSlot DEF RootOwns
  <2>3. refcount'[index] = refcount[index] - 1
    BY <1>3, <2>1, <2>2 DEF Destroy, Dec
  <2> QED
    BY <1>3, <2>1, <2>2, <2>3 DEF Destroy, Verdict
<1> QED
  BY <1>1, <1>2, <1>3, RootStep

LEMMA VerdictInvariant == Spec => []Verdict
<1>1. Init => Verdict
  BY DEF Init, Verdict
<1> QED
  BY <1>1, VerdictStep, CountInvariant, PTL DEF Spec

\* ~rcu() aborts exactly when a rcu_ptr is still held, and leaves no object
\* behind when it does not, for every way the program got there.
THEOREM DestructorRight == Spec => []DestructorVerdict
<1>1. CountInv /\ OwnerInv /\ Verdict => DestructorVerdict
  <2> SUFFICES ASSUME CountInv, OwnerInv, Verdict, ~stale, root # "alive"
               PROVE  /\ root = "aborted" => \E p \in Ptrs : ptr[p] # NULL
                      /\ root = "destroyed" => live = {} /\ \A p \in Ptrs : ptr[p] = NULL
    BY DEF DestructorVerdict
  <2> USE DEF CountInv, Known
  <2>1. \A t \in Threads : pc[t] = "idle"
    BY DEF Locking
  <2>2. \A s \in Slots : refcount[s] = 0 <=> Holders(s) = {}
    BY <2>1, CounterRange DEF Accounts, RootOwns
  <2>3. \A p \in Ptrs : ptr[p] # NULL <=> ref[p] # NULL
    BY <2>1 DEF Reservations
  <2>4. \A p \in Ptrs : ref[p] \in Slots \cup {NULL}
    BY DEF TypeInv, TypeOK
  <2>5. ASSUME root = "aborted" PROVE \E p \in Ptrs : ptr[p] # NULL
    BY <2>2, <2>3, <2>5, NullAssumption DEF Verdict, Holders
  <2>6. ASSUME root = "destroyed" PROVE live = {} /\ \A p \in Ptrs : ptr[p] = NULL
    <3>1. \A s \in Slots : refcount[s] = 0 /\ Holders(s) = {}
      BY <2>2, <2>6 DEF Verdict
    <3>2. \A p \in Ptrs : ref[p] = NULL
      BY <2>4, <3>1 DEF Holders
    <3>3. live = {}
      BY <2>1, <3>1 DEF OwnerInv, OwnedOnce, SlotOwns, ThreadOwns
    <3> QED
      BY <2>3, <3>2, <3>3
  <2> QED
    BY <2>5, <2>6
<1> QED
  BY <1>1, OwnerInvariant, VerdictInvariant, PTL
-----------------------------------------------------------------------------
(* The scan of update() *)

\* How far the scan that started behind slot a has come when it is at slot b,
\* and the slots in use it has not looked at yet.
Ahead(a, b) == IF b >= a THEN b - a ELSE b + N - a
BusyAhead(t) == {s \in Slots : Ahead(old[t], s) > Ahead(old[t], i[t]) /\ refcount[s] # 0}

\* The slots a scan found in use and those it may still find in use are never
\* more than the handles: a handle may move on to a slot the scan has not
\* reached only if that slot was in use already.
ScanCounts ==
  \A t \in Threads : pc[t] = "scan" =>
    Ahead(old[t], i[t]) + Cardinality(BusyAhead(t)) <= Cardinality(Ptrs)

LEMMA SlotsFinite == IsFiniteSet(Slots)
  BY FS_Interval, SlotAssumption DEF Slots

LEMMA BusyAheadFinite ==
  ASSUME NEW t \in Threads
  PROVE  IsFiniteSet(BusyAhead(t)) /\ Cardinality(BusyAhead(t)) \in Nat
<1>1. BusyAhead(t) \in SUBSET Slots
  BY DEF BusyAhead
<1> QED
  BY <1>1, SlotsFinite, FS_Subset, FS_CardinalityType

\* One turn of the loop goes one slot further.
LEMMA AheadNext ==
  ASSUME NEW a \in Slots, NEW b \in Slots
  PROVE  /\ Ahead(a, b) \in 0 .. N - 1
         /\ Ahead(a, a) = 0
         /\ Ahead(a, b) = 0 => a = b
         /\ NextSlot(b) = a => Ahead(a, b) = N - 1
         /\ NextSlot(b) # a => Ahead(a, NextSlot(b)) = Ahead(a, b) + 1
         /\ \A c \in Slots : Ahead(a, b) = Ahead(a, c) => b = c
<1>1. N \in Nat /\ N > 0 /\ a \in Int /\ b \in Int /\ 0 <= a /\ a < N /\ 0 <= b /\ b < N
  BY SlotAssumption DEF Slots
<1>2. NextSlot(b) = IF b = N - 1 THEN 0 ELSE b + 1
  BY <1>1 DEF NextSlot
<1> QED
  BY <1>1, <1>2 DEF Ahead, Slots

\* A slot nobody refers to stays so until update() takes it.
LEMMA UnusedStays ==
  ASSUME CountInv, [Next]_vars, NEW s \in Slots, refcount[s] = 0,
         \A t \in Threads : pc[t] = "storeRef" => i[t] # s
  PROVE  refcount'[s] = 0
<1> USE DEF CountInv, Known, TypeInv, TypeOK
<1>1. ASSUME NEW r \in Slots, Holders(r) # {} \/ RootOwns(r) PROVE r # s
  BY <1>1, ReferencedSlot
<1>2. ASSUME NEW t \in Threads, Step(t) PROVE refcount'[s] = 0
  <2>1. CASE ReadCas(t)
    BY <2>1 DEF ReadCas, Locking
  <2>2. CASE UpdateStoreRef(t)
    BY <2>2 DEF UpdateStoreRef
  <2>3. CASE UpdateFreeOld(t)
    <3>1. old[t] # s
      BY <1>1, <2>3 DEF UpdateFreeOld, RootOwns
    <3> QED
      BY <2>3, <3>1 DEF UpdateFreeOld
  <2> QED
    BY <1>2, <2>1, <2>2, <2>3 DEF Step, ReadIndex, ReadRef, ReadRetry, ReadPtr,
       UpdateLock, UpdateScan, UpdateFull, UpdateStorePtr, UpdateStoreIndex,
       UpdateDeleteOld, PtrDelete, shared
<1>3. ASSUME NEW t \in Threads, Call(t) PROVE refcount'[s] = 0
  <2>1. ASSUME NEW p \in Ptrs, ptr[p] # NULL PROVE ref[p] \in Slots /\ ref[p] # s
    BY <1>1, <2>1 DEF Reservations, Holders
  <2> QED
    BY <1>3, <2>1 DEF Call, ReadBegin, Reset, Copy, Swap, UpdateBegin, shared
<1>4. CASE Destroy
  <2>1. index # s
    BY <1>1, <1>4 DEF Destroy, RootOwns
  <2> QED
    BY <1>4, <2>1 DEF Destroy
<1> QED
  BY <1>2, <1>3, <1>4 DEF Next, Over, vars, shared

\* When the scan starts, every other slot in use has a holder of its own.
LEMMA ScanStarts ==
  CountInv => \A t \in Threads : pc[t] = "scan" /\ i[t] = old[t] =>
                Cardinality(BusyAhead(t)) <= Cardinality(Ptrs)
<1> SUFFICES ASSUME CountInv, NEW t \in Threads, pc[t] = "scan", i[t] = old[t]
             PROVE  Cardinality(BusyAhead(t)) <= Cardinality(Ptrs)
  OBVIOUS
<1>0. old[t] = index /\ \A u \in Threads : pc[u] \in LockedPcs => u = t
  BY DEF CountInv, Known, Locking, LockedPcs
<1> DEFINE Used == {ref[p] : p \in Ptrs}
<1>1. IsFiniteSet(Used) /\ Cardinality(Used) <= Cardinality(Ptrs)
  <2> DEFINE f == [p \in Ptrs |-> ref[p]]
  <2>1. f \in Surjection(Ptrs, Used)
    BY DEF Surjection
  <2> QED
    BY <2>1, FS_Surjection, PtrsAssumption
<1>2. BusyAhead(t) \in SUBSET Used
  <2> SUFFICES ASSUME NEW s \in BusyAhead(t) PROVE s \in Used
    OBVIOUS
  <2>1. s \in Slots /\ refcount[s] # 0 /\ s # index
    BY <1>0, AheadNext DEF BusyAhead, CountInv, Known, TypeInv, TypeOK
  <2>2. ~RootOwns(s)
    BY <1>0, <2>1 DEF RootOwns, LockedPcs
  <2>3. Holders(s) # {}
    BY <2>1, <2>2, CounterRange DEF CountInv, Known, Accounts
  <2> QED
    BY <2>3 DEF Holders
<1> QED
  BY <1>1, <1>2, FS_Subset, FS_CardinalityType, PtrsAssumption, BusyAheadFinite

\* A scan begins, goes on by one slot, or waits.
LEMMA ScanMoves ==
  ASSUME TypeInv, [Next]_vars, NEW t \in Threads, pc'[t] = "scan"
  PROVE  \/ UpdateLock(t)
         \/ UpdateScan(t)
         \/ pc[t] = "scan" /\ i'[t] = i[t] /\ old'[t] = old[t]
<1> USE DEF TypeInv, TypeOK, Goto, Return, locals
<1>1. ASSUME NEW u \in Threads, Step(u)
      PROVE  \/ UpdateLock(t)
             \/ UpdateScan(t)
             \/ pc[t] = "scan" /\ i'[t] = i[t] /\ old'[t] = old[t]
  <2>1. CASE u = t
    BY <1>1, <2>1 DEF Step, ReadIndex, ReadRef, ReadCas, ReadRetry, ReadPtr,
       UpdateFull, UpdateStoreRef, UpdateStorePtr, UpdateStoreIndex, UpdateFreeOld,
       UpdateDeleteOld, PtrDelete
  <2>2. CASE u # t
    BY <1>1, <2>2 DEF Step, ReadIndex, ReadRef, ReadCas, ReadRetry, ReadPtr,
       UpdateLock, UpdateScan, UpdateFull, UpdateStoreRef, UpdateStorePtr,
       UpdateStoreIndex, UpdateFreeOld, UpdateDeleteOld, PtrDelete
  <2> QED
    BY <2>1, <2>2
<1>2. ASSUME NEW u \in Threads, Call(u)
      PROVE  pc[t] = "scan" /\ i'[t] = i[t] /\ old'[t] = old[t]
  BY <1>2 DEF Call, ReadBegin, Reset, Copy, Swap, UpdateBegin
<1> QED
  BY <1>1, <1>2 DEF Next, Destroy, Over, vars

LEMMA ScanStep == CountInv /\ CountInv' /\ ScanCounts /\ [Next]_vars => ScanCounts'
<1> SUFFICES ASSUME CountInv, CountInv', ScanCounts, [Next]_vars PROVE ScanCounts'
  OBVIOUS
<1>b. (\A t \in Threads : pc[t] = "scan" /\ i[t] = old[t] =>
                Cardinality(BusyAhead(t)) <= Cardinality(Ptrs))'
  BY ScanStarts, PTL
<1> SUFFICES ASSUME NEW t \in Threads, pc'[t] = "scan"
             PROVE  (Ahead(old[t], i[t]) + Cardinality(BusyAhead(t))
                       <= Cardinality(Ptrs))'
  BY DEF ScanCounts
<1>0. i[t] \in Slots /\ old[t] \in Slots /\ i'[t] \in Slots /\ old'[t] \in Slots
  BY DEF CountInv, Known, TypeInv, TypeOK
<1>a. TypeInv /\ IsFiniteSet(BusyAhead(t)) /\ Cardinality(BusyAhead(t)) \in Nat
  BY BusyAheadFinite DEF CountInv, Known
<1>1. CASE UpdateLock(t)
  <2>1. i'[t] = old'[t]
    BY <1>1, <1>a DEF UpdateLock, TypeInv, TypeOK
  <2>2. Ahead(old[t], i[t])' = 0
    BY <1>0, <2>1, AheadNext DEF Ahead
  <2>3. Cardinality(BusyAhead(t)') \in Nat
    <3>1. BusyAhead(t)' \in SUBSET Slots
      BY DEF BusyAhead
    <3> QED
      BY <3>1, SlotsFinite, FS_Subset, FS_CardinalityType
  <2> QED
    BY <1>b, <2>1, <2>2, <2>3
<1>2. CASE UpdateScan(t)
  <2> DEFINE s == NextSlot(i[t])
  <2>1. /\ s \in Slots /\ s # old[t] /\ i'[t] = s /\ old'[t] = old[t]
        /\ refcount' = refcount /\ refcount[s] # 0 /\ pc[t] = "scan"
    BY <1>2, <1>0, <1>a, NextSlotType DEF UpdateScan, Goto, TypeInv, TypeOK, shared
  <2>2. Ahead(old[t], s) = Ahead(old[t], i[t]) + 1 /\ Ahead(old[t], i[t]) \in Nat
    BY <1>0, <2>1, AheadNext
  <2>3. s \in BusyAhead(t)
    BY <2>1, <2>2 DEF BusyAhead
  <2>4. \A r \in Slots : /\ Ahead(old[t], r) \in Nat
                         /\ Ahead(old[t], r) = Ahead(old[t], s) => r = s
    BY <1>0, <2>1, AheadNext
  <2>5. BusyAhead(t)' = BusyAhead(t) \ {s}
    BY <2>1, <2>2, <2>4 DEF BusyAhead, Ahead
  <2>6. Cardinality(BusyAhead(t) \ {s}) = Cardinality(BusyAhead(t)) - 1
    BY <1>a, <2>3, FS_RemoveElement
  <2>7. Ahead(old[t], i[t])' = Ahead(old[t], s)
    BY <2>1 DEF Ahead
  <2>8. Ahead(old[t], i[t]) + Cardinality(BusyAhead(t)) <= Cardinality(Ptrs)
    BY <2>1 DEF ScanCounts
  <2>9. Cardinality(Ptrs) \in Nat
    BY PtrsAssumption, FS_CardinalityType
  <2> QED
    BY <1>a, <2>2, <2>5, <2>6, <2>7, <2>8, <2>9
<1>3. CASE pc[t] = "scan" /\ i'[t] = i[t] /\ old'[t] = old[t]
  <2>1. \A u \in Threads : pc[u] # "storeRef"
    BY <1>3 DEF CountInv, Known, Locking, LockedPcs
  <2>2. \A s \in Slots : refcount[s] = 0 => refcount'[s] = 0
    BY <2>1, UnusedStays
  <2>3. BusyAhead(t)' \in SUBSET BusyAhead(t)
    BY <1>3, <2>2 DEF BusyAhead, Ahead
  <2>4. /\ Cardinality(BusyAhead(t)') <= Cardinality(BusyAhead(t))
        /\ Cardinality(BusyAhead(t)') \in Nat
    BY <1>a, <2>3, FS_Subset, FS_CardinalityType
  <2>5. Ahead(old[t], i[t])' = Ahead(old[t], i[t]) /\ Ahead(old[t], i[t]) \in Nat
    BY <1>0, <1>3, AheadNext DEF Ahead
  <2>6. Ahead(old[t], i[t]) + Cardinality(BusyAhead(t)) <= Cardinality(Ptrs)
    BY <1>3 DEF ScanCounts
  <2>7. Cardinality(Ptrs) \in Nat
    BY PtrsAssumption, FS_CardinalityType
  <2> QED
    BY <1>a, <2>4, <2>5, <2>6, <2>7
<1> QED
  BY <1>1, <1>2, <1>3, <1>a, ScanMoves

\* update() reports that it found no slot only to a program that can hold a
\* reference to every slot but the current one.
THEOREM UpdateFullJustified == Spec => UpdateFindsSlot
<1> DEFINE Full == (\E t \in Threads : UpdateFull(t)) => Cardinality(Ptrs) >= N - 1
<1>1. Init => ScanCounts
  BY DEF Init, ScanCounts
<1>2. Spec => []ScanCounts
  BY <1>1, ScanStep, CountInvariant, PTL DEF Spec
<1>3. CountInv /\ ScanCounts => Full
  <2> SUFFICES ASSUME CountInv, ScanCounts, NEW t \in Threads, UpdateFull(t)
               PROVE  Cardinality(Ptrs) >= N - 1
    OBVIOUS
  <2>1. i[t] \in Slots /\ old[t] \in Slots
    BY DEF CountInv, Known, TypeInv, TypeOK
  <2>2. pc[t] = "scan" /\ Ahead(old[t], i[t]) = N - 1
    BY <2>1, AheadNext DEF UpdateFull
  <2>3. N - 1 + Cardinality(BusyAhead(t)) <= Cardinality(Ptrs)
    BY <2>2 DEF ScanCounts
  <2> QED
    BY <2>3, BusyAheadFinite, SlotAssumption, PtrsAssumption, FS_CardinalityType
<1>4. CountInv /\ ScanCounts /\ [Next]_vars => [Full]_vars
  BY <1>3
<1>5. Spec => [][Full]_vars
  BY <1>2, <1>4, CountInvariant, PTL DEF Spec
<1> QED
  BY <1>5 DEF UpdateFindsSlot
-----------------------------------------------------------------------------
(* The slots and counters implement SnapshotCell *)

\* An object update() stored in slot s and is about to make current.
Publishing(s) == \E u \in Threads : pc[u] = "storeIndex" /\ i[u] = s

\* What a read() in progress may return: the current object is always in its
\* window, and so is what it finds in the slot it chose, however long ago, unless
\* an update() recycled the slot and has not published its object yet.
Windows ==
  \A t \in Threads :
    /\ pc[t] \notin ReadPcs => seen[t] = {}
    /\ pc[t] \in ReadPcs => slotPtr[index] \in seen[t]
    /\ pc[t] \in {"readRef", "readCas", "readPtr"} /\ SlotOwns(i[t]) =>
         slotPtr[i[t]] \in seen[t] \/ Publishing(i[t])

\* The steps that leave the windows, the index and the filled slots alone.
LEMMA WindowsKept ==
  ASSUME TypeInv, Windows, seen' = seen, index' = index, slotPtr' = slotPtr,
         \A s \in Slots : /\ SlotOwns(s)' => SlotOwns(s)
                          /\ Publishing(s) => Publishing(s)',
         \A t \in Threads :
           /\ pc'[t] \in ReadPcs <=> pc[t] \in ReadPcs
           /\ pc'[t] \in {"readRef", "readCas", "readPtr"} =>
                \/ pc[t] \in {"readRef", "readCas", "readPtr"} /\ i'[t] = i[t]
                \/ i'[t] = index
  PROVE  Windows'
<1> SUFFICES ASSUME NEW t \in Threads
             PROVE  /\ pc'[t] \notin ReadPcs => seen'[t] = {}
                    /\ pc'[t] \in ReadPcs => slotPtr'[index'] \in seen'[t]
                    /\ pc'[t] \in {"readRef", "readCas", "readPtr"} /\ SlotOwns(i[t])' =>
                         slotPtr'[i'[t]] \in seen'[t] \/ Publishing(i[t])'
  BY DEF Windows
<1>1. i[t] \in Slots /\ index \in Slots
  BY DEF TypeInv, TypeOK
<1>2. /\ pc'[t] \notin ReadPcs => seen'[t] = {}
      /\ pc'[t] \in ReadPcs => slotPtr'[index'] \in seen'[t]
  BY DEF Windows
<1>3. ASSUME pc'[t] \in {"readRef", "readCas", "readPtr"}, SlotOwns(i[t])'
      PROVE  slotPtr'[i'[t]] \in seen'[t] \/ Publishing(i[t])'
  <2>1. CASE pc[t] \in {"readRef", "readCas", "readPtr"} /\ i'[t] = i[t]
    <3>1. SlotOwns(i[t])
      BY <1>1, <1>3, <2>1 DEF SlotOwns, Filling
    <3>2. slotPtr[i[t]] \in seen[t] \/ Publishing(i[t])
      BY <2>1, <3>1 DEF Windows
    <3> QED
      BY <1>1, <2>1, <3>2 DEF Publishing
  <2>2. CASE i'[t] = index
    <3>1. pc'[t] \in ReadPcs
      BY <1>3 DEF ReadPcs
    <3> QED
      BY <1>2, <2>2, <3>1
  <2> QED
    BY <1>3, <2>1, <2>2
<1> QED
  BY <1>2, <1>3

LEMMA WindowsStep == CountInv /\ CountInv' /\ Windows /\ [Next]_vars => Windows'
<1> SUFFICES ASSUME CountInv, CountInv', Windows, [Next]_vars PROVE Windows'
  OBVIOUS
<1>0. TypeInv
  BY DEF CountInv, Known
<1> USE NullAssumption DEF CountInv, Known, TypeInv, TypeOK, Locking, Accounts, Pcs,
        ReadPcs, LockedPcs, shared, handles, locals, history, Goto, Return, Idle
<1>1. ASSUME NEW t \in Threads, NEW p \in Ptrs, ReadBegin(t, p) PROVE Windows'
  BY <1>1 DEF ReadBegin, Windows, SlotOwns, Filling, Publishing
<1>2. ASSUME NEW t \in Threads,
             \/ ReadIndex(t) \/ ReadRef(t) \/ ReadRetry(t) \/ UpdateLock(t)
             \/ UpdateScan(t) \/ UpdateFull(t) \/ UpdateDeleteOld(t) \/ PtrDelete(t)
      PROVE  Windows'
  BY <1>2, <1>0, WindowsKept DEF ReadIndex, ReadRef, ReadRetry, UpdateLock, UpdateScan,
     UpdateFull, UpdateDeleteOld, PtrDelete, SlotOwns, Filling, Publishing
<1>3. ASSUME NEW t \in Threads, ReadCas(t) PROVE Windows'
  <2>1. refcount[i[t]] # 0 /\ \A s \in Slots : s # i[t] => refcount'[s] = refcount[s]
    BY <1>3 DEF ReadCas
  <2> QED
    BY <1>3, <1>0, <2>1, WindowsKept DEF ReadCas, SlotOwns, Filling, Publishing
<1>4. ASSUME NEW t \in Threads, ReadPtr(t) PROVE Windows'
  BY <1>4 DEF ReadPtr, Windows, SlotOwns, Filling, Publishing
<1>5. ASSUME NEW t \in Threads, NEW o \in Objects, UpdateBegin(t, o) PROVE Windows'
  BY <1>5, <1>0, WindowsKept DEF UpdateBegin, SlotOwns, Filling, Publishing
<1>6. ASSUME NEW t \in Threads, UpdateStoreRef(t) PROVE Windows'
  BY <1>6, <1>0, WindowsKept DEF UpdateStoreRef, SlotOwns, Filling, Publishing
<1>7. ASSUME NEW t \in Threads, UpdateStorePtr(t) PROVE Windows'
  <2>1. /\ i[t] # index /\ \A s \in Slots : s # i[t] => slotPtr'[s] = slotPtr[s]
        /\ seen' = seen /\ i' = i /\ index' = index /\ refcount' = refcount
        /\ Publishing(i[t])'
        /\ \A u \in Threads : u # t => pc'[u] = pc[u]
        /\ pc'[t] = "storeIndex" /\ pc[t] = "storePtr"
    BY <1>7 DEF UpdateStorePtr, Publishing
  <2>2. \A s \in Slots : s # i[t] => /\ SlotOwns(s)' <=> SlotOwns(s)
                                     /\ Publishing(s)' <=> Publishing(s)
    BY <2>1 DEF SlotOwns, Publishing, Filling
  <2> QED
    BY <2>1, <2>2 DEF Windows, SlotOwns, Filling, Publishing
<1>8. ASSUME NEW t \in Threads, UpdateStoreIndex(t) PROVE Windows'
  <2>1. /\ i[t] \in Slots /\ index' = i[t] /\ slotPtr' = slotPtr /\ i' = i
        /\ refcount' = refcount /\ pc[t] = "storeIndex" /\ pc'[t] = "freeOld"
        /\ \A u \in Threads : u # t => pc'[u] = pc[u]
        /\ \A u \in Threads : seen'[u] = IF pc[u] \in ReadPcs
                                           THEN seen[u] \cup {slotPtr[i[t]]} ELSE seen[u]
    BY <1>8 DEF UpdateStoreIndex
  <2>2. \A s \in Slots : SlotOwns(s)' <=> SlotOwns(s)
    BY <2>1 DEF SlotOwns, Filling
  <2>3. \A s \in Slots : Publishing(s) => Publishing(s)' \/ s = i[t]
    BY <2>1 DEF Publishing
  <2> QED
    BY <2>1, <2>2, <2>3 DEF Windows, SlotOwns, Filling, Publishing
<1>9. ASSUME NEW t \in Threads, UpdateFreeOld(t) PROVE Windows'
  <2>1. old[t] \in Slots /\ refcount[old[t]] # 0
    BY <1>9, ReferencedSlot DEF UpdateFreeOld, RootOwns
  <2> QED
    BY <1>9, <1>0, <2>1, WindowsKept DEF UpdateFreeOld, SlotOwns, Filling, Publishing
<1>10. ASSUME NEW t \in Threads, NEW p \in Ptrs, NEW q \in Ptrs, Copy(t, p, q)
       PROVE  Windows'
  <2>1. ref[q] \in Slots /\ refcount[ref[q]] # 0
    BY <1>10, HeldSlots DEF Copy, Holders, Reservations
  <2> QED
    BY <1>10, <1>0, <2>1, WindowsKept DEF Copy, SlotOwns, Filling, Publishing
<1>11. ASSUME NEW t \in Threads, NEW p \in Ptrs, NEW q \in Ptrs, Swap(t, p, q)
       PROVE  Windows'
  BY <1>11, <1>0, WindowsKept DEF Swap, SlotOwns, Filling, Publishing
<1>12. ASSUME NEW t \in Threads, NEW p \in Ptrs, Reset(t, p) PROVE Windows'
  <2>1. ref[p] \in Slots /\ refcount[ref[p]] # 0
    BY <1>12, HeldSlots DEF Reset, Holders, Reservations
  <2> QED
    BY <1>12, <1>0, <2>1, WindowsKept DEF Reset, SlotOwns, Filling, Publishing
<1>13. ASSUME Destroy PROVE Windows'
  BY <1>13 DEF Destroy, Windows
<1>14. ASSUME UNCHANGED vars PROVE Windows'
  BY <1>14, <1>0, WindowsKept DEF vars, SlotOwns, Filling, Publishing
<1> QED
  BY <1>1, <1>2, <1>3, <1>4, <1>5, <1>6, <1>7, <1>8, <1>9, <1>10, <1>11, <1>12,
     <1>13, <1>14 DEF Next, Step, Call, Over

LEMMA WindowsInvariant == Spec => []Windows
<1>1. Init => Windows
  BY DEF Init, Windows, ReadPcs
<1> QED
  BY <1>1, WindowsStep, CountInvariant, PTL DEF Spec
\* The cell's variables, by the names SnapshotCell gives them.
Cur == IF root = "alive" THEN slotPtr[index] ELSE NULL
Writes(t) == pc[t] \in {"lock", "scan", "storeRef", "storePtr", "storeIndex"}
Fresh == {obj[t] : t \in {u \in Threads : Writes(u)}}

\* What the owners of the objects say about the cell: the current object, those
\* of the handles and those of the writers are allocated, and a writer's object
\* is neither current nor held nor another thread's.
CellFacts ==
  /\ root = "alive" => SlotOwns(index)
  /\ \A p \in Ptrs : ptr[p] # NULL =>
       ref[p] \in Slots /\ SlotOwns(ref[p]) /\ ptr[p] = slotPtr[ref[p]]
  /\ \A t \in Threads : pc[t] = "storeIndex" =>
       SlotOwns(i[t]) /\ obj[t] = slotPtr[i[t]] /\ i[t] # index

LEMMA CellFactsHold == CountInv /\ Snapshots => CellFacts
<1> SUFFICES ASSUME CountInv, Snapshots PROVE CellFacts
  OBVIOUS
<1> USE DEF CountInv, Known, TypeInv, TypeOK
<1>1. root = "alive" => SlotOwns(index)
  <2> SUFFICES ASSUME root = "alive" PROVE SlotOwns(index)
    OBVIOUS
  <2>1. refcount[index] # 0
    BY ReferencedSlot DEF RootOwns
  <2> QED
    BY <2>1 DEF SlotOwns, Filling, Locking
<1>2. ASSUME NEW p \in Ptrs, ptr[p] # NULL
      PROVE  ref[p] \in Slots /\ SlotOwns(ref[p]) /\ ptr[p] = slotPtr[ref[p]]
  <2>1. ref[p] \in Slots /\ Holders(ref[p]) # {}
    BY <1>2 DEF Reservations, Holders
  <2> QED
    BY <1>2, <2>1, HeldSlots DEF SlotOwns, Snapshots
<1>3. ASSUME NEW t \in Threads, pc[t] = "storeIndex"
      PROVE  SlotOwns(i[t]) /\ obj[t] = slotPtr[i[t]] /\ i[t] # index
  <2>1. i[t] \in Slots /\ refcount[i[t]] # 0
    BY <1>3, ReferencedSlot DEF RootOwns
  <2>2. \A u \in Threads : ~Filling(u, i[t])
    BY <1>3 DEF Filling, Locking, LockedPcs
  <2> QED
    BY <1>3, <2>1, <2>2 DEF SlotOwns, Locking
<1> QED
  BY <1>1, <1>2, <1>3 DEF CellFacts

\* The object a thread alone owns is neither current nor held, and no other
\* writer has it.
LEMMA OwnAlone ==
  ASSUME CountInv, OwnedOnce, CellFacts, NEW t \in Threads, ThreadOwns(t)
  PROVE  /\ Owned(t) \in live
         /\ Owned(t) # Cur
         /\ \A p \in Ptrs : ptr[p] # Owned(t)
         /\ \A u \in Threads : u # t /\ Writes(u) => obj[u] # Owned(t)
<1> USE DEF CountInv, Known, TypeInv, TypeOK
<1>1. Owned(t) \in live /\ Owned(t) # NULL
  BY NullAssumption DEF OwnedOnce
<1>2. Owned(t) # Cur
  BY <1>1 DEF OwnedOnce, CellFacts, Cur
<1>3. \A p \in Ptrs : ptr[p] # Owned(t)
  BY <1>1 DEF OwnedOnce, CellFacts
<1>4. ASSUME NEW u \in Threads, u # t, Writes(u) PROVE obj[u] # Owned(t)
  <2>1. CASE pc[u] = "storeIndex"
    BY <2>1 DEF OwnedOnce, CellFacts
  <2>2. CASE pc[u] # "storeIndex"
    BY <1>4, <2>2 DEF OwnedOnce, Writes, ThreadOwns, Owned
  <2> QED
    BY <2>1, <2>2
<1> QED
  BY <1>1, <1>2, <1>3, <1>4

\* Every step of the code is a step of the cell, or none of its business.
LEMMA CellStep ==
  CountInv /\ CountInv' /\ OwnerInv /\ Windows /\ [Next]_vars => [Cell!Next]_(Cell!vars)
<1> SUFFICES ASSUME CountInv, CountInv', OwnerInv, Windows, [Next]_vars, ~stale, ~stale'
             PROVE  [Cell!Next]_(Cell!vars)
  BY StaleStep DEF Cell!Next
<1>0. OwnedOnce /\ Snapshots /\ CellFacts
  BY CellFactsHold DEF OwnerInv
<1> DEFINE CellSame == Cur' = Cur /\ Fresh' = Fresh /\ live' = live /\ ptr' = ptr /\ seen' = seen
<1>s. CellSame => UNCHANGED Cell!vars
  <2>1. stale' = stale
    BY DEF CountInv, Known, TypeInv, TypeOK
  <2> QED
    BY <2>1 DEF Cell!vars, Cur, Fresh, Writes
<1> USE NullAssumption DEF CountInv, Known, TypeInv, TypeOK, Locking, Pcs, ReadPcs,
        LockedPcs, shared, handles, locals, history, Goto, Return, Idle
<1>1. ASSUME NEW t \in Threads, NEW p \in Ptrs, ReadBegin(t, p) PROVE Cell!Begin(t)
  <2>1. Fresh' = Fresh
    BY <1>1 DEF ReadBegin, Fresh, Writes
  <2> QED
    BY <1>1, <2>1 DEF ReadBegin, Cell!Begin, Windows, UsedSlots, Fresh, Writes
<1>2. ASSUME NEW t \in Threads,
             \/ ReadIndex(t) \/ ReadRef(t) \/ ReadRetry(t) \/ ReadCas(t)
      PROVE  CellSame
  BY <1>2 DEF ReadIndex, ReadRef, ReadRetry, ReadCas, Cur, Fresh, Writes
<1>3. ASSUME NEW t \in Threads, ReadPtr(t)
      PROVE  \E p \in Ptrs, o \in Objects : Cell!Snapshot(t, p, o)
  <2>1. Fresh' = Fresh /\ Cur' = Cur
    BY <1>3 DEF ReadPtr, Fresh, Writes, Cur
  <2>2. dest[t] \in Ptrs /\ ref[dest[t]] = i[t] /\ i[t] \in Slots /\ slotPtr[i[t]] \in Objects
    BY <1>3 DEF ReadPtr, Reservations, UsedSlots
  <2>3. SlotOwns(i[t])
    <3>1. Holders(i[t]) # {}
      BY <2>2 DEF Holders
    <3>2. \A u \in Threads : ~Filling(u, i[t])
      BY <1>3 DEF ReadPtr
    <3> QED
      BY <2>2, <3>1, <3>2, HeldSlots DEF SlotOwns
  <2>4. slotPtr[i[t]] \in seen[t] \cup Fresh
    BY <1>0, <1>3, <2>3 DEF ReadPtr, Windows, Publishing, CellFacts, Fresh, Writes
  <2>5. PICK p \in Ptrs, o \in Objects : p = dest[t] /\ o = slotPtr[i[t]]
    BY <2>2
  <2>6. Cell!Snapshot(t, p, o)
    BY <1>0, <1>3, <2>1, <2>2, <2>3, <2>4, <2>5 DEF ReadPtr, Reservations,
       Cell!Snapshot, OwnedOnce, Windows, Fresh, Writes, Cur
  <2> QED
    BY <2>6
<1>4. ASSUME NEW t \in Threads, NEW o \in Objects, UpdateBegin(t, o) PROVE Cell!Create(o)
  <2>1. Fresh' = Fresh \cup {o} /\ Cur' = Cur
    BY <1>4 DEF UpdateBegin, Fresh, Writes, Cur
  <2> QED
    BY <1>4, <2>1 DEF UpdateBegin, Cell!Create, Fresh, Writes, Cur
<1>5. ASSUME NEW t \in Threads,
             \/ UpdateLock(t) \/ UpdateScan(t) \/ UpdateStoreRef(t) \/ UpdateFreeOld(t)
      PROVE  CellSame
  BY <1>5 DEF UpdateLock, UpdateScan, UpdateStoreRef, UpdateFreeOld, Cur, Fresh, Writes
<1>6. ASSUME NEW t \in Threads, UpdateStorePtr(t) PROVE CellSame
  BY <1>6 DEF UpdateStorePtr, Cur, Fresh, Writes
<1>7. ASSUME NEW t \in Threads,
             UpdateFull(t) \/ UpdateDeleteOld(t) \/ PtrDelete(t)
      PROVE  \E o \in Objects : Cell!Reclaim(o)
  <2>1. ThreadOwns(t) /\ live' = live \ {Owned(t)} /\ UNCHANGED <<ptr, seen, stale>>
    BY <1>7 DEF UpdateFull, UpdateDeleteOld, PtrDelete, ThreadOwns, Owned
  <2>2. /\ Owned(t) \in live
        /\ Owned(t) # Cur
        /\ \A p \in Ptrs : ptr[p] # Owned(t)
        /\ \A u \in Threads : u # t /\ Writes(u) => obj[u] # Owned(t)
    BY <1>0, <2>1, OwnAlone
  <2>3. \A u \in Threads : Writes(u)' <=> Writes(u) /\ u # t
    BY <1>7 DEF UpdateFull, UpdateDeleteOld, PtrDelete, Writes
  <2>4. \A u \in Threads : u # t => obj'[u] = obj[u]
    BY <1>7 DEF UpdateFull, UpdateDeleteOld, PtrDelete
  <2>5. Writes(t) => obj[t] = Owned(t)
    BY <1>7 DEF UpdateFull, UpdateDeleteOld, PtrDelete, Writes, Owned
  <2>6. Fresh' = Fresh \ {Owned(t)}
    BY <2>2, <2>3, <2>4, <2>5 DEF Fresh
  <2>7. Cur' = Cur
    BY <1>7 DEF UpdateFull, UpdateDeleteOld, PtrDelete, Cur
  <2>8. PICK o \in Objects : o = Owned(t)
    BY <2>2
  <2>9. Cell!Reclaim(o)
    BY <2>1, <2>2, <2>6, <2>7, <2>8 DEF Cell!Reclaim, Cell!Free, Fresh, Writes, Cur
  <2> QED
    BY <2>9
<1>8. ASSUME NEW t \in Threads, UpdateStoreIndex(t)
      PROVE  \E o \in Objects : Cell!Publish(o)
  <2>1. obj[t] = slotPtr[i[t]] /\ SlotOwns(i[t]) /\ obj[t] # NULL
    BY <1>0, <1>8 DEF UpdateStoreIndex, CellFacts, UsedSlots
  <2>2. Cur' = obj[t]
    BY <1>8, <2>1 DEF UpdateStoreIndex, Cur
  <2>3. ASSUME NEW u \in Threads, u # t, Writes(u) PROVE obj[u] # obj[t]
    <3>1. ThreadOwns(u) /\ Owned(u) = obj[u]
      BY <1>8, <2>3 DEF UpdateStoreIndex, Writes, ThreadOwns, Owned
    <3> QED
      BY <1>0, <2>1, <3>1 DEF OwnedOnce
  <2>4. obj' = obj /\ Writes(t) /\ \A u \in Threads : Writes(u)' <=> Writes(u) /\ u # t
    BY <1>8 DEF UpdateStoreIndex, Writes
  <2>5. Fresh' = Fresh \ {obj[t]} /\ obj[t] \in Fresh
    BY <2>3, <2>4 DEF Fresh
  <2>6. seen' = [u \in Threads |-> IF seen[u] = {} THEN {} ELSE seen[u] \cup {obj[t]}]
    BY <1>8, <2>1 DEF UpdateStoreIndex, Windows
  <2>7. UNCHANGED <<live, ptr, stale>>
    BY <1>8 DEF UpdateStoreIndex
  <2>8. PICK o \in Objects : o = obj[t]
    BY <2>1
  <2>9. Cell!Publish(o)
    BY <2>2, <2>5, <2>6, <2>7, <2>8 DEF Cell!Publish, Fresh, Writes, Cur
  <2> QED
    BY <2>9
<1>9. ASSUME NEW t \in Threads, NEW p \in Ptrs, NEW q \in Ptrs, Copy(t, p, q)
      PROVE  Cell!Share(p, q)
  BY <1>9 DEF Copy, Empty, Cell!Share
<1>10. ASSUME NEW t \in Threads, NEW p \in Ptrs, NEW q \in Ptrs, Swap(t, p, q)
       PROVE  Cell!Exchange(p, q)
  BY <1>10 DEF Swap, Cell!Exchange
<1>11. ASSUME NEW t \in Threads, NEW p \in Ptrs, Reset(t, p) PROVE Cell!Release(p)
  <2>1. Fresh' = Fresh /\ Cur' = Cur
    BY <1>11 DEF Reset, Fresh, Writes, Cur
  <2> QED
    BY <1>11, <2>1 DEF Reset, Cell!Release, Fresh, Writes, Cur
<1>12. ASSUME Destroy PROVE Cell!Close
  <2>1. Fresh = {} /\ Fresh' = {} /\ Cur = slotPtr[index] /\ Cur # NULL /\ Cur' = NULL
    BY <1>12 DEF Destroy, Fresh, Writes, Cur, UsedSlots
  <2>2. \A t \in Threads : seen[t] = {}
    BY <1>12 DEF Destroy, Windows
  <2>3. index \in Slots /\ RootOwns(index) /\ SlotOwns(index)
    BY <1>0, <1>12 DEF Destroy, RootOwns, CellFacts
  <2>4. refcount[index] = 1 <=> Holders(index) = {}
    <3>1. refcount[index] = Cardinality(Holders(index)) + 1
      BY <2>3 DEF Accounts, RefcountAccounts
    <3>2. /\ Cardinality(Holders(index)) \in Nat
          /\ Holders(index) = {} <=> Cardinality(Holders(index)) = 0
      BY <2>3, HoldersFinite
    <3> QED
      BY <3>1, <3>2
  <2>5. \A p \in Ptrs : ref[p] # NULL => ptr[p] # NULL
    BY <1>12 DEF Destroy, Reservations
  <2>6. Holders(index) = {} <=> \A p \in Ptrs : ptr[p] # slotPtr[index]
    BY <1>0, <2>3, <2>5 DEF CellFacts, Holders, OwnedOnce, UsedSlots
  <2>7. \A o \in live : o = slotPtr[index] \/ \E p \in Ptrs : ptr[p] = o
    <3> SUFFICES ASSUME NEW o \in live, o # slotPtr[index]
                 PROVE  \E p \in Ptrs : ptr[p] = o
      OBVIOUS
    <3>1. PICK s \in Slots : SlotOwns(s) /\ slotPtr[s] = o
      BY <1>0, <1>12 DEF Destroy, OwnedOnce, ThreadOwns
    <3>2. s # index /\ ~RootOwns(s)
      BY <1>12, <3>1 DEF Destroy, RootOwns
    <3>3. Holders(s) # {}
      BY <3>1, <3>2, CounterRange DEF SlotOwns, Accounts
    <3>4. PICK p \in Ptrs : ref[p] = s
      BY <3>3 DEF Holders
    <3> QED
      BY <1>0, <2>5, <3>1, <3>4 DEF CellFacts
  <2>8. live' = {o \in live : \E p \in Ptrs : ptr[p] = o}
    BY <1>12, <2>3, <2>4, <2>6, <2>7 DEF Destroy
  <2> QED
    BY <1>12, <2>1, <2>2, <2>8 DEF Destroy, Cell!Close, Fresh, Writes, Cur
<1>13. ASSUME UNCHANGED vars PROVE CellSame
  BY <1>13 DEF vars, Cur, Fresh, Writes
<1> QED
  <2>1. ASSUME NEW t \in Threads, Step(t) PROVE [Cell!Next]_(Cell!vars)
    <3>1. CASE ReadPtr(t)
      BY <1>3, <3>1 DEF Cell!Next
    <3>2. CASE UpdateFull(t) \/ UpdateDeleteOld(t) \/ PtrDelete(t)
      BY <1>7, <3>2 DEF Cell!Next
    <3>3. CASE UpdateStoreIndex(t)
      BY <1>8, <3>3 DEF Cell!Next
    <3> QED
      BY <1>s, <1>2, <1>5, <1>6, <2>1, <3>1, <3>2, <3>3 DEF Step
  <2>2. ASSUME NEW t \in Threads, Call(t) PROVE [Cell!Next]_(Cell!vars)
    BY <1>1, <1>4, <1>9, <1>10, <1>11, <2>2 DEF Call, Cell!Next
  <2> QED
    BY <1>s, <1>12, <1>13, <2>1, <2>2 DEF Next, Over, Cell!Next

\* rcu implements SnapshotCell: what read() returns was current at some moment of
\* the call or is about to become current, and nothing is reclaimed that is
\* current or held, for every number of slots, threads, handles and objects.
THEOREM RcuIsCell == Spec => ImplementsCell
<1>1. Init => Cell!Init
  BY ZeroType DEF Init, Cell!Init
<1> QED
  BY <1>1, CellStep, CountInvariant, OwnerInvariant, WindowsInvariant, PTL
     DEF Spec, ImplementsCell, Cell!Spec
=============================================================================
