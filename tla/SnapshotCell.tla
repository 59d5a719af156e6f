---------------------------- MODULE SnapshotCell ----------------------------
(***************************************************************************)
(* What rcu<T> promises to its users, with no slot and no counter: a cell  *)
(* that holds a current object, readers that obtain a snapshot of it, and  *)
(* writers that replace it.  A read obtains an object that was current at  *)
(* some moment of the call, or one a concurrent writer is about to make    *)
(* current; an object is reclaimed only when it is neither current nor     *)
(* held, and the cell never hands out an object that was reclaimed.        *)
(*                                                                         *)
(* Once `broken' is TRUE nothing is promised any more.                     *)
(***************************************************************************)
CONSTANTS Threads, Ptrs, Objects, NULL

VARIABLES
  cur,     \* the current object, NULL once the cell is closed
  fresh,   \* objects of writers, not published yet
  live,    \* allocated objects
  held,    \* the snapshot each handle has, or NULL
  window,  \* objects that were current since a thread's read began, {} if none
  broken

vars == <<cur, fresh, live, held, window, broken>>

Free(o) == o # cur /\ \A p \in Ptrs : held[p] # o

Init ==
  /\ \E o \in Objects : cur = o /\ live = {o}
  /\ fresh = {}
  /\ held = [p \in Ptrs |-> NULL]
  /\ window = [t \in Threads |-> {}]
  /\ broken = FALSE

Begin(t) ==
  /\ window[t] = {} /\ cur # NULL
  /\ window' = [window EXCEPT ![t] = {cur}]
  /\ UNCHANGED <<cur, fresh, live, held, broken>>

Snapshot(t, p, o) ==
  /\ window[t] # {} /\ held[p] = NULL
  /\ o \in live /\ o \in window[t] \cup fresh
  /\ held' = [held EXCEPT ![p] = o]
  /\ window' = [window EXCEPT ![t] = {}]
  /\ UNCHANGED <<cur, fresh, live, broken>>

Create(o) ==
  /\ o \notin live
  /\ live' = live \cup {o}
  /\ fresh' = fresh \cup {o}
  /\ UNCHANGED <<cur, held, window, broken>>

Publish(o) ==
  /\ o \in fresh
  /\ cur' = o
  /\ fresh' = fresh \ {o}
  /\ window' = [t \in Threads |-> IF window[t] = {} THEN {} ELSE window[t] \cup {o}]
  /\ UNCHANGED <<live, held, broken>>

Share(p, q) ==
  /\ held[p] = NULL
  /\ held' = [held EXCEPT ![p] = held[q]]
  /\ UNCHANGED <<cur, fresh, live, window, broken>>

Exchange(p, q) ==
  /\ held' = [held EXCEPT ![p] = held[q], ![q] = held[p]]
  /\ UNCHANGED <<cur, fresh, live, window, broken>>

Release(p) ==
  /\ held' = [held EXCEPT ![p] = NULL]
  /\ UNCHANGED <<cur, fresh, live, window, broken>>

Reclaim(o) ==
  /\ o \in live /\ Free(o)
  /\ live' = live \ {o}
  /\ fresh' = fresh \ {o}
  /\ UNCHANGED <<cur, held, window, broken>>

Close ==
  /\ cur # NULL
  /\ fresh = {} /\ \A t \in Threads : window[t] = {}
  /\ cur' = NULL
  /\ live' = {o \in live : \E p \in Ptrs : held[p] = o}
  /\ UNCHANGED <<fresh, held, window, broken>>

Next ==
  \/ \E t \in Threads : Begin(t) \/ \E p \in Ptrs, o \in Objects : Snapshot(t, p, o)
  \/ \E o \in Objects : Create(o) \/ Publish(o) \/ Reclaim(o)
  \/ \E p \in Ptrs : Release(p) \/ \E q \in Ptrs : Share(p, q) \/ Exchange(p, q)
  \/ Close
  \/ broken'

Spec == Init /\ [][Next]_vars
=============================================================================
