---------------------------- MODULE Alternation ----------------------------
(***************************************************************************)
(* What a latency benchmark measures: two threads that hand a token to and *)
(* fro, Length times each, one of them always first.  Then the benchmark   *)
(* may be run again.                                                       *)
(***************************************************************************)
EXTENDS Naturals

CONSTANT Length

VARIABLES first, second   \* hand-overs of each thread in this run

vars == <<first, second>>

Init == first = 0 /\ second = 0

First == first < Length /\ first = second /\ first' = first + 1 /\ second' = second

Second == first = second + 1 /\ second' = second + 1 /\ first' = first

Restart == first = Length /\ second = Length /\ first' = 0 /\ second' = 0

Next == First \/ Second \/ Restart

Spec == Init /\ [][Next]_vars

=============================================================================
