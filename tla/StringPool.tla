---------------------------- MODULE StringPool -----------------------------
(***************************************************************************)
(* What interning promises its callers: equal strings are one object for   *)
(* ever, and different strings are different objects.                      *)
(***************************************************************************)
EXTENDS Naturals

CONSTANTS
  Strings,     \* the strings callers intern
  Addresses    \* the addresses of copies; 0 is none of them

VARIABLE pool   \* the address of the interned copy of each string, or 0

Init == pool = [x \in Strings |-> 0]

\* The first time a string is interned, it gets an address of its own.
Add(x, a) ==
  /\ pool[x] = 0
  /\ \A y \in Strings : pool[y] # a
  /\ pool' = [pool EXCEPT ![x] = a]

Next == \E x \in Strings, a \in Addresses : Add(x, a)

Spec == Init /\ [][Next]_pool

=============================================================================
