---------------------------- MODULE OptionsObject ----------------------------
(****************************************************************************)
(* Objects of ubench::options as values: constructed from main() or from    *)
(* text of their own, copied, moved, assigned and swapped.  An object views *)
(* its program name (prog_name_) in the memory of main() or in its own text *)
(* (local_prog_name_).                                                      *)
(*                                                                          *)
(* A std::string keeps a short text inside of the object and a long one in  *)
(* a block of the heap; what moves is the text in the first case and the    *)
(* block in the second.  The views into local_args_ are not modelled: the   *)
(* elements of a std::vector stay where they are when it moves.             *)
(****************************************************************************)
EXTENDS Naturals

CONSTANTS
    Objects,
    ShortNames, LongNames,
    Blocks,         \* blocks of the heap
    MAIN,           \* the memory of main()
    TEMPORARY,      \* the object that operator=(const options&) makes and swaps with
    NONE            \* no text, no view, or memory that is free

Names == ShortNames \cup LongNames
Memory == Objects \cup Blocks \cup {MAIN, TEMPORARY}

VARIABLES
    mem,            \* the name that is in the memory; an object is the short text in it
    view,           \* where prog_name_ points
    local,          \* where the text of local_prog_name_ is
    named           \* history: the name an object was given; NONE of one that is not alive or was moved from

vars == <<mem, view, local, named>>

Alive(o) == named[o] # NONE
Free == {b \in Blocks : mem[b] = NONE}

Init == /\ mem \in {[m \in Memory |-> IF m = MAIN THEN n ELSE NONE] : n \in Names}
        /\ view = [o \in Objects |-> NONE]
        /\ local = [o \in Objects |-> NONE]
        /\ named = [o \in Objects |-> NONE]

\* Where a string of object o keeps a name.
Places(o, name) == IF name \in ShortNames THEN {o} ELSE Free

\* options(argc, argv, options): a view of argv[0].
FromMain(o) ==
    /\ view' = [view EXCEPT ![o] = MAIN]
    /\ local' = [local EXCEPT ![o] = NONE]
    /\ named' = [named EXCEPT ![o] = mem[MAIN]]
    /\ UNCHANGED mem
\* options(std::string, ...): a text of its own, and a view of it.
FromText(o, name) ==
    \E place \in Places(o, name) :
        /\ mem' = [mem EXCEPT ![place] = name]
        /\ view' = [view EXCEPT ![o] = place]
        /\ local' = [local EXCEPT ![o] = place]
        /\ named' = [named EXCEPT ![o] = name]
\* options(const options&)
Copy(o, p) ==
    IF local[p] = NONE
    THEN /\ view' = [view EXCEPT ![o] = view[p]]
         /\ local' = [local EXCEPT ![o] = NONE]
         /\ named' = [named EXCEPT ![o] = named[p]]
         /\ UNCHANGED mem
    ELSE FromText(o, mem[local[p]])
Construct(o) ==
    /\ ~Alive(o) /\ local[o] = NONE
    /\ \/ FromMain(o)
       \/ \E name \in Names : FromText(o, name)
       \/ \E p \in Objects \ {o} : Alive(p) /\ Copy(o, p)

\* The text of p becomes that of o, whose own is freed; the view is copied.
\* options(options&&) and operator=(options&&), both defaulted.
Move(o, p) ==
    LET short == local[p] = p
        place == IF local[p] = NONE THEN NONE ELSE IF short THEN o ELSE local[p]
    IN  /\ o # p /\ Alive(p)
        /\ mem' = [m \in Memory |->
              IF short /\ m = o THEN mem[p]
              ELSE IF m = p \/ (m = local[o] /\ m # MAIN) \/ m = o THEN NONE
              ELSE mem[m]]
        /\ local' = [local EXCEPT ![o] = place, ![p] = NONE]
        /\ view' = [view EXCEPT ![o] = view[p]]
        /\ named' = [named EXCEPT ![o] = named[p], ![p] = NONE]

\* swap(): the members one by one.
Swap(o, p) ==
    LET place(q, r) == IF local[r] = r THEN q ELSE local[r]
    IN  /\ o # p /\ Alive(o) /\ Alive(p)
        /\ mem' = [mem EXCEPT ![o] = mem[p], ![p] = mem[o]]
        /\ local' = [local EXCEPT ![o] = place(o, p), ![p] = place(p, o)]
        /\ view' = [view EXCEPT ![o] = view[p], ![p] = view[o]]
        /\ named' = [named EXCEPT ![o] = named[p], ![p] = named[o]]

\* operator=(const options&): a copy of p, swapped with o and destroyed, which
\* frees the text o had.  A short text moves, and the view stays behind.
CopyAssign(o, p) ==
    /\ Alive(o) /\ Alive(p)
    /\ IF local[p] = NONE
       THEN /\ mem' = [m \in Memory |-> IF m = local[o] THEN NONE ELSE mem[m]]
            /\ view' = [view EXCEPT ![o] = view[p]]
            /\ local' = [local EXCEPT ![o] = NONE]
       ELSE \E place \in Places(o, mem[local[p]]) :
            /\ mem' = [m \in Memory |-> IF m = place THEN mem[local[p]]
                                       ELSE IF m = local[o] THEN NONE ELSE mem[m]]
            /\ view' = [view EXCEPT ![o] = IF place = o THEN TEMPORARY ELSE place]
            /\ local' = [local EXCEPT ![o] = place]
    /\ named' = [named EXCEPT ![o] = named[p]]

Destroy(o) ==
    /\ Alive(o) \/ local[o] # NONE
    /\ mem' = [m \in Memory |-> IF m = local[o] THEN NONE ELSE mem[m]]
    /\ local' = [local EXCEPT ![o] = NONE]
    /\ view' = [view EXCEPT ![o] = NONE]
    /\ named' = [named EXCEPT ![o] = NONE]

Next ==
    \E o \in Objects :
        \/ Construct(o)
        \/ Destroy(o)
        \/ \E p \in Objects : Move(o, p) \/ Swap(o, p) \/ CopyAssign(o, p)
Spec == Init /\ [][Next]_vars

-----------------------------------------------------------------------------
\* "This version of the constructor maintains the lifetime of the arguments
\* given by making a copy of the prog_name": while an object is alive,
\* prog_name() is the name it was given.
NameIsKept == \A o \in Objects : Alive(o) => mem[view[o]] = named[o]
=============================================================================
