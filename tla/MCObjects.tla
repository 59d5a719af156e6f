------------------------------ MODULE MCObjects ------------------------------
(****************************************************************************)
(* The objects of the libraries and tools that keep state between calls,    *)
(* one part in a behaviour: the string pool (StrIntern, which this module   *)
(* extends), the JSON writer, the sockets, or the mappings of lshmem.       *)
(****************************************************************************)
EXTENDS StrIntern

CONSTANTS
    Writers, NONE, JsonWord, MaxText,               \* of JsonWriter
    Descriptors, NoFd, Recorded, Files, Udps,       \* of UdpSockets
    Pids, Objects, PageAddresses, Unmapped, Lengths, MaxLines, read    \* of ShmemMap

VARIABLES
    which,                                          \* the part that runs
    text, stack, next, closed, populated, writer, threw, dead, owner, stray,
    kernel, obj, released,
    map, lines, dropped, mixed

jsonVars == <<text, stack, next, closed, populated, writer, threw, dead, owner, stray>>
socketVars == <<kernel, obj, released>>
shmemVars == <<map, lines, dropped, mixed>>
objectVars == <<which, vars, jsonVars, socketVars, shmemVars>>

J == INSTANCE JsonWriter WITH Word <- JsonWord
U == INSTANCE UdpSockets
M == INSTANCE ShmemMap WITH Addresses <- PageAddresses

ASSUME ObjectsAssumption == J!WriterAssumption /\ U!SocketsAssumption /\ M!ShmemAssumption

\* In the part "none" the objects stay as they are made.
Parts == {"intern", "json", "sockets", "shmem", "none"}

OInit ==
    /\ which \in Parts
    /\ Init /\ J!Init /\ U!Init /\ M!Init
    /\ which # "intern" => buckets = 1 /\ maxBuckets = 8 /\ \A x \in Strings : svh[x] = 0

ONext ==
    \/ which = "intern" /\ Next /\ UNCHANGED <<which, jsonVars, socketVars, shmemVars>>
    \/ which = "json" /\ J!Next /\ UNCHANGED <<which, vars, socketVars, shmemVars>>
    \/ which = "sockets" /\ U!Next /\ UNCHANGED <<which, vars, jsonVars, shmemVars>>
    \/ which = "shmem" /\ M!Next /\ UNCHANGED <<which, vars, jsonVars, socketVars>>

OSpec == OInit /\ [][ONext]_objectVars

-----------------------------------------------------------------------------
(* Properties of the parts *)

\* JsonWriter: the text stays the beginning of a document, written by the
\* innermost element.
InStep == J!InStep
\* JsonWriter: closing and unwinding leave a whole document and a running program.
ClosesSafely == J!ClosesSafely
\* UdpSockets: a descriptor has one owner, and is open as long as it has.
OneOwner == U!OneOwner
\* UdpSockets: an open udp is bound, and set up as its flags say.
OpenIsComplete == U!OpenIsComplete
\* ShmemMap: the regions of a process are its inserted lines, whatever their order,
\* and are disjoint if those are.
RegionsExact == M!RegionsExact
\* ShmemMap: the overlaps of two processes are symmetric and of shared pages, and
\* exact if neither has regions that overlap.
OverlapExact == M!OverlapExact

=============================================================================
