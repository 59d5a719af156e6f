------------------------------ MODULE UdpSockets ------------------------------
(****************************************************************************)
(* The life of descriptors in the objects that own them: any sequence of    *)
(* calls of the members of fdesc (the objects Files) and of udp (the        *)
(* objects Udps).  An object that was destroyed is a default constructed    *)
(* one here.                                                                *)
(****************************************************************************)
EXTENDS Sockets

CONSTANTS
    Files,      \* fdesc objects
    Udps        \* udp objects

\* What the constants are.
SocketsAssumption == NoFd \notin Descriptors /\ Files \cap Udps = {}

Owners == Files \cup Udps

VARIABLES
    kernel,     \* the descriptors of the process
    obj,        \* the objects; for an fdesc only the field fd is used
    released    \* history: the descriptors that reset() let go, or that a move
                \* of an object to itself did

vars == <<kernel, obj, released>>

TypeOK ==
    /\ kernel \in Kernel
    /\ obj \in [Owners -> Udp]
    /\ released \subseteq Descriptors

Init ==
    /\ kernel = [d \in Descriptors |-> Closed]
    /\ obj = [o \in Owners |-> NewUdp]
    /\ released = {}

\* Ends a call of o that has this outcome.
Return(o, outcome) ==
    /\ kernel' = outcome.kernel
    /\ obj' = [obj EXCEPT ![o].fd = outcome.fd]
    /\ UNCHANGED released

-----------------------------------------------------------------------------
(* fdesc *)

\* fdesc(path) and operator=(int) with the result of open(): what was held is
\* closed, then the new descriptor, or -1, is kept.
AssignFd(f) ==
    \E r \in OpenWith(kernel, <<>>) :
        Return(f, [r EXCEPT !.kernel = CloseFd(r.kernel, obj[f].fd)])

\* reset() sets the member to -1 and returns that, so nothing closes what the
\* object held.
Reset(f) ==
    /\ released' = released \cup ({obj[f].fd} \ {NoFd})
    /\ obj' = [obj EXCEPT ![f].fd = NoFd]
    /\ UNCHANGED kernel

-----------------------------------------------------------------------------
(* Both *)

Close(o) == Return(o, Outcome(CloseFd(kernel, obj[o].fd), NoFd, "ok"))

\* A move assignment, also to the object itself: the flags of a udp go along,
\* and the other object keeps its own.
MoveAssign(o, p) ==
    /\ {o, p} \subseteq Files \/ {o, p} \subseteq Udps
    /\ LET r == MoveFd(kernel, obj[o].fd, obj[p].fd)
       IN  /\ kernel' = r.kernel
           /\ obj' = [obj EXCEPT ![o] = [obj[p] EXCEPT !.fd = r.this], ![p].fd = r.other]
    /\ released' = released \cup (IF o = p THEN {obj[o].fd} \ {NoFd} ELSE {})

-----------------------------------------------------------------------------
(* udp *)

Open(u, bind) == \E r \in OpenBound(kernel, obj[u], bind) : Return(u, r)
OpenDest(u, bind, dest) ==
    \E r \in OpenConnected(kernel, obj[u], bind, dest) : Return(u, r)

\* set_reuse_addr() and set_reuse_port() are refused once the socket is open.
SetReuse(u, new) ==
    IF obj[u].fd # NoFd THEN Return(u, Outcome(kernel, obj[u].fd, "einval"))
    ELSE /\ obj' = [obj EXCEPT ![u] = new]
         /\ UNCHANGED <<kernel, released>>
SetReuseAddr(u, enable) == SetReuse(u, [obj[u] EXCEPT !.reuse_addr = enable])
SetReusePort(u, enable) == SetReuse(u, [obj[u] EXCEPT !.reuse_port = enable])

Set(u, n, addr) ==
    \E r \in set_sendbuf(kernel, obj[u], n) \cup set_multicast_ttl(kernel, obj[u], n)
             \cup set_multicast_loopback(kernel, obj[u])
             \cup multicast_register_interface(kernel, obj[u], addr) :
        Return(u, r)

Get(u) == \E r \in GetOption(kernel, obj[u]) \cup ipv4hdr_length(kernel, obj[u]) : Return(u, r)

SendPacket(u, addr) ==
    \E r \in Send(kernel, obj[u]) \cup SendTo(kernel, obj[u], addr) : Return(u, r)

Next ==
    \/ \E f \in Files : AssignFd(f) \/ Reset(f)
    \/ \E o \in Owners : Close(o) \/ \E p \in Owners : MoveAssign(o, p)
    \/ \E u \in Udps, bind \in Addresses :
          Open(u, bind) \/ \E dest \in Addresses : OpenDest(u, bind, dest)
    \/ \E u \in Udps, enable \in BOOLEAN : SetReuseAddr(u, enable) \/ SetReusePort(u, enable)
    \/ \E u \in Udps, addr \in Addresses :
          SendPacket(u, addr) \/ Get(u) \/ \E n \in 0 .. 1 : Set(u, n, addr)

Spec == Init /\ [][Next]_vars

-----------------------------------------------------------------------------
(* Properties *)

\* Each open descriptor has exactly one owner that will close it, and an owner
\* never holds one that was closed: else a close() by one of them hits a file
\* that another object has opened under the same number.  None is lost by a
\* call that fails half way; only reset() and an object that is moved to itself
\* let one go.
OneOwner ==
    /\ \A d \in Descriptors :
          LET owners == {o \in Owners : obj[o].fd = d}
          IN  IF kernel[d].open /\ d \notin released THEN \E o \in Owners : owners = {o} ELSE owners = {}
    /\ \A d \in released : kernel[d].open

\* A udp object is open only when all that open() promises was done: it is
\* bound, a connected socket to a group has its interface registered, and the
\* flags for reuse that the kernel reports are those that were set before.  The
\* last does not hold of open(bind, dest).
OpenIsComplete ==
    \A u \in Udps :
        LET marks == kernel[obj[u].fd].marks
        IN  obj[u].fd # NoFd =>
                /\ "bound" \in marks
                /\ "to_multicast" \in marks => "registered" \in marks
                /\ "connected" \notin marks =>
                      /\ get_reuse(kernel, obj[u], "reuse_addr", FALSE) = obj[u].reuse_addr
                      /\ get_reuse(kernel, obj[u], "reuse_port", FALSE) = obj[u].reuse_port

=============================================================================
