------------------------------- MODULE Sockets -------------------------------
(****************************************************************************)
(* What the descriptor wrapper ubench::file::fdesc and the UDP socket       *)
(* ubench::net::udp (libunet) do to the descriptors of the process: pure    *)
(* operators over the table of the kernel, used by the modules whose        *)
(* objects own descriptors.                                                 *)
(*                                                                          *)
(* The kernel keeps for every open descriptor what was done to it (marks).  *)
(* Any of its calls may fail.  A call of the library has a set of outcomes, *)
(* each with the table it leaves, the descriptor the object then holds and  *)
(* the result: "ok", "einval" when the library refuses by itself, or        *)
(* "errno" when the kernel does.                                            *)
(****************************************************************************)
EXTENDS Naturals, Sequences

CONSTANTS
    Descriptors,    \* file descriptors
    NoFd,           \* -1
    Recorded        \* bound: the marks that are kept, of those below

Marks == {"reuse_addr", "reuse_port", "bound", "connected", "to_multicast",
          "registered", "loopback", "ttl", "sendbuf", "interface", "multiwrite",
          "header_complete"}
Closed == [open |-> FALSE, marks |-> {}]
Kernel == [Descriptors -> [open : BOOLEAN, marks : SUBSET Marks]]
\* Address families and values told apart by the checks: another family or
\* INADDR_NONE, INADDR_ANY, a host, a multicast group.
Addresses == {"none", "any", "unicast", "multicast"}

is_valid_sockaddr(addr) == addr \in {"unicast", "multicast"}
is_valid_bind_addr(addr) == addr # "none"

Outcome(kernel, fd, result) == [kernel |-> kernel, fd |-> fd, result |-> result]

-----------------------------------------------------------------------------
(* The system calls *)

Opened(kernel, fd) == [kernel EXCEPT ![fd] = [open |-> TRUE, marks |-> {}]]
Marked(kernel, fd, marks) == [kernel EXCEPT ![fd].marks = @ \cup (marks \cap Recorded)]

\* fdesc::close(), also run by the destructor: nothing for -1, and an error is
\* ignored.
CloseFd(kernel, fd) == IF fd = NoFd THEN kernel ELSE [kernel EXCEPT ![fd] = Closed]

\* fdesc::operator=(fdesc&&) for an object that holds a and another, or the
\* same one, that holds b.
MoveFd(kernel, a, b) ==
    IF a # b THEN [kernel |-> CloseFd(kernel, a), this |-> b, other |-> NoFd]
    ELSE [kernel |-> kernel, this |-> a, other |-> NoFd]

\* Mutant of OpenWith: a call that fails leaves the descriptor open.
OpenWithLeak(kernel, steps) ==
    LET free == {fd \in Descriptors : ~kernel[fd].open}
    IN  {Outcome(Opened(kernel, fd), NoFd, "errno") : fd \in free}
        \cup {Outcome(Opened(kernel, fd), fd, "ok") : fd \in free}

\* The marks that the first n calls of a sequence of calls make.
MarksOf(steps, n) == {steps[i] : i \in 1 .. n}

\* A new descriptor, held by a local fdesc while the calls of the sequence
\* steps are made on it one after the other.  The first that fails leaves the
\* function, and the local closes the descriptor.
OpenWith(kernel, steps) ==
    LET after(fd, n) == Marked(Opened(kernel, fd), fd, MarksOf(steps, n))
        free == {fd \in Descriptors : ~kernel[fd].open}
    IN  {Outcome(kernel, NoFd, "errno")}
        \cup {Outcome(CloseFd(after(fd, n), fd), NoFd, "errno") :
                 fd \in free, n \in 0 .. Len(steps) - 1}
        \cup {Outcome(after(fd, Len(steps)), fd, "ok") : fd \in free}

-----------------------------------------------------------------------------
(* udp.  An object holds a descriptor and the two flags for reuse. *)

Udp == [fd : Descriptors \cup {NoFd}, reuse_addr : BOOLEAN, reuse_port : BOOLEAN]
NewUdp == [fd |-> NoFd, reuse_addr |-> FALSE, reuse_port |-> FALSE]

Refused(kernel, u) == {Outcome(kernel, u.fd, "einval")}

\* Mutant of ReuseSteps: the flag for the port goes with the one for the address.
ReuseStepsOne(u) == IF u.reuse_addr THEN <<"reuse_addr", "reuse_port">> ELSE <<>>

\* The flags are set on the new socket before it is bound.
ReuseSteps(u) ==
    (IF u.reuse_addr THEN <<"reuse_addr">> ELSE <<>>)
    \o (IF u.reuse_port THEN <<"reuse_port">> ELSE <<>>)

\* open(bind).
OpenBound(kernel, u, bind) ==
    IF u.fd # NoFd \/ ~is_valid_bind_addr(bind) THEN Refused(kernel, u)
    ELSE OpenWith(kernel, ReuseSteps(u) \o <<"bound">>)

\* open(bind, dest), which makes no use of the flags for reuse.
OpenConnected(kernel, u, bind, dest) ==
    IF u.fd # NoFd \/ ~is_valid_bind_addr(bind) \/ ~is_valid_sockaddr(dest)
    THEN Refused(kernel, u)
    ELSE OpenWith(kernel, IF dest = "multicast"
                          THEN <<"bound", "connected", "to_multicast", "registered">>
                          ELSE <<"bound", "connected">>)

\* A setter that makes one call on the open socket.
SetOption(kernel, u, mark, valid) ==
    IF u.fd = NoFd \/ ~valid THEN Refused(kernel, u)
    ELSE {Outcome(Marked(kernel, u.fd, {mark}), u.fd, "ok"),
          Outcome(kernel, u.fd, "errno")}

set_sendbuf(kernel, u, buf) == SetOption(kernel, u, "sendbuf", buf > 0)
set_multicast_loopback(kernel, u) == SetOption(kernel, u, "loopback", TRUE)
multicast_register_interface(kernel, u, local) ==
    SetOption(kernel, u, "registered", is_valid_bind_addr(local))
set_multicast_ttl(kernel, u, ttl) == SetOption(kernel, u, "ttl", ttl > 0)

\* A getter asks the kernel.
GetOption(kernel, u) ==
    IF u.fd = NoFd THEN Refused(kernel, u)
    ELSE {Outcome(kernel, u.fd, "ok"), Outcome(kernel, u.fd, "errno")}

\* ipv4hdr_length() takes an error of the kernel for a header without options.
ipv4hdr_length(kernel, u) ==
    IF u.fd = NoFd THEN Refused(kernel, u) ELSE {Outcome(kernel, u.fd, "ok")}

\* get_reuse_addr() and get_reuse_port(): the flag of the object until it is open.
get_reuse(kernel, u, mark, flag) ==
    IF u.fd = NoFd THEN flag ELSE mark \in kernel[u.fd].marks

\* send(payload) needs a connected socket; send(dest, payload) a valid address.
\* The kernel takes the packet or refuses it.
Send(kernel, u) ==
    IF u.fd = NoFd THEN Refused(kernel, u)
    ELSE {Outcome(kernel, u.fd, "errno")}
         \cup IF "connected" \in kernel[u.fd].marks THEN {Outcome(kernel, u.fd, "ok")} ELSE {}
SendTo(kernel, u, dest) ==
    IF u.fd = NoFd \/ ~is_valid_sockaddr(dest) THEN Refused(kernel, u)
    ELSE {Outcome(kernel, u.fd, "ok"), Outcome(kernel, u.fd, "errno")}

=============================================================================
