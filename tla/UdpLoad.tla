------------------------------- MODULE UdpLoad -------------------------------
(****************************************************************************)
(* The program udp_load: main() divides the packets among its threads,      *)
(* makes and initialises a talker for each, starts the threads, which wait  *)
(* for an event, and sets that event.  A talker sends groups of packets in  *)
(* one of four ways, the mode; when the last thread has ended, main()       *)
(* reports the totals that the threads added up.                            *)
(*                                                                          *)
(* How run() chooses its groups, and when time ends it, is module UdpTalker; *)
(* here a run is any number of slots, and a slot any number of calls of     *)
(* send_packets(), up to a bound that stands for the duration.  Each system *)
(* call is one step, so the threads interleave between any two of them.     *)
(* The event is the latch that module SyncEvent implements.                 *)
(****************************************************************************)
EXTENDS Sockets, FiniteSets, FiniteSetsExt

CONSTANTS
    MaxThreads, \* bound: threads_ of the options
    MaxPackets, \* bound: packets_ of the options
    Word,       \* 2^32: the values of a std::uint32_t
    Batch,      \* packets of one sendmmsg() (UIO_MAXIOV) or writev() (a third)
    MaxDelays,  \* calls of delay() that wait, in a slot
    MaxCalls,   \* bound: groups that a run sends in its time
    MaxGroup,   \* bound: packets of a group
    Hosts       \* sets of network interfaces that a host may have

\* What the constants are.
LoadAssumption ==
    /\ NoFd \notin Descriptors
    /\ {MaxThreads, MaxPackets, Word, Batch, MaxDelays, MaxCalls, MaxGroup} \subseteq Nat \ {0}

Modes == {"sendto", "sendmmsg", "bpf", "bpfmm"}
Batched(mode) == mode \in {"sendmmsg", "bpfmm"}
Raw(mode) == mode \in {"bpf", "bpfmm"}

\* What make_options() lets through.  The size may be zero.
Options == [threads : 1 .. MaxThreads, packets : 1 .. MaxPackets, mode : Modes,
            size : {"zero", "some"}, dest : {"unicast", "multicast"}, host : Hosts]

Threads == 1 .. MaxThreads

VARIABLES
    options,    \* the command line
    kernel,     \* the descriptors of the process
    pc,         \* main(): "start", "ready", "join", "report", "exit", "terminate"
    next,       \* the thread that main() starts, or joins, next
    go,         \* the event is set
    talker,     \* the talker of each thread, and where the thread stands
    packets_sent

vars == <<options, kernel, pc, next, go, talker, packets_sent>>

\* at: "none", "wait" (for the event), "run" (in a slot, between two groups),
\* "send", "slot" (a slot is over), "add" (run() returned), "done".  headers: the
\* bpf headers a talker has from malloc().  handed: what the kernel took (history).
Talker == [at : {"none", "wait", "run", "send", "slot", "add", "done"},
           fd : Descriptors \cup {NoFd}, headers : BOOLEAN, packets : 0 .. Word - 1,
           delays : 0 .. MaxDelays, calls : 0 .. MaxCalls, count : 0 .. MaxGroup,
           sent : 0 .. MaxGroup, total : 0 .. Word - 1, handed : Nat]
NoTalker == [at |-> "none", fd |-> NoFd, headers |-> FALSE, packets |-> 0, delays |-> 0,
             calls |-> 0, count |-> 0, sent |-> 0, total |-> 0, handed |-> 0]

TypeOK ==
    /\ options \in Options
    /\ kernel \in Kernel
    /\ pc \in {"start", "ready", "join", "report", "exit", "terminate"}
    /\ next \in 1 .. MaxThreads + 1
    /\ go \in BOOLEAN
    /\ talker \in [Threads -> Talker]
    /\ packets_sent \in 0 .. Word - 1

-----------------------------------------------------------------------------
(* The share of the packets of a thread, counted from 1 *)

packets == IF options.packets > options.threads THEN options.packets ELSE options.threads

ShareOf(i, n, p) == (((i * p) % Word) \div n - (((i - 1) * p) % Word) \div n) % Word
packets_thread(i) == ShareOf(i, options.threads, packets)

-----------------------------------------------------------------------------
(* Talkers: init() and what it does for each mode *)

\* set_shaping() keeps the zeros of a new talker when a parameter is zero; its
\* result is not looked at, but init() refuses the zeros.
set_shaping(i) == packets_thread(i) > 0 /\ options.size = "some"

\* udp_talker_bsd::init_packets(): a local socket with both flags for reuse is
\* opened and set up for a group.
InitBsd(dest) ==
    LET u == [NewUdp EXCEPT !.reuse_addr = TRUE, !.reuse_port = TRUE]
        group == IF dest = "multicast" THEN <<"loopback", "registered", "ttl">> ELSE <<>>
    IN  OpenWith(kernel, ReuseSteps(u) \o <<"bound">> \o group)

\* The interface for raw packets is the last in the order of names that has a
\* hardware address, one of the flags and the source address.  One of those
\* with a small MTU ends the search in failure.  0 is none.
FindInterface(host) ==
    LET fits == {n \in DOMAIN host : /\ host[n].hw_addr /\ host[n].source
                                     /\ host[n].status \cap {"MULTICAST", "UP", "RUNNING"} # {}}
    IN  IF fits = {} \/ \E n \in fits : host[n].mtu = "small" THEN 0 ELSE Max(fits)

\* init_packets() of the talkers that write raw packets: the device for
\* packet filters is opened, bound to the interface and told that the packets
\* have their headers.  The one for many packets allocates its headers before.
InitRaw(mode, dest, host) ==
    IF dest # "multicast" \/ FindInterface(host) = 0 THEN {Outcome(kernel, NoFd, "einval")}
    ELSE OpenWith(kernel, (IF mode = "bpfmm" THEN <<"multiwrite">> ELSE <<>>)
                          \o <<"interface", "header_complete">>)

InitOutcomes(i) ==
    IF ~set_shaping(i) THEN {Outcome(kernel, NoFd, "einval")}
    ELSE IF Raw(options.mode) THEN InitRaw(options.mode, options.dest, options.host)
    ELSE InitBsd(options.dest)

-----------------------------------------------------------------------------
(* main() *)

Init ==
    /\ options \in Options
    /\ kernel = [d \in Descriptors |-> Closed]
    /\ pc = "start" /\ next = 1 /\ go = FALSE
    /\ talker = [i \in Threads |-> NoTalker]
    /\ packets_sent = 0

\* A talker is initialised and handed to a new thread.
Started(i, r) ==
    /\ r.result = "ok"
    /\ talker' = [talker EXCEPT ![i] = [NoTalker EXCEPT !.at = "wait", !.fd = r.fd,
                                            !.headers = options.mode = "bpfmm",
                                            !.packets = packets_thread(i)]]
    /\ next' = i + 1
    /\ pc' = IF i = options.threads THEN "ready" ELSE "start"

\* A talker that fails makes main() return 1.  When threads run already, their
\* joinable handles are destroyed with runners, which terminates the program.
NotStarted(i, r) ==
    /\ r.result # "ok"
    /\ pc' = IF i = 1 THEN "exit" ELSE "terminate"
    /\ UNCHANGED <<talker, next>>

Start ==
    /\ pc = "start"
    /\ \E r \in InitOutcomes(next) :
          /\ kernel' = r.kernel
          /\ Started(next, r) \/ NotStarted(next, r)
    /\ UNCHANGED <<options, go, packets_sent>>

\* Mutant of Set: the event is not set.
SetUnheard ==
    /\ pc = "ready" /\ pc' = "join" /\ next' = 1
    /\ UNCHANGED <<options, kernel, go, talker, packets_sent>>

\* The event is set after the diagnostics and a sleep.
Set ==
    /\ pc = "ready"
    /\ go' = TRUE /\ pc' = "join" /\ next' = 1
    /\ UNCHANGED <<options, kernel, talker, packets_sent>>

\* Mutant of Join: main() does not wait for the thread.
JoinAtOnce ==
    /\ pc = "join"
    /\ next' = next + 1
    /\ pc' = IF next = options.threads THEN "report" ELSE "join"
    /\ UNCHANGED <<options, kernel, go, talker, packets_sent>>

Join ==
    /\ pc = "join" /\ talker[next].at = "done"
    /\ next' = next + 1
    /\ pc' = IF next = options.threads THEN "report" ELSE "join"
    /\ UNCHANGED <<options, kernel, go, talker, packets_sent>>

Report == pc = "report" /\ pc' = "exit" /\ UNCHANGED <<options, kernel, next, go, talker, packets_sent>>

Ended == pc \in {"exit", "terminate"} /\ UNCHANGED vars

Main == Start \/ Set \/ Join \/ Report

-----------------------------------------------------------------------------
(* The threads *)

Living == pc \notin {"exit", "terminate"}

\* Thread i goes on with its talker changed to t.
Becomes(i, t) ==
    /\ Living
    /\ talker' = [talker EXCEPT ![i] = t]
    /\ UNCHANGED <<options, pc, next, go>>

\* Mutant of Wait: a thread begins without the event.
WaitNot(i) ==
    /\ talker[i].at = "wait"
    /\ Becomes(i, [talker[i] EXCEPT !.at = "run"])
    /\ UNCHANGED <<kernel, packets_sent>>

Wait(i) ==
    /\ talker[i].at = "wait" /\ go
    /\ Becomes(i, [talker[i] EXCEPT !.at = "run"])
    /\ UNCHANGED <<kernel, packets_sent>>

\* run() asks for a group, in the slot or in the next one.
Group(i) ==
    /\ talker[i].at \in {"run", "slot"} /\ talker[i].calls < MaxCalls
    /\ \E n \in 0 .. MaxGroup :
          Becomes(i, [talker[i] EXCEPT !.at = "send", !.calls = @ + 1, !.count = n, !.sent = 0])
    /\ UNCHANGED <<kernel, packets_sent>>

\* The packets of the next system call of send_packets().
remain(t) == IF ~Batched(options.mode) THEN 1
             ELSE IF t.count - t.sent < Batch THEN t.count - t.sent ELSE Batch

Sending(i) == talker[i].at = "send" /\ talker[i].sent < talker[i].count

\* The kernel takes n of the packets: sendmmsg() says how many, writev() of
\* many packets is believed to have written them all.
Taken(t, n) ==
    [t EXCEPT !.handed = @ + n, !.sent = @ + IF options.mode = "bpfmm" THEN remain(t) ELSE n]
Accept(i) ==
    /\ Sending(i)
    /\ \E n \in 1 .. remain(talker[i]) : Becomes(i, Taken(talker[i], n))
    /\ UNCHANGED <<kernel, packets_sent>>

\* send_packets() returns and run() adds what was sent.  The slot goes on, as
\* long as time may, or it is over: then the delays are counted anew.
Return(t) ==
    LET u == [t EXCEPT !.at = "run", !.total = (@ + t.sent) % Word, !.count = 0, !.sent = 0]
    IN  {v \in {u} : v.calls < MaxCalls} \cup {[u EXCEPT !.at = "slot", !.delays = 0]}

\* ENOBUFS: the call is made again after a delay, while the slot has delays
\* left and as long as the sleep does not fail.
NoBuffers(i) ==
    /\ Sending(i)
    /\ \/ /\ talker[i].delays < MaxDelays
          /\ LET waited == [talker[i] EXCEPT !.delays = @ + 1]
             IN  \E t \in {waited} \cup Return(waited) : Becomes(i, t)
       \/ /\ talker[i].delays = MaxDelays
          /\ \E t \in Return(talker[i]) : Becomes(i, t)
    /\ UNCHANGED <<kernel, packets_sent>>

\* Any other error ends the call.
SendFails(i) ==
    /\ Sending(i)
    /\ \E t \in Return(talker[i]) : Becomes(i, t)
    /\ UNCHANGED <<kernel, packets_sent>>

GroupSent(i) ==
    /\ talker[i].at = "send" /\ talker[i].sent = talker[i].count
    /\ \E t \in Return(talker[i]) : Becomes(i, t)
    /\ UNCHANGED <<kernel, packets_sent>>

\* The duration is over, which run() looks at when a slot is.
EndRun(i) ==
    /\ talker[i].at = "slot"
    /\ Becomes(i, [talker[i] EXCEPT !.at = "add"])
    /\ UNCHANGED <<kernel, packets_sent>>

\* The results are added to the atomic totals (the other three are alike),
\* then the talker is destroyed with the parameters of the thread's function.
Add(i) ==
    /\ talker[i].at = "add"
    /\ packets_sent' = (packets_sent + talker[i].total) % Word
    /\ kernel' = CloseFd(kernel, talker[i].fd)
    /\ Becomes(i, [talker[i] EXCEPT !.at = "done", !.fd = NoFd, !.headers = FALSE])

Thread(i) ==
    \/ Wait(i) \/ Group(i) \/ Accept(i) \/ NoBuffers(i) \/ SendFails(i) \/ GroupSent(i)
    \/ EndRun(i) \/ Add(i)

Next == Main \/ (\E i \in Threads : Thread(i)) \/ Ended

Spec == Init /\ [][Next]_vars /\ WF_vars(Main) /\ \A i \in Threads : WF_vars(Thread(i))

-----------------------------------------------------------------------------
(* Properties *)

\* No thread sends before the last one is ready: the threads' load begins
\* together, whatever the order in which they are started and scheduled.
StartsTogether ==
    (\E i \in Threads : talker[i].handed > 0) =>
        \A i \in 1 .. options.threads : talker[i].at # "none"

\* The threads share all the packets, evenly and leaving none without, unless
\* the product of threads and packets does not fit a std::uint32_t.
SharesAddUp ==
    pc = "join" /\ options.threads * packets < Word =>
        LET all == 1 .. options.threads
            share == [i \in all |-> talker[i].packets]
        IN  /\ SumFunction(share) = packets
            /\ \A i, j \in all : share[i] > 0 /\ share[i] <= share[j] + 1

\* The report is made when all threads have ended, and it is the sum of what
\* each of them says it sent, which is what the kernel took; only where writev()
\* of many packets wrote less than it was given is it not.  Nothing is left open
\* or allocated.
ReportIsComplete ==
    pc = "report" =>
        LET total == [i \in Threads |-> talker[i].total]
        IN  /\ packets_sent = SumFunction(total) % Word
            /\ \A i \in Threads : /\ total[i] = talker[i].handed % Word \/ options.mode = "bpfmm"
                                  /\ ~talker[i].headers
            /\ \A d \in Descriptors : ~kernel[d].open

=============================================================================
