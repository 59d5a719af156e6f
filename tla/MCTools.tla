------------------------------- MODULE MCTools -------------------------------
(****************************************************************************)
(* The programs that measure, one part in a behaviour: the two benchmarks   *)
(* of core_latency (CoreReadWrite, which this module extends, and CoreCas), *)
(* the traffic shaper of udp_load and the whole of udp_load.                *)
(****************************************************************************)
EXTENDS CoreReadWrite, FiniteSets

CONSTANTS
    \* of UdpTalker, with its own word
    SLOTS, WIDTH, PACKETS, DURATION, HalfWord, MaxTime, MaxGroups, TalkerWord,
    \* of UdpLoad, with its own word
    Descriptors, NoFd, MaxThreads, MaxPackets, Batch, MaxDelays, MaxCalls, MaxGroup, Hosts, LoadWord

VARIABLES
    which,                                                  \* the part that runs
    ctype, cas_runs, event, token, at, monitor, swaps,
    now, shaper_pc, s, r, count, sent, total, elapsed, wake, late, short, groups,
    options, kernel, main_pc, next, go, talker, packets_sent

casVars == <<ctype, cas_runs, event, token, at, monitor, swaps>>
shaperVars == <<now, shaper_pc, s, r, count, sent, total, elapsed, wake, late, short, groups>>
loadVars == <<options, kernel, main_pc, next, go, talker, packets_sent>>

C == INSTANCE CoreCas WITH runs <- cas_runs, i <- swaps
T == INSTANCE UdpTalker WITH Word <- TalkerWord, pc <- shaper_pc
L == INSTANCE UdpLoad WITH Recorded <- {}, Word <- LoadWord, pc <- main_pc

\* The value of Hosts in the runs: hosts with two interfaces.
Interface(status, mtu) == [hw_addr |-> TRUE, source |-> TRUE, status |-> status, mtu |-> mtu]
MCHosts == {<<Interface({"UP"}, "large"), [Interface({}, "small") EXCEPT !.hw_addr = FALSE]>>,
            <<Interface({"UP"}, "small"), Interface({"UP"}, "large")>>}

ASSUME ToolsAssumption == T!TalkerAssumption /\ L!LoadAssumption

PInit ==
    /\ which \in {"readwrite", "cas", "shaper", "load"}
    /\ Init /\ T!Init
    /\ C!Init /\ (which # "cas" => ctype = "cpp")
    \* Only the modes with raw packets look at the interfaces of the host.
    /\ L!Init /\ (~L!Raw(options.mode) => options.host = CHOOSE h \in Hosts : TRUE)
              /\ (which # "load" => options.threads = 1 /\ options.packets = 1 /\ options.mode = "sendto"
                                    /\ options.size = "some" /\ options.dest = "unicast")
PNext ==
    \/ which = "readwrite" /\ Next /\ UNCHANGED <<which, casVars, shaperVars, loadVars>>
    \/ which = "cas" /\ C!Next /\ UNCHANGED <<which, vars, shaperVars, loadVars>>
    \/ which = "shaper" /\ T!Next /\ UNCHANGED <<which, vars, casVars, loadVars>>
    \/ which = "load" /\ L!Next /\ UNCHANGED <<which, vars, casVars, shaperVars>>

\* The fairness of the part that runs.
Steps(part, action) == which = part /\ action
PFairness ==
    /\ WF_vars(Steps("readwrite", runs < RUNS /\ Set)) /\ WF_vars(Steps("readwrite", Join))
    /\ WF_vars(Steps("readwrite", Step("ping") \/ StorePing))
    /\ WF_vars(Steps("readwrite", Step("pong") \/ StorePong))
    /\ WF_casVars(Steps("cas", C!Set)) /\ WF_casVars(Steps("cas", C!Join))
    /\ \A t \in Threads : /\ WF_casVars(Steps("cas", C!Step(t)))
                          /\ SF_casVars(Steps("cas", C!StoreExclusive(t)))
    /\ WF_shaperVars(Steps("shaper", T!Tick)) /\ WF_shaperVars(Steps("shaper", T!Thread))
    /\ WF_loadVars(Steps("load", L!Main))
    /\ \A n \in L!Threads : WF_loadVars(Steps("load", L!Thread(n)))

PSpec == PInit /\ [][PNext]_<<which, vars, casVars, shaperVars, loadVars>> /\ PFairness

-----------------------------------------------------------------------------
(* Properties of the parts *)

\* CoreCas: the threads swap in turn, whatever the processor does.
SwapsTakeTurns == C!SwapsTakeTurns
\* UdpTalker: every slot gives what it is to, and none much before its time.
SlotsKept == T!SlotsKept
\* UdpTalker: no more packets leave than the slots so far are worth.
RateKept == T!RateKept
\* UdpLoad: no thread sends before the last one is ready.
StartsTogether == L!StartsTogether
\* UdpLoad: the threads share all packets, and the report is the sum of what
\* they sent.
ReportIsComplete == L!SharesAddUp /\ L!ReportIsComplete

\* Every part ends: both benchmarks measure all pairs of cores, run() of the
\* shaper returns even when nothing can be sent, and so does main() of udp_load.
Ended ==
    /\ which = "readwrite" => runs = RUNS
    /\ which = "cas" => cas_runs = RUNS
    /\ which = "shaper" => shaper_pc = "done"
    /\ which = "load" => main_pc \in {"exit", "terminate"}
EveryProgramEnds == <>Ended
=============================================================================
