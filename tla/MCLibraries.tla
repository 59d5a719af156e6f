----------------------------- MODULE MCLibraries -----------------------------
(****************************************************************************)
(* The sequential parts of the libraries and tools: the objects of          *)
(* MCObjects, or one call of a function with inputs that are tried one by   *)
(* one.                                                                     *)
(****************************************************************************)
EXTENDS MCObjects, MCFunctions, Bitwise, TLC

O == INSTANCE Options WITH Letters <- {"a", "b", "?"}
P == INSTANCE Programs WITH Uint <- 1000000, Supported <- {<<41>>, <<43>>}

MCBitAnd(a, b) == a & b

SeqsUpTo(S, n) == UNION {[1 .. k -> S] : k \in 0 .. n}

-----------------------------------------------------------------------------
(* The inputs of the functions *)

MCSplitCalls == [fn : {"split"}, s : SeqsUpTo({1, 7, Comma, 30}, 5), fields : 0 .. 3]
MCHexCalls == [fn : {"hex"}, s : SeqsUpTo({0, 3, 15, X, 30}, 4)]
MCCopyCalls == [fn : {"copy"}, dst : {<<8, 8, 8>>}, src : SeqsUpTo({1, 2}, 4), size : 0 .. 3]
MCSockaddrCalls == [fn : {"sockaddr"}, s : SeqsUpTo({Address, AnyAddress, Colon, 1, 9, 30}, 4),
                  addr : {NoSockaddr, [host |-> Address, port |-> 3, family |-> "inet"]}]
MCHostCalls == [fn : {"host"}, buffer : SeqsUpTo({1, 2, Dot, NUL}, 3),
              hosts : SeqsUpTo({<<>>, <<1>>, <<1, Dot, 3>>, <<1, 2, Dot, 3, Dot, 4>>, <<Dot>>}, 2)]
MCColumnCalls == [fn : {"columns"}, headline : SeqsUpTo(1 .. 4, 4)]

Chars == {"-", "a", "b", "."}
OptionCalls == [fn : {"options"}, words : SeqsUpTo(SeqsUpTo(Chars, 3), 2) \cup SeqsUpTo(SeqsUpTo(Chars \ {"."}, 2), 3)]

\* For each option of a program the texts of its argument that are tried.
Numbers == {<<0>>, <<9>>, <<5, 0, 0, 0>>, <<7, 0, 0, 0, 0>>, <<30>>}
ArgumentNames == {P!Word[n] : n \in {"sendto", "bpf", "bpfmm", "cas", "readwrite", "set"}} \cup {<<39>>}
Addresses == {<<Address>>, <<AnyAddress>>, <<Address, Colon, 8>>, <<38>>, <<30, Colon, 30>>}
ValuesOf(program, c) ==
    CASE c = "B" \/ (c = "b" /\ program = "core_latency") -> ArgumentNames
      [] c \in {"S", "D"} -> Addresses
      [] c = "p" /\ program # "udp_load" -> {<<1, Comma, 2>>, <<3>>, <<>>}
      [] OTHER -> Numbers
LineEntries(program, letters) ==
    {O!Entry(c, "flag", <<>>) : c \in P!Flags[program] \cup {"?"}}
        \cup {O!Entry("x", "unexpected", <<>>)}
        \cup UNION {{O!Entry(c, "argument", v) : v \in ValuesOf(program, c)} : c \in P!Arguments[program] \cap letters}
Lines(program) ==
    [1 .. 2 -> LineEntries(program, P!Arguments[program])]
        \cup SeqsUpTo(LineEntries(program, {"S", "D", "n", "p", "b"}), IF program = "udp_load" THEN 2 ELSE 3)
        \cup [1 .. 3 -> {O!Entry(c, "argument", v) : c \in {"S", "D"} \cap P!Arguments[program], v \in Addresses}]
UserWords(program) == IF program \in {"str_intern", "qnx_statvfs"} THEN {<<>>, <<"f">>, <<"f", "g">>} ELSE {<<"f">>}
ProgramCalls(p) == [fn : {"program"}, program : {p}, line : Lines(p), user : UserWords(p)]

Places == {e \in Entries({0, 2, 3, 4}, {"a", "sysram"}) : ~e.kids /\ e.start # 3}
MCAsinfoCalls == [fn : {"asinfo"}, page : SeqsUpTo(Entries(0 .. 3, {"a", "sysram"}), 2) \cup
                    [1 .. 3 -> Places], addr : 0 .. 5]

Packets == [dst_mac : get_ether_multicast(<<239, 129, 2, 3>>), src_mac : {<<2, 2, 2, 2, 2, 2>>}, vlan_id : {0, 4095, 4096},
           fragmentation_id : {0, 65535}, ttl : {0, 64}, src_ip : {<<10, 0, 0, 1>>, <<255, 255, 255, 255>>},
           dst_ip : {<<239, 129, 2, 3>>}, src_port : {0, 65535}, dst_port : {80}, data : SeqsUpTo({0, 1, 255}, 3)]
\* A packet whose source port makes the sum of UDP all ones.
AllOnes(p) ==
    LET q == [p EXCEPT !.src_port = 0]
    IN  [q EXCEPT !.src_port = calc_udp_cs(Ipv4Header(q, 0), UdpHeader(q, 0), q.data)]
MCPacketCalls == [fn : {"packet"}, packet : Packets \cup {AllOnes(p) : p \in Packets}]

Listed == {[name |-> n, family |-> k[1], addr |-> k[2], flags |-> k[3], type |-> k[4], netmask |-> k[5],
            broadaddr |-> k[6], dstaddr |-> {}] : n \in 1 .. 2, k \in {
    <<"LINK", 7, {"UP"}, "ETHER", {}, {}>>,
    <<"INET", 1, {"UP", "BROADCAST"}, "", {[family |-> "UNSPEC", addr |-> 3]}, {[family |-> "INET", addr |-> 4]}>>,
    <<"INET", 2, {"UP"}, "", {[family |-> "LINK", addr |-> 3]}, {}>>,
    <<"none", 0, {}, "", {}, {}>>}} \cup
    {[name |-> 3, family |-> "LINK", addr |-> 8, flags |-> {}, type |-> t, netmask |-> {}, broadaddr |-> {},
      dstaddr |-> {}] : t \in {"ETHER", "OTHER"}}
VlansOf == {<<{}, {}, {}>>, <<{}, {[id |-> 2, parent |-> 1]}, {}>>, <<{[id |-> 2, parent |-> 3]}, {}, {}>>,
            <<{[id |-> 9, parent |-> 2]}, {[id |-> 3, parent |-> 3]}, {}>>,
            <<{}, {[id |-> 3, parent |-> 1]}, {[id |-> 3, parent |-> 2]}>>}
System(entries, hw, vlan, socket) ==
    [entries |-> entries, hw |-> [n \in 1 .. 3 |-> hw], vlan |-> vlan, socket |-> socket,
     mtu |-> <<{1500}, {}, {9000}>>, alias |-> <<{}, {"two"}, {}>>, flags |-> <<{}, {{"UP"}}, {}>>]
MCInterfaceCalls == {[fn |-> "interfaces", sys |-> System(e, hw, v, s), has |-> b] :
    e \in SeqsUpTo(Listed, 3), hw \in {{0}, {6}}, v \in VlansOf, s \in {TRUE},
    b \in {Builds[x] : x \in DOMAIN Builds}}

-----------------------------------------------------------------------------
(* The parts side by side *)

LInit == OInit /\ FInit

Call ==
    /\ which = "none" /\ call = NoCall
    /\ call' \in OptionCalls \/ \E p \in DOMAIN P!Flags : call' \in ProgramCalls(p)
LNext ==
    \/ ONext /\ UNCHANGED call
    \/ Call /\ UNCHANGED objectVars
    \/ which = "none" /\ FNext /\ UNCHANGED objectVars
LSpec == LInit /\ [][LNext]_<<objectVars, call>>

-----------------------------------------------------------------------------
(* Properties of the functions *)

\* ubench::options and make_options() of the programs: all spellings of a command
\* line have one result; the last of an option counts, the order of different
\* ones does not, and an error is never taken for help.
CommandLinesRight ==
    /\ call.fn = "options" => O!OptionsRight(<<"a", "b", ":">>, call.words)
    /\ call.fn = "program" => P!ProgramsRight(call.program, call.line, call.user)

\* A behaviour runs one part, so the parts share their model values.
Symmetry == Permutations(Strings) \cup Permutations(Descriptors) \cup Permutations(Udps)
=============================================================================
