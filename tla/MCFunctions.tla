---------------------------- MODULE MCFunctions ----------------------------
(****************************************************************************)
(* The functions of the libraries and tools that keep no state: one call of *)
(* one of them, with inputs that are the constants.                         *)
(****************************************************************************)
EXTENDS Asinfo, Packets, NetInterfaces, Text

CONSTANTS
    IntWord, HexWord, NetByte,                  \* the numbers of values of the types
    SplitCalls, HexCalls, CopyCalls, SockaddrCalls, HostCalls, ColumnCalls,     \* of Text
    AsinfoCalls, PacketCalls, InterfaceCalls    \* of Asinfo, Packets and NetInterfaces

VARIABLE call                                   \* the call that was made

\* Names of interfaces, what getifaddrs() lists for them, and what the other
\* calls of the system give for an interface.
Names == Nat \ {0}
Sockaddr == [family : STRING, addr : Nat]
Ifaddr ==
    [name : Names, family : STRING, addr : Nat, flags : SUBSET STRING, type : STRING,
     netmask : SUBSET Sockaddr, broadaddr : SUBSET Sockaddr, dstaddr : SUBSET Sockaddr]
Vlan == [id : Nat, parent : Names]
Given(sys) ==
    /\ sys.entries \in Seq(Ifaddr)
    /\ \A i \in DOMAIN sys.entries :
          sys.entries[i].name \in DOMAIN sys.hw \cap DOMAIN sys.vlan \cap DOMAIN sys.mtu \cap DOMAIN sys.alias
                                      \cap DOMAIN sys.flags
    /\ \A n \in DOMAIN sys.hw : sys.hw[n] \subseteq Nat
    /\ \A n \in DOMAIN sys.vlan : sys.vlan[n] \subseteq Vlan

\* Data for strlcpy(): a text ends at its NUL, and a buffer is as large as is said.
Texts == Seq(Nat)
Fits(c) == NUL \notin ToSet(c.src) /\ c.size <= Len(c.dst)

\* The most data of a datagram: options.h takes any size up to 65535.
MaxData == 65507

ASSUME FunctionsAssumption ==
    /\ MaxVlan \in Nat /\ {IntWord, HexWord, NetByte} \subseteq Nat \ {0}
    /\ SplitCalls \subseteq [fn : {"split"}, s : Texts, fields : Nat]
    /\ HexCalls \subseteq [fn : {"hex"}, s : Texts]
    /\ CopyCalls \subseteq [fn : {"copy"}, dst : Texts, src : Texts, size : Nat] /\ \A c \in CopyCalls : Fits(c)
    /\ SockaddrCalls \subseteq [fn : {"sockaddr"}, s : Texts, addr : [host : Nat, port : Nat, family : STRING]]
    /\ HostCalls \subseteq [fn : {"host"}, buffer : Texts, hosts : Seq(Texts)]
    /\ ColumnCalls \subseteq [fn : {"columns"}, headline : Seq(Nat)]
    /\ AsinfoCalls \subseteq [fn : {"asinfo"}, page : Seq(Entries(Nat, STRING)), addr : Nat]
    /\ PacketCalls \subseteq [fn : {"packet"}, packet : Packet(Seq(Byte))]
    /\ \A c \in PacketCalls : Len(c.packet.data) <= MaxData
    /\ \A c \in InterfaceCalls :
          /\ c = [fn |-> "interfaces", sys |-> c.sys, has |-> c.has]
          /\ Given(c.sys) /\ c.has \in {Builds[x] : x \in DOMAIN Builds}

NoCall == [fn |-> "none"]
FInit == call = NoCall
FNext ==
    /\ call = NoCall
    /\ \/ call' \in SplitCalls \/ call' \in HexCalls \/ call' \in CopyCalls
       \/ call' \in HostCalls \/ call' \in SockaddrCalls \/ call' \in ColumnCalls
       \/ call' \in AsinfoCalls \/ call' \in PacketCalls \/ call' \in InterfaceCalls
FSpec == FInit /\ [][FNext]_call

-----------------------------------------------------------------------------
(* Properties of the functions *)

\* ubench::string and ubench::net: nothing of a text is lost in its fields,
\* numbers have the value of their digits, copies end, addresses and the
\* columns of a headline are found when they are there.
TextRight ==
    /\ call.fn = "split" => SplitRight(call.s, call.fields, IntWord)
    /\ call.fn = "hex" => HexRight(call.s, HexWord)
    /\ call.fn = "copy" => CopyRight(call.dst, call.src, call.size)
    /\ call.fn = "sockaddr" => SockaddrRight(call.s, call.addr, NetByte)
    /\ call.fn = "host" => HostRight(call.buffer, call.hosts)
    /\ call.fn = "columns" => ColumnsRight(call.headline, <<1, 2, 3>>)
\* libosqnx: the typed memory of an address is found.
AsinfoRight == call.fn = "asinfo" => TymemRight(call.page, call.addr)
\* udp_load: a receiver takes the packets that are built for bpf.
PacketsRight == call.fn = "packet" => ReceiverTakes(call.packet)
\* libunet: one interface is read as it is among all of them.
InterfacesRight == call.fn = "interfaces" => OneAsAll(call.sys, call.has)
=============================================================================
