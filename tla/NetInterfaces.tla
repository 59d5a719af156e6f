---------------------------- MODULE NetInterfaces ----------------------------
(****************************************************************************)
(* What libunet reads about the network interfaces (net_common.cpp and      *)
(* net_query_*.cpp): one pass over the addresses that getifaddrs() lists,   *)
(* and then ioctl() calls that fill in the alias, the hardware address, the *)
(* VLAN and the MTU, for all interfaces or for a single one.                *)
(*                                                                          *)
(* What may be absent is a set of at most one element.  A name is a number: *)
(* the std::map goes through the interfaces in the order of their names.    *)
(****************************************************************************)
EXTENDS Naturals, Sequences, SequencesExt, FiniteSetsExt

CONSTANT MaxVlan    \* 4095

\* What a build knows of its system, as CMake finds it.
Builds == [linux |-> {"SIOCGIFHWADDR", "VLAN"}, cygwin |-> {"SIOCGIFFRNDLYNAM", "SIOCGIFHWADDR"},
           bsd |-> {"AF_LINK", "VLAN"}]

interface(name) == [name |-> name, alias |-> {}, hw_addr |-> {}, vlan |-> {}, mtu |-> {}, inet |-> <<>>, flags |-> {}]

\* if_ipv4 of an entry of family INET; a mask or another address of the entry
\* counts when it is of family INET too, or of none, as on QNX 7.1.
Usable(sockaddr) == {a.addr : a \in {a \in sockaddr : a.family \in {"UNSPEC", "INET"}}}
if_ipv4(entry) ==
    [addr |-> entry.addr,
     netmask |-> Usable(entry.netmask),
     broadcast_addr |-> IF "BROADCAST" \in entry.flags THEN Usable(entry.broadaddr) ELSE {},
     dest_addr |-> IF "POINTOPOINT" \in entry.flags THEN Usable(entry.dstaddr) ELSE {}]

\* Mutant of AddInet: an address that is listed again is added again.
AddInetAgain(intf, entry) == [intf EXCEPT !.inet = Append(@, if_ipv4(entry))]

\* query_net_interfaces_getifaddrs(): an entry of an interface.  The first
\* Ethernet address counts, and the first entry of an IPv4 address.
AddInet(intf, entry) ==
    IF \E k \in DOMAIN intf.inet : intf.inet[k].addr = entry.addr THEN intf
    ELSE [intf EXCEPT !.inet = Append(@, if_ipv4(entry))]
AddLink(intf, entry, has) ==
    IF "AF_LINK" \in has /\ intf.hw_addr = {} /\ entry.type = "ETHER"
    THEN [intf EXCEPT !.hw_addr = {entry.addr}] ELSE intf
AddEntry(intf, entry, has) ==
    LET flagged == [intf EXCEPT !.flags = entry.flags]
    IN  CASE entry.family = "none" -> intf
          [] entry.family = "INET" -> AddInet(flagged, entry)
          [] entry.family = "LINK" -> AddLink(flagged, entry, has)
          [] OTHER -> flagged
query_net_interfaces_getifaddrs(entries, has) ==
    LET known == {entries[i].name : i \in DOMAIN entries}
        add(intf, e) == IF e.name = intf.name THEN AddEntry(intf, e, has) ELSE intf
    IN  [name \in known |-> FoldLeft(add, interface(name), entries)]

\* The ioctl() calls.  A hardware address of zeros is none, and so is one that
\* is not of Ethernet.
query_net_interface_hw_addr(sys, name) == sys.hw[name] \ {0}
query_net_interface_vlan_id(sys, name) == sys.vlan[name]
query_net_interface_mtu(sys, name) == sys.mtu[name]
query_net_interface_friendly_name(sys, name) == sys.alias[name]
query_net_interface_flags(sys, name) == sys.flags[name]

\* interface::vlan(): an identifier out of range is refused.
SetVlan(intf, vlan) == IF vlan.id > MaxVlan THEN intf ELSE [intf EXCEPT !.vlan = {vlan}]

\* query_net_interfaces_filter(): the missing details of an interface, one by
\* one.  A VLAN without an address of its own has that of its parent.
Either(new, old) == IF new # {} THEN new ELSE old
FillAlias(intf, sys, has) ==
    IF "SIOCGIFFRNDLYNAM" \in has
    THEN [intf EXCEPT !.alias = Either(query_net_interface_friendly_name(sys, intf.name), @)] ELSE intf
FillHwAddr(intf, sys, has) ==
    IF "SIOCGIFHWADDR" \in has /\ intf.hw_addr = {}
    THEN [intf EXCEPT !.hw_addr = query_net_interface_hw_addr(sys, intf.name)] ELSE intf
FillVlan(intf, sys, has, interfaces) ==
    LET vlans == query_net_interface_vlan_id(sys, intf.name)
        vlan == CHOOSE v \in vlans : TRUE
        set == SetVlan(intf, vlan)
        inherits == /\ "SIOCGIFHWADDR" \notin has /\ intf.hw_addr = {}
                    /\ vlan.parent \in DOMAIN interfaces
    IN  IF "VLAN" \notin has \/ vlans = {} THEN intf
        ELSE IF inherits THEN [set EXCEPT !.hw_addr = interfaces[vlan.parent].hw_addr]
        ELSE set
FillMtu(intf, sys) == [intf EXCEPT !.mtu = Either(query_net_interface_mtu(sys, intf.name), @)]
FillFlags(intf, sys, has) ==
    IF "SIOCGIFFRNDLYNAM" \in has /\ query_net_interface_flags(sys, intf.name) # {}
    THEN [intf EXCEPT !.flags = CHOOSE f \in query_net_interface_flags(sys, intf.name) : TRUE] ELSE intf
Fill(interfaces, name, sys, has) ==
    LET vlan == FillVlan(FillHwAddr(FillAlias(interfaces[name], sys, has), sys, has), sys, has, interfaces)
    IN  [interfaces EXCEPT ![name] = FillFlags(FillMtu(vlan, sys), sys, has)]
query_net_interfaces_filter(sys, has, query) ==
    LET all == query_net_interfaces_getifaddrs(sys.entries, has)
        wanted == IF query = {} THEN DOMAIN all ELSE DOMAIN all \cap query
        visit(m, name) == IF name \in wanted THEN Fill(m, name, sys, has) ELSE m
    IN  IF ~sys.socket THEN all ELSE FoldLeft(visit, all, [name \in 1 .. Max(DOMAIN all \cup {0}) |-> name])

query_net_interfaces(sys, has) == query_net_interfaces_filter(sys, has, {})
query_net_interface(sys, has, name) ==
    LET interfaces == query_net_interfaces_filter(sys, has, {name})
    IN  IF name \in DOMAIN interfaces THEN {interfaces[name]} ELSE {}

\* interface::status()
status(intf) == intf.flags \cap {"UP", "BROADCAST", "LOOPBACK", "POINTOPOINT", "RUNNING", "NOARP", "MULTICAST", "LOWER_UP"}

-----------------------------------------------------------------------------
(* What they promise *)

\* A VLAN on a VLAN, both without an address of their own in the list.
NestedVlan(sys, has, name) ==
    \E v \in sys.vlan[name] :
        /\ v.parent \in DOMAIN query_net_interfaces(sys, has)
        /\ sys.vlan[v.parent] # {}

\* Asking for one interface gives what asking for all of them gives for it,
\* except for the hardware address of a VLAN on a VLAN, which depends on the
\* order of their names; no IPv4 address comes twice; and an interface has an
\* Ethernet address that the list has, or one that is not of zeros.
OneAsAll(sys, has) ==
    LET all == query_net_interfaces(sys, has)
        linked == {sys.entries[i].addr : i \in {i \in DOMAIN sys.entries :
                      sys.entries[i].family = "LINK" /\ sys.entries[i].type = "ETHER"}}
        asked == UNION {sys.hw[n] : n \in DOMAIN sys.hw}
    IN  \A name \in DOMAIN all :
          /\ \A one \in query_net_interface(sys, has, name) :
                one = all[name] \/ ("AF_LINK" \in has /\ NestedVlan(sys, has, name)
                                      /\ [one EXCEPT !.hw_addr = {}] = [all[name] EXCEPT !.hw_addr = {}])
          /\ query_net_interface(sys, has, name) # {}
          /\ \A i, j \in DOMAIN all[name].inet : all[name].inet[i].addr = all[name].inet[j].addr => i = j
          /\ {sys.entries[i].addr : i \in {i \in DOMAIN sys.entries :
                 sys.entries[i].name = name /\ sys.entries[i].family = "INET"}}
               = {all[name].inet[i].addr : i \in DOMAIN all[name].inet}
          /\ all[name].hw_addr \subseteq linked \cup (asked \ {0})
          /\ \A v \in all[name].vlan : v.id <= MaxVlan /\ v \in sys.vlan[name]
=============================================================================
