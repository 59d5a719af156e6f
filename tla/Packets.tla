------------------------------- MODULE Packets -------------------------------
(****************************************************************************)
(* The packets that udp_load writes past the network stack                  *)
(* (l2_eth_udp_pkt.cpp): the Ethernet, VLAN, IPv4 and UDP headers with      *)
(* their checksums, and the Ethernet address of a multicast group.          *)
(*                                                                          *)
(* Bytes and words are numbers.  The addresses and ports of the code are in *)
(* network order in memory and copied as they are; here they are the words  *)
(* that a receiver reads.                                                   *)
(****************************************************************************)
EXTENDS Naturals, Sequences, SequencesExt

Words(bytes) == [w \in 1 .. Len(bytes) \div 2 |-> bytes[2 * w - 1] * 256 + bytes[2 * w]]
Bytes(word) == <<(word \div 256) % 256, word % 256>>
Total(words) == FoldLeft(LAMBDA sum, w : sum + w, 0, words)

\* The sum in ones' complement: what is above 16 bits is added below.
Folded[sum \in Nat] == IF sum > 65535 THEN Folded[(sum % 65536) + sum \div 65536] ELSE sum
Complement(word) == 65535 - word

calc_ipv4_cs(ip) == Complement(Folded[Total(Words(ip))])

\* Mutant of calc_udp_cs: a last odd byte is the low half of its word.
calc_udp_cs_low(ip, udp, payload) ==
    LET udp_len == Words(udp)[3]
        odd == IF udp_len % 2 = 1 THEN <<payload[udp_len - 8]>> ELSE <<>>
    IN  Complement(Folded[Total(Words(SubSeq(ip, 13, 20)) \o <<ip[10], udp_len>> \o Words(udp)
                                   \o Words(SubSeq(payload, 1, udp_len - 8)) \o odd)])

\* The pseudo header, the header and the payload, a last odd byte in the high
\* half of a word.  The sum of all ones is not inverted: a checksum of zero
\* would say that there is none.
calc_udp_cs(ip, udp, payload) ==
    LET udp_len == Words(udp)[3]
        pseudo == Words(SubSeq(ip, 13, 20)) \o <<ip[10], udp_len>>
        even == Words(SubSeq(payload, 1, udp_len - 8))
        odd == IF udp_len % 2 = 1 THEN <<payload[udp_len - 8] * 256>> ELSE <<>>
        sum == Folded[Total(pseudo \o Words(udp) \o even \o odd)]
    IN  IF sum = 65535 THEN sum ELSE Complement(sum)

Byte == {b \in Nat : b < 256}
Word16 == {w \in Nat : w < 65536}
\* l2_eth_udp_pkt, with as much data as fits a datagram.
Packet(data) ==
    [dst_mac : [1 .. 6 -> Byte], src_mac : [1 .. 6 -> Byte], vlan_id : Word16, fragmentation_id : Word16, ttl : Byte,
     src_ip : [1 .. 4 -> Byte], dst_ip : [1 .. 4 -> Byte], src_port : Word16, dst_port : Word16, data : data]

\* build_pkt_hdr() of a packet p that was changed since its last header.
Ipv4Header(p, checksum) ==
    <<69, 0>> \o Bytes(Len(p.data) + 28) \o Bytes(p.fragmentation_id) \o <<0, 0, p.ttl, 17>>
        \o Bytes(checksum) \o p.src_ip \o p.dst_ip
UdpHeader(p, checksum) ==
    Bytes(p.src_port) \o Bytes(p.dst_port) \o Bytes(Len(p.data) + 8) \o Bytes(checksum)
VlanHeader(p) == IF p.vlan_id < 4096 THEN <<129, 0>> \o Bytes(p.vlan_id) ELSE <<>>
build_pkt_hdr(p) ==
    LET ip == Ipv4Header(p, 0)
    IN  p.dst_mac \o p.src_mac \o VlanHeader(p) \o <<8, 0>>
            \o Ipv4Header(p, calc_ipv4_cs(ip))
            \o UdpHeader(p, calc_udp_cs(ip, UdpHeader(p, 0), p.data))

is_multicast(addr) == addr[1] \div 16 = 14
get_ether_multicast(addr) ==
    IF is_multicast(addr) THEN {<<1, 0, 94, addr[2] % 128, addr[3], addr[4]>>} ELSE {}

-----------------------------------------------------------------------------
(* What a receiver asks of them *)

\* The sum in ones' complement of words that hold their checksum.
Verifies(words) == Folded[Total(words)] = 65535
Padded(bytes) == IF Len(bytes) % 2 = 1 THEN Append(bytes, 0) ELSE bytes

\* A receiver of the frame finds the payload behind the lengths of the headers,
\* both checksums verify, an odd byte at the end included, and the checksum of
\* UDP is never the zero that says there is none.
ReceiverTakes(p) ==
    LET hdr == build_pkt_hdr(p)
        at == 14 + Len(VlanHeader(p))
        ip == SubSeq(hdr, at + 1, at + 20)
        udp == SubSeq(hdr, at + 21, at + 28)
        pseudo == SubSeq(ip, 13, 20) \o <<0, ip[10]>> \o SubSeq(udp, 5, 6)
    IN  /\ Len(hdr) = at + 28
        /\ Words(ip)[2] = Len(hdr) - at + Len(p.data)
        /\ Words(udp)[3] = 8 + Len(p.data)
        /\ Verifies(Words(ip))
        /\ Verifies(Words(pseudo \o udp \o Padded(p.data)))
        /\ Words(udp)[4] # 0
=============================================================================
