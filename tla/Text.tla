-------------------------------- MODULE Text --------------------------------
(****************************************************************************)
(* The parsing of text in ubench::string (string.h, string.cpp),            *)
(* ubench::net (net_common.cpp) and lshmem (pid_mapping.cpp).               *)
(*                                                                          *)
(* A text is a sequence of symbols.  The digits are the numbers 0 to 15;    *)
(* the symbols that mean something to a parser have a name, and any other   *)
(* number is a symbol that means nothing.  What may be absent is a set of   *)
(* at most one element.                                                     *)
(****************************************************************************)
EXTENDS Naturals, Sequences, SequencesExt, FiniteSetsExt

Comma == 20
Colon == 21
Dot == 22
X == 23         \* the x of a prefix 0x
Address == 24   \* stands for a text that inet_pton() takes
NUL == 25
AnyAddress == 26 \* the text of the address 0

Where(s, c) == {i \in DOMAIN s : s[i] = c}
IsDigits(s, base) == s # <<>> /\ \A i \in DOMAIN s : s[i] < base

-----------------------------------------------------------------------------
(* ubench::string *)

\* parse_int() of an unsigned type with word values: std::from_chars() must
\* have taken all of the text, and the number must fit.
parse_int(s, word) ==
    LET value == FoldLeft(LAMBDA v, d : 10 * v + d, 0, s)
    IN  IF IsDigits(s, 10) /\ value < word THEN {value} ELSE {}

\* split_args(): a comma begins a new field, as long as there may be one more.
Splits(parts, c, fields) == c = Comma /\ (fields = 0 \/ Len(parts) < fields)
split_args(s, fields) ==
    LET take(parts, c) == IF Splits(parts, c, fields) THEN Append(parts, <<>>)
                          ELSE [parts EXCEPT ![Len(parts)] = Append(@, c)]
    IN  FoldLeft(take, <<<<>>>>, s)

\* No numbers at all if one field is not a number.
split_args_int(s, word) ==
    LET parsed == [k \in DOMAIN split_args(s, 0) |-> parse_int(split_args(s, 0)[k], word)]
    IN  IF \E k \in DOMAIN parsed : parsed[k] = {} THEN <<>>
        ELSE [k \in DOMAIN parsed |-> CHOOSE v \in parsed[k] : TRUE]

\* from_chars_hex() of a text that is not empty: the digits before the first
\* symbol that is none, cut to the low bits of the type.
from_chars_hex(s, word) ==
    LET bad == {i \in DOMAIN s : s[i] > 15}
        used == IF bad = {} THEN Len(s) ELSE Min(bad) - 1
    IN  [value |-> FoldLeft(LAMBDA v, d : (16 * v + d) % word, 0, SubSeq(s, 1, used)),
         used |-> used, ok |-> bad = {}]

\* Mutant of Copied: no place is left for the end.
CopiedAll(src, size) == Min({Len(src), size})

\* strlcpy(dst, src, size): dst is size elements at least, src ends before NUL.
Copied(src, size) == Min({Len(src), size - 1})
strlcpy(dst, src, size) ==
    [dst |-> [i \in DOMAIN dst |-> IF size = 0 THEN dst[i]
                                   ELSE IF i <= Copied(src, size) THEN src[i]
                                   ELSE IF i = Copied(src, size) + 1 THEN NUL ELSE dst[i]],
     length |-> Len(src)]

-----------------------------------------------------------------------------
(* ubench::net *)

htons(p, byte) == (p % byte) * byte + p \div byte
inet_pton(s) == s \in {<<Address>>, <<AnyAddress>>}
s_addr(s) == IF s = <<AnyAddress>> THEN 0 ELSE Address
NoSockaddr == [host |-> 0, port |-> 0, family |-> "none"]

\* parse_sockaddr(): a port follows the last colon.  It is stored before the
\* address is looked at, so addr changes when the address is then refused.
parse_sockaddr(s, addr, byte) ==
    LET sep == Max(Where(s, Colon) \cup {0})
        port == IF sep = 0 THEN {0} ELSE parse_int(SubSeq(s, sep + 1, Len(s)), byte * byte)
        host == IF sep = 0 THEN s ELSE SubSeq(s, 1, sep - 1)
        withport == [addr EXCEPT !.port = htons(CHOOSE p \in port : TRUE, byte)]
    IN  IF sep = 1 \/ port = {} THEN [ok |-> FALSE, addr |-> addr]
        ELSE IF ~inet_pton(host) THEN [ok |-> FALSE, addr |-> withport]
        ELSE [ok |-> TRUE, addr |-> [withport EXCEPT !.host = s_addr(host), !.family = "inet"]]

\* gethostname(): up to the first dot or NUL of the buffer, which the system
\* call need not have ended with one.
gethostname(result, buffer) ==
    LET ends == Where(buffer, Dot) \cup Where(buffer, NUL)
    IN  IF result # 0 THEN {}
        ELSE {IF ends = {} THEN buffer ELSE SubSeq(buffer, 1, Min(ends) - 1)}

\* getdomainname() by the table of hosts: what follows the name of this host
\* and a dot in the first entry that starts with them.
HostentDomain(name, hosts) ==
    LET ours(h) == IsPrefix(Append(name, Dot), h)
    IN  IF ~\E k \in DOMAIN hosts : ours(hosts[k]) THEN {}
        ELSE LET k == Min({j \in DOMAIN hosts : ours(hosts[j])})
             IN  {SubSeq(hosts[k], Len(name) + 2, Len(hosts[k]))}
\* getdomainname() by the resolver: the first of the addresses of this host
\* that has a name.
NameinfoDomain(infos) ==
    LET named == {k \in DOMAIN infos : infos[k] # {}}
    IN  IF named = {} THEN {} ELSE infos[Min(named)]

-----------------------------------------------------------------------------
(* lshmem: a file of mappings *)

\* find_columns(): the field that each column is in, or nothing.  Fields that
\* are columns are counted, not columns that were found.
find_columns(headline, columns) ==
    LET fields(c) == {f \in DOMAIN headline : headline[f] = columns[c]}
        found == {f \in DOMAIN headline : \E c \in DOMAIN columns : headline[f] = columns[c]}
    IN  IF Len(headline) < Len(columns) \/ Cardinality(found) # Len(columns) THEN {}
        ELSE {[c \in DOMAIN columns |-> IF fields(c) = {} THEN 1 ELSE Max(fields(c))]}

\* get_hex(): the text after 0x.
get_hex(field, word) ==
    IF Len(field) < 3 \/ SubSeq(field, 1, 2) # <<0, X>> THEN {}
    ELSE LET h == from_chars_hex(SubSeq(field, 3, Len(field)), word)
         IN  IF h.ok THEN {h.value} ELSE {}

-----------------------------------------------------------------------------
(* What they promise *)

Joined(parts) == FoldLeft(LAMBDA s, p : s \o <<Comma>> \o p, Head(parts), Tail(parts))

\* Nothing of a text is lost by cutting it: the fields with commas between
\* them are the text, none but the last one of a limited number has a comma,
\* and the numbers are those of the fields.
SplitRight(s, fields, word) ==
    LET parts == split_args(s, fields)
    IN  /\ Joined(parts) = s
        /\ fields # 0 => Len(parts) <= fields
        /\ \A k \in DOMAIN parts : Where(parts[k], Comma) # {} => k = Len(parts) /\ k = fields
        /\ LET numbers == split_args_int(s, word)
           IN  IF numbers = <<>> THEN \E k \in DOMAIN split_args(s, 0) : parse_int(split_args(s, 0)[k], word) = {}
               ELSE \A k \in DOMAIN numbers : numbers[k] \in parse_int(split_args(s, 0)[k], word)

\* A number in hexadecimal has the value of its digits without the high bits,
\* and all of the text counts: no other text has the same digits.
HexRight(s, word) ==
    LET value(t) == FoldLeft(LAMBDA v, d : 16 * v + d, 0, t)
    IN  /\ s # <<>> => LET h == from_chars_hex(s, word)
                       IN  /\ h.value = value(SubSeq(s, 1, h.used)) % word
                           /\ h.ok <=> IsDigits(s, 16)
        /\ get_hex(<<0, X>> \o s, word) = IF IsDigits(s, 16) THEN {value(s) % word} ELSE {}

\* A copy ends within its size and is the start of the source, and the length
\* that is returned tells whether it is all of it.
CopyRight(dst, src, size) ==
    LET c == strlcpy(dst, src, size)
        ends == Where(c.dst, NUL)
    IN  /\ SubSeq(c.dst, size + 1, Len(dst)) = SubSeq(dst, size + 1, Len(dst))
        /\ size > 0 => /\ ends # {} /\ Min(ends) <= size
                       /\ SubSeq(c.dst, 1, Min(ends) - 1) = SubSeq(src, 1, Min(ends) - 1)
                       /\ c.length < size <=> Min(ends) - 1 = Len(src)

\* An address is accepted exactly when it is an address, or one with a colon
\* and a port that fits into two bytes; the port is stored in network order.
SockaddrRight(s, addr, byte) ==
    LET parsed == parse_sockaddr(s, addr, byte)
        wellformed == IF s = <<>> THEN FALSE
                      ELSE /\ Head(s) \in {Address, AnyAddress}
                           /\ Len(s) > 1 => s[2] = Colon /\ parse_int(SubSeq(s, 3, Len(s)), byte * byte) # {}
    IN  /\ parsed.ok <=> wellformed
        /\ parsed.ok => parsed.addr.family = "inet"
        /\ parsed.ok /\ Len(s) > 1 =>
              {htons(parsed.addr.port, byte)} = parse_int(SubSeq(s, 3, Len(s)), byte * byte)

\* A host name has no domain in it, and the domain that the table of hosts gives
\* is that of a host of this name; the resolver's is the name of an address.
HostRight(buffer, hosts) ==
    /\ gethostname(1, buffer) = {}
    /\ \A name \in gethostname(0, buffer) :
          /\ Where(name, Dot) = {} /\ Where(name, NUL) = {} /\ IsPrefix(name, buffer)
          /\ \A domain \in HostentDomain(name, hosts) : Append(name, Dot) \o domain \in ToSet(hosts)
          /\ HostentDomain(name, hosts) = {} =>
                \A k \in DOMAIN hosts : Where(hosts[k], Dot) # {} =>
                    SubSeq(hosts[k], 1, Min(Where(hosts[k], Dot)) - 1) # name
    /\ LET infos == [k \in DOMAIN hosts |-> IF hosts[k] = <<>> THEN {} ELSE {hosts[k]}]
       IN  IF \A k \in DOMAIN hosts : hosts[k] = <<>> THEN NameinfoDomain(infos) = {}
           ELSE \E k \in DOMAIN hosts : hosts[k] # <<>> /\ NameinfoDomain(infos) = {hosts[k]}

\* The columns of a headline in which no name comes twice are all found, each
\* where its name is.
ColumnsRight(headline, columns) ==
    (\A f, g \in DOMAIN headline : headline[f] = headline[g] => f = g) =>
        LET found == find_columns(headline, columns)
        IN  IF \A c \in DOMAIN columns : \E f \in DOMAIN headline : headline[f] = columns[c]
            THEN found # {} /\ \A index \in found, c \in DOMAIN columns : headline[index[c]] = columns[c]
            ELSE found = {}
=============================================================================
