------------------------------ MODULE Programs ------------------------------
(****************************************************************************)
(* make_options() of the programs: what each makes of the options that      *)
(* ubench::options found in its command line.  An option is a record of its *)
(* letter, its kind ("flag", "argument", or an error: "unexpected",         *)
(* "missing") and the text of its argument.                                 *)
(*                                                                          *)
(* A program is started with an outcome: accepted with a record of options, *)
(* or refused with an exit code, 0 when only the help was asked for.        *)
(****************************************************************************)
EXTENDS Text

CONSTANTS
    Uint,           \* stands for 2^32, above all numbers of the texts
    Supported       \* the send modes the system has

\* A word that a program knows is a text of one symbol.
Word == LET names == <<"sendto", "sendmmsg", "bpf", "bpfmm", "readwrite", "default",
                        "cas", "none", "forward_list", "set", "unordered_set", "fixed_set_128k",
                        "fixed_set_256k", "fixed_set_512k", "fixed_set_1m", "var_set", "var_set_pmr", "ubench">>
        IN  [name \in ToSet(names) |-> <<40 + CHOOSE k \in DOMAIN names : names[k] = name>>]

Ushort == 65536
Byte == 256

Accepted(o) == [accepted |-> TRUE, options |-> o]
Refused(code) == [accepted |-> FALSE, exit |-> code]

IsError(e) == e.kind \in {"unexpected", "missing"}

\* Two ways to go through the options, by an operator set that gives the new
\* record, and whether the option was right.  Some programs go on after an
\* error and decide at the end, some return.
Set(o, ok) == [o |-> o, ok |-> ok]
Noted(st, r) == [st EXCEPT !.o = r.o, !.err = IF r.ok THEN @ ELSE 1]
Collect(entries, o, set(_, _)) ==
    LET step(st, e) ==
            IF IsError(e) THEN [st EXCEPT !.err = 1]
            ELSE IF e.opt = "?" THEN [st EXCEPT !.help = TRUE]
            ELSE Noted(st, set(st.o, e))
    IN  FoldLeft(step, [o |-> o, err |-> 0, help |-> FALSE], entries)
Decide(st) == IF st.err = 1 \/ st.help THEN Refused(st.err) ELSE Accepted(st.o)
Checked(r) == IF r.ok THEN Accepted(r.o) ELSE Refused(1)
ReturnAtFirst(entries, o, set(_, _)) ==
    LET step(st, e) ==
            IF ~st.accepted THEN st
            ELSE IF IsError(e) THEN Refused(1)
            ELSE IF e.opt = "?" THEN Refused(0)
            ELSE Checked(set(st.options, e))
    IN  FoldLeft(step, Accepted(o), entries)

\* An option that is a number from low to high of a type with word values.
InRange(o, field, parsed, low, high) ==
    Set(IF parsed = {} THEN o ELSE [o EXCEPT ![field] = CHOOSE n \in parsed : TRUE],
        \E n \in parsed : low <= n /\ n <= high)
Number(o, field, e, word, low, high) == InRange(o, field, parse_int(e.value, word), low, high)
StoreAddress(o, field, parsed) == Set([o EXCEPT ![field] = parsed.addr], parsed.ok)
SockaddrOption(o, field, e) == StoreAddress(o, field, parse_sockaddr(e.value, o[field], Byte))
StorePids(o, pids) == Set([o EXCEPT !.pids = pids], pids # <<>>)
PidList(o, e) == StorePids(o, split_args_int(e.value, Uint))
Flag(o, field) == Set([o EXCEPT ![field] = TRUE], TRUE)

\* One word must be left behind the options.
OneWord(st, field, user) ==
    Decide(IF Len(user) # 1 THEN [st EXCEPT !.err = 1] ELSE [st EXCEPT !.o[field] = user[1]])

-----------------------------------------------------------------------------
(* The programs *)

lsqf(entries, user) ==
    LET set(o, e) ==
            CASE e.opt = "c" -> Flag(o, "sidechannels")
              [] e.opt = "d" -> Flag(o, "dead")
              [] e.opt = "s" -> Flag(o, "self")
              [] e.opt = "p" -> PidList(o, e)
              [] e.opt = "v" -> Set([o EXCEPT !.verbosity = @ + 1], TRUE)
    IN  Decide(Collect(entries, [sidechannels |-> FALSE, dead |-> FALSE, self |-> FALSE,
                                 verbosity |-> 0, pids |-> <<>>], set))

\* Without any of -m, -s and -t it is -s.
SharedByDefault(st) ==
    [st EXCEPT !.o.shared_mem = @ \/ (~st.o.phys_mem /\ ~st.o.tymem)]
lshmem(entries, user) ==
    LET set(o, e) ==
            CASE e.opt = "v" -> Set([o EXCEPT !.verbosity = @ + 1], TRUE)
              [] e.opt = "p" -> PidList(o, e)
              [] e.opt = "m" -> Flag(o, "phys_mem")
              [] e.opt = "s" -> Flag(o, "shared_mem")
              [] e.opt = "r" -> Flag(o, "read")
              [] e.opt = "t" -> Flag(o, "tymem")
    IN  Decide(SharedByDefault(Collect(entries,
            [verbosity |-> 0, pids |-> <<>>, phys_mem |-> FALSE, shared_mem |-> FALSE,
             read |-> FALSE, tymem |-> FALSE], set)))

\* The name of the benchmark has no default: without -b it is unknown.
Benchmark(st) ==
    [st EXCEPT !.err = IF st.o.benchmark \in {Word.default, Word.cas, Word.readwrite} THEN @ ELSE 1,
               !.o.mode = IF st.o.benchmark = Word.readwrite THEN "readwrite" ELSE "cas"]
core_latency(entries, user) ==
    LET set(o, e) ==
            CASE e.opt = "s" -> Number(o, "samples", e, Uint, 1, 60000)
              [] e.opt = "i" -> Number(o, "iters", e, Uint, 1, 60000)
              [] e.opt = "b" -> Set([o EXCEPT !.benchmark = e.value], TRUE)
    IN  Decide(Benchmark(Collect(entries,
            [benchmark |-> <<>>, mode |-> "cas", samples |-> 500, iters |-> 4000], set)))

\* The benchmark of str_intern: exactly one file.
str_intern(entries, user) ==
    LET known == {Word.none, Word.forward_list, Word.set, Word.unordered_set, Word.fixed_set_128k,
                  Word.fixed_set_256k, Word.fixed_set_512k, Word.fixed_set_1m, Word.var_set,
                  Word.var_set_pmr, Word.ubench}
        set(o, e) == IF e.value \in known THEN Set([o EXCEPT !.mode = e.value], TRUE) ELSE Set(o, FALSE)
    IN  OneWord(Collect(entries, [mode |-> Word.none, input |-> <<>>], set), "input", user)

cacheline(entries, user) ==
    Decide(Collect(entries, [buffer_size |-> 256], LAMBDA o, e : Number(o, "buffer_size", e, Uint, 1, 512)))

qnx_statvfs(entries, user) ==
    OneWord(Collect(entries, [device |-> <<>>], LAMBDA o, e : Set(o, FALSE)), "device", user)

\* Both addresses are needed.
NeedsAddresses(outcome) ==
    IF outcome.accepted
    THEN IF outcome.options.source.host = 0 \/ outcome.options.dest.host = 0 THEN Refused(1) ELSE outcome
    ELSE outcome

bpf_udp4(entries, user) ==
    LET set(o, e) ==
            CASE e.opt = "B" -> Set([o EXCEPT !.mode = e.value], e.value \in {Word.sendto, Word.bpf})
              [] e.opt = "s" -> Number(o, "size", e, Ushort, 0, 65527)
              [] e.opt = "S" -> SockaddrOption(o, "source", e)
              [] e.opt = "D" -> SockaddrOption(o, "dest", e)
    IN  NeedsAddresses(Decide(Collect(entries,
            [mode |-> Word.sendto, size |-> 1472, source |-> NoSockaddr, dest |-> NoSockaddr], set)))

udp_load(entries, user) ==
    LET known == {Word.sendto, Word.sendmmsg, Word.bpf, Word.bpfmm}
        set(o, e) ==
            CASE e.opt = "n" -> Number(o, "slots", e, Ushort, 1, Ushort)
              [] e.opt = "m" -> Number(o, "width", e, Ushort, 1, Ushort)
              [] e.opt = "p" -> Number(o, "packets", e, Uint, 1, Uint)
              [] e.opt = "s" -> Number(o, "size", e, Ushort, 0, Ushort)
              [] e.opt = "d" -> Number(o, "duration", e, Uint, 1000, Uint)
              [] e.opt = "B" -> Set([o EXCEPT !.mode = e.value], e.value \in known \cap Supported)
              [] e.opt = "T" -> Number(o, "threads", e, Ushort, 1, 255)
              [] e.opt = "S" -> SockaddrOption(o, "source", e)
              [] e.opt = "D" -> SockaddrOption(o, "dest", e)
              [] e.opt = "I" -> Flag(o, "idle")
    IN  NeedsAddresses(ReturnAtFirst(entries,
            [slots |-> 20, width |-> 5, packets |-> 1000, size |-> 1472, duration |-> 30000,
             mode |-> Word.sendto, threads |-> 1, source |-> NoSockaddr, dest |-> NoSockaddr,
             idle |-> FALSE], set))

\* sdd takes an address or the name of an interface, and a port.
parse_iface(s) ==
    LET sep == Max(Where(s, Colon) \cup {0})
        ports == IF sep = 0 THEN {0} ELSE parse_int(SubSeq(s, sep + 1, Len(s)), Ushort)
        host == IF sep = 0 THEN s ELSE SubSeq(s, 1, sep - 1)
    IN  {[addr |-> [host |-> IF inet_pton(host) THEN s_addr(host) ELSE 0,
                    port |-> htons(port, Byte), family |-> "inet"],
          iface |-> IF inet_pton(host) THEN <<>> ELSE host] : port \in IF sep = 1 THEN {} ELSE ports}
StoreIface(o, parsed) ==
    IF parsed = {} THEN Set(o, FALSE)
    ELSE Set(CHOOSE q \in {[o EXCEPT !.source = p.addr, !.iface = p.iface] : p \in parsed} : TRUE, TRUE)
Iface(o, e) == StoreIface(o, parse_iface(e.value))

default_port == htons(52599, Byte)
default_dest == 27      \* stands for 239.255.42.99
Orelse(n, default) == IF n = 0 THEN default ELSE n
Completed(outcome) ==
    IF ~outcome.accepted THEN outcome
    ELSE [outcome EXCEPT !.options.source.family = "inet",
                         !.options.source.port = Orelse(@, default_port),
                         !.options.dest.family = "inet",
                         !.options.dest.host = Orelse(@, default_dest),
                         !.options.dest.port = Orelse(@, default_port)]
InMilliseconds(r) == IF r.ok THEN [r EXCEPT !.o.interval = @ * 1000] ELSE r
sdd(entries, user) ==
    LET set(o, e) ==
            CASE e.opt = "n" -> InMilliseconds(Number(o, "interval", e, Uint, 1, 86400))
              [] e.opt = "S" -> Iface(o, e)
              [] e.opt = "D" -> SockaddrOption(o, "dest", e)
    IN  Completed(ReturnAtFirst(entries,
            [interval |-> 1000, source |-> NoSockaddr, iface |-> <<>>, dest |-> NoSockaddr], set))

\* The options of each program: its letters without and with an argument.
Flags == [lsqf |-> {"c", "d", "s", "v"}, lshmem |-> {"m", "r", "s", "t", "v"}, core_latency |-> {},
          str_intern |-> {}, cacheline |-> {}, qnx_statvfs |-> {}, bpf_udp4 |-> {}, udp_load |-> {"I"}, sdd |-> {}]
Arguments == [lsqf |-> {"p"}, lshmem |-> {"p"}, core_latency |-> {"s", "i", "b"}, str_intern |-> {"B"},
              cacheline |-> {"b"}, qnx_statvfs |-> {}, bpf_udp4 |-> {"s", "S", "D", "B"},
              udp_load |-> {"n", "m", "p", "s", "d", "B", "T", "S", "D"}, sdd |-> {"n", "S", "D"}]
make_options(program, entries, user) ==
    CASE program = "lsqf" -> lsqf(entries, user)
      [] program = "lshmem" -> lshmem(entries, user)
      [] program = "core_latency" -> core_latency(entries, user)
      [] program = "str_intern" -> str_intern(entries, user)
      [] program = "cacheline" -> cacheline(entries, user)
      [] program = "qnx_statvfs" -> qnx_statvfs(entries, user)
      [] program = "bpf_udp4" -> bpf_udp4(entries, user)
      [] program = "udp_load" -> udp_load(entries, user)
      [] program = "sdd" -> sdd(entries, user)

-----------------------------------------------------------------------------
(* What they promise *)

\* The options without those that another one of the same letter follows; -v
\* counts, so each one stays.
LastOnes(entries) ==
    LET last(i) == entries[i].opt = "v" \/ ~\E j \in DOMAIN entries : j > i /\ entries[j].opt = entries[i].opt
    IN  [k \in 1 .. Cardinality({i \in DOMAIN entries : last(i)}) |->
            entries[SetToSortSeq({i \in DOMAIN entries : last(i)}, <)[k]]]

\* An accepted command line means the same in any order of its options and
\* without those that are given again, so the last one counts whatever came
\* before it; a program is left with exit code 0 only for -?, and is never
\* accepted with an error or with -?.
OutcomeRight(program, entries, user, outcome) ==
    IF ~outcome.accepted
    THEN outcome.exit = 0 => \E i \in DOMAIN entries : entries[i].opt = "?" /\ entries[i].kind = "flag"
    ELSE /\ \A i \in DOMAIN entries : entries[i].opt # "?" /\ ~IsError(entries[i])
         /\ \A p \in {q \in [DOMAIN LastOnes(entries) -> DOMAIN LastOnes(entries)] :
                         \A i, j \in DOMAIN q : q[i] = q[j] => i = j} :
                outcome = make_options(program, [i \in DOMAIN p |-> LastOnes(entries)[p[i]]], user)
ProgramsRight(program, entries, user) ==
    OutcomeRight(program, entries, user, make_options(program, entries, user))
=============================================================================
