------------------------------- MODULE ShmemMap -------------------------------
(****************************************************************************)
(* The tool lshmem: the shared memory of processes from their mappings      *)
(* files, one line of a file at a time.  pid_mapping::insert() keeps the    *)
(* regions of a process sorted by their physical address and merges those   *)
(* that touch and are of the same object; print_shmem() walks the regions   *)
(* of two processes side by side and adds up where they overlap.            *)
(*                                                                          *)
(* What is_same() compares (flags, protection, device, inode, name) is one  *)
(* field here, the object.                                                  *)
(****************************************************************************)
EXTENDS Naturals, Sequences, FiniteSets, SequencesExt, FiniteSetsExt

CONSTANTS
    Pids,
    Objects,
    Addresses,  \* physical addresses of lines
    Unmapped,   \* the address of a page that has no physical one
    Lengths,    \* lengths of lines
    read,       \* the option -r: lines that are not writable count
    MaxLines    \* bound: lines that are inserted in the files of all processes

\* What the constants are.
ShmemAssumption ==
    /\ Addresses \subseteq Nat /\ Lengths \subseteq Nat \ {0}
    /\ read \in BOOLEAN /\ MaxLines \in Nat

VARIABLES
    map,        \* map_ of the pid_mapping of each process
    lines,      \* history: the lines of its file that became part of a region
    dropped,    \* history: the lines of its file that were taken for duplicates
    mixed       \* history: a line became part of a region and shared a page with
                \* one that did before

vars == <<map, lines, dropped, mixed>>

\* A line whose numbers parse, and what its flags and protection say.
Line == [addr : Addresses \cup {Unmapped}, len : Lengths, object : Objects]
FlagSets == {{"SHARED"}, {"PRIVATE"}, {"SHARED", "STACK"}}
ProtSets == {{"READ"}, {"READ", "WRITE"}}

is_mapped(addr) == addr # Unmapped
is_shared(flags) == flags \cap {"SHARED", "PRIVATE", "ELF", "STACK"} = {"SHARED"}
is_writable(prot) == "WRITE" \in prot
Pages(line) == line.addr .. line.addr + line.len - 1
EndOf(a) == a.addr + a.len

Init == /\ map = [p \in Pids |-> <<>>]
        /\ lines = [p \in Pids |-> {}]
        /\ dropped = [p \in Pids |-> {}]
        /\ mixed = [p \in Pids |-> FALSE]

\* merge_mapline(): both orders of two regions that touch.
Mergeable(a, b) ==
    a.object = b.object /\ (a.addr + a.len = b.addr \/ b.addr + b.len = a.addr)
Merged(a, b) ==
    [a EXCEPT !.addr = IF b.addr < @ THEN b.addr ELSE @, !.len = @ + b.len]

\* Mutant of InsertBefore: a region that grew is not joined to the one before.
InsertBeforeOnly(m, i, line) ==
    IF Mergeable(m[i], line) THEN [m EXCEPT ![i] = Merged(m[i], line)] ELSE InsertAt(m, i, line)

\* A line that starts where a region does is taken for a duplicate of it,
\* whatever its object and its length.
Duplicate(m, line) == \E i \in DOMAIN m : m[i].addr = line.addr

\* pid_mapping::insert() where i is the first region that starts behind the
\* line: the line merges with the region, and that one with the region before
\* it, or with the region before, or is a region of its own.
InsertBefore(m, i, line) ==
    LET prev == i - 1
        joined == Merged(m[i], line)
    IN  IF Mergeable(m[i], line)
        THEN IF prev > 0 /\ Mergeable(joined, m[prev])
             THEN RemoveAt([m EXCEPT ![i] = Merged(joined, m[prev])], prev)
             ELSE [m EXCEPT ![i] = joined]
        ELSE IF prev > 0 /\ Mergeable(m[prev], line)
             THEN [m EXCEPT ![prev] = Merged(m[prev], line)]
        ELSE InsertAt(m, i, line)
InsertLast(m, line) ==
    IF m # <<>> /\ Mergeable(Last(m), line)
    THEN [m EXCEPT ![Len(m)] = Merged(Last(m), line)]
    ELSE Append(m, line)
insert(m, line) ==
    LET behind == {i \in DOMAIN m : line.addr < m[i].addr}
    IN  IF Duplicate(m, line) THEN m
        ELSE IF behind = {} THEN InsertLast(m, line)
        ELSE InsertBefore(m, Min(behind), line)

\* load_mapping(): only mapped, shared memory that is writable, or any with
\* the option, is inserted.
Wanted(line, flags, prot) ==
    is_mapped(line.addr) /\ is_shared(flags) /\ (read \/ is_writable(prot))
WantedLines ==
    {l \in Line : \E flags \in FlagSets, prot \in ProtSets : Wanted(l, flags, prot)}
OtherLines ==
    {l \in Line : \E flags \in FlagSets, prot \in ProtSets : ~Wanted(l, flags, prot)}

\* A file lists its lines in any order: they may overlap, as those of different
\* objects do in lshmem.md, start at one address or come again.
Load(p) ==
    /\ Cardinality(UNION {{q} \X (lines[q] \cup dropped[q]) : q \in Pids}) < MaxLines
    /\ \E line \in WantedLines :
          /\ map' = [map EXCEPT ![p] = insert(@, line)]
          /\ IF Duplicate(map[p], line)
             THEN /\ dropped' = [dropped EXCEPT ![p] = @ \cup {line}]
                  /\ UNCHANGED <<lines, mixed>>
             ELSE /\ lines' = [lines EXCEPT ![p] = @ \cup {line}]
                  /\ mixed' = [mixed EXCEPT ![p] =
                                  @ \/ \E l \in lines[p] : Pages(l) \cap Pages(line) # {}]
                  /\ UNCHANGED dropped
PassOver(p) == OtherLines # {} /\ UNCHANGED vars

Next == \E p \in Pids : Load(p) \/ PassOver(p)
Spec == Init /\ [][Next]_vars

-----------------------------------------------------------------------------
(* print_shmem() and shmem_map::compare_and_add() *)

\* Mutant of Overlap: it starts where the first region does.
OverlapOfFirst(a, b) ==
    LET oend == Min({EndOf(a), EndOf(b)})
    IN  IF a.addr >= oend THEN 0 ELSE oend - a.addr

\* The length of the overlap of two regions.
Overlap(a, b) ==
    LET ostart == Max({a.addr, b.addr})
        oend == Min({EndOf(a), EndOf(b)})
    IN  IF ostart >= oend THEN 0 ELSE oend - ostart

\* The walk over the regions of m and n: of two regions the one that ends first
\* is left behind.  What overlaps from the regions at[1] and at[2] on is added up for
\* each pair of objects.
Walk(m, n) ==
    LET from[at \in (1 .. Len(m) + 1) \X (1 .. Len(n) + 1)] ==
            IF at[1] > Len(m) \/ at[2] > Len(n) THEN [pair \in Objects \X Objects |-> 0]
            ELSE LET a == m[at[1]]
                     b == n[at[2]]
                     next == <<IF EndOf(a) <= EndOf(b) THEN at[1] + 1 ELSE at[1],
                               IF EndOf(a) >= EndOf(b) THEN at[2] + 1 ELSE at[2]>>
                 IN  [from[next] EXCEPT ![<<a.object, b.object>>] = @ + Overlap(a, b)]
    IN  from[<<1, 1>>]

overlap(p, q) == Walk(map[p], map[q])

-----------------------------------------------------------------------------
(* Properties *)

PagesOf(s, object) == UNION {Pages(l) : l \in {l \in s : l.object = object}}

\* The regions follow each other without an overlap.
Disjoint(m) == \A i \in 1 .. Len(m) - 1 : EndOf(m[i]) <= m[i + 1].addr

\* Whatever the lines of a file and their order, no two regions start at one
\* address, they are sorted, and none could be merged with the next.  They cover
\* for each object the pages of the lines that were not taken for duplicates; a
\* line that was has only its first page covered for sure, by some object.
\* Unless two of the lines that were inserted share a page, no two regions do.
RegionsExact ==
    \A p \in Pids :
        /\ \A i \in 1 .. Len(map[p]) - 1 :
              map[p][i].addr < map[p][i + 1].addr /\ ~Mergeable(map[p][i], map[p][i + 1])
        /\ \A o \in Objects : PagesOf(ToSet(map[p]), o) = PagesOf(lines[p], o)
        /\ \A l \in dropped[p] : \E o \in Objects : l.addr \in PagesOf(lines[p], o)
        /\ ~mixed[p] => Disjoint(map[p])

\* What two processes share of two objects, of the lines that were inserted.
SharedPages(p, q, o, r) == PagesOf(lines[p], o) \cap PagesOf(lines[q], r)

\* The overlaps that the walk adds up for a pair of objects are the same seen
\* from either process, and none is reported where no page is shared.  If the
\* regions of neither process overlap, they are the pages shared, each counted
\* once; with regions that overlap the walk may miss a page or count it twice.
OverlapExact ==
    \A p, q \in Pids : p # q =>
        LET here == overlap(p, q)
            there == overlap(q, p)
        IN  \A o, r \in Objects :
                /\ here[<<o, r>>] = there[<<r, o>>]
                /\ here[<<o, r>>] > 0 => SharedPages(p, q, o, r) # {}
                /\ Disjoint(map[p]) /\ Disjoint(map[q]) =>
                      here[<<o, r>>] = Cardinality(SharedPages(p, q, o, r))

=============================================================================
