-------------------------------- MODULE Asinfo --------------------------------
(****************************************************************************)
(* The typed memory of QNX (libosqnx, asinfo.cpp): the entries of the       *)
(* system page sorted by their start, the binary search for the name of the *)
(* memory at an address, and the amount of system memory.                   *)
(****************************************************************************)
EXTENDS Naturals, Sequences, SequencesExt

\* An entry of the system page: the addresses from start to end, the latter
\* included; one whose end is before its start is empty.
Entries(addresses, names) == [start : addresses, end : addresses, name : names, kids : BOOLEAN]

entry_size(e) == IF e.end < e.start THEN 0 ELSE e.end - e.start + 1
\* Mutant of in_range: the last address does not belong to the entry.
in_range_short(e, a) == a >= e.start /\ a < e.end

in_range(e, a) == e.start <= e.end /\ a >= e.start /\ a <= e.end

\* get_asinfo(): the entries without children, each inserted at the upper
\* bound of its start.
UpperBound(map, e) == Cardinality({i \in DOMAIN map : map[i].start <= e.start}) + 1
Inserted(map, e) == IF e.kids THEN map ELSE InsertAt(map, UpperBound(map, e), e)
get_asinfo(page) == FoldLeft(Inserted, <<>>, page)

\* One turn of the loop of get_tymem_name(), with indexes counted from 0, until
\* there is a name.  "undefined" is the outcome of upper = mid - 1 for mid = 0:
\* the index wraps and the next entry is read far outside of the vector.
Searched(map, a, s) ==
    LET mid == (s.lower + s.upper) \div 2
        at(i) == map[i + 1]
        reaches(i) == a <= at(i).start + entry_size(at(i))
    IN  IF s.name # {} THEN s
        ELSE IF in_range(at(mid), a) THEN [s EXCEPT !.name = {at(mid).name}]
        ELSE IF a >= at(s.lower).start /\ reaches(mid)
             THEN IF mid = 0 THEN [s EXCEPT !.name = {"undefined"}] ELSE [s EXCEPT !.upper = mid - 1]
        ELSE IF a > at(mid).start /\ reaches(s.upper) THEN [s EXCEPT !.lower = mid + 1]
        ELSE [s EXCEPT !.name = {"none"}]

\* The loop has a name after one turn more than there are entries.
get_tymem_name(map, a) ==
    LET first == [lower |-> 0, upper |-> Len(map) - 1, name |-> {}]
        last == FoldLeft(LAMBDA s, turn : Searched(map, a, s), first, [turn \in 1 .. Len(map) + 1 |-> turn])
    IN  IF map = <<>> THEN "none"
        ELSE IF last.name = {} THEN "endless" ELSE CHOOSE name \in last.name : TRUE

get_sysram(map) ==
    FoldLeft(LAMBDA sum, e : IF e.name = "sysram" THEN sum + entry_size(e) ELSE sum, 0, map)

-----------------------------------------------------------------------------
(* What they promise, for a page whose entries do not overlap, an empty one
   counted at its start *)

Disjoint(page) ==
    \A i, j \in DOMAIN page : i # j /\ ~page[i].kids /\ ~page[j].kids =>
        ~\E a \in {page[i].start} \cup (page[i].start .. page[i].end) : in_range(page[j], a)

\* "The name of the typed memory, or nothing if not present."
Named(page, a) ==
    LET around == {i \in DOMAIN page : ~page[i].kids /\ in_range(page[i], a)}
    IN  IF around = {} THEN "none" ELSE page[CHOOSE i \in around : TRUE].name

\* The address right after an entry is the one the search gets wrong.
BehindEntry(page, a) == \E i \in DOMAIN page : ~page[i].kids /\ a = page[i].start + entry_size(page[i])

\* The addresses that the entries speak of.
Covered(page) == UNION {page[i].start .. page[i].end : i \in DOMAIN page}

\* The entries are sorted, none is lost, and a name is found for exactly the
\* addresses that have one, except that an address right behind an entry may
\* be taken for one without a name, or read outside of the entries.
TymemRight(page, a) ==
    LET map == get_asinfo(page)
        found == get_tymem_name(map, a)
    IN  /\ \A i \in 1 .. Len(map) - 1 : map[i].start <= map[i + 1].start
        /\ Disjoint(page) =>
              /\ get_sysram(map) = Cardinality({x \in Covered(page) : Named(page, x) = "sysram"})
              /\ found \in {Named(page, a)} \cup
                           IF BehindEntry(page, a) THEN {"none", "undefined"} ELSE {}

=============================================================================
