---------------------------- MODULE ExpectedProofs ----------------------------
(****************************************************************************)
(* For any number of objects and contents and every mix of constructors     *)
(* that throw: the flag of a living expected object says what lives in its  *)
(* storage, every object is destroyed once, a call that throws changes      *)
(* nothing and a call that returns has handed over what it was given.       *)
(****************************************************************************)
EXTENDS Expected, TLAPS

\* A storage whose flag, if it is alive, tells what it holds.
Well(s) ==
    /\ s \in Storage
    /\ s.kind = IF s.alive THEN KindOf(s.has) ELSE "none"

TypeInv == traits \in Traits /\ obj \in [Objects -> Storage]
Inv == TypeInv /\ Tracked

-----------------------------------------------------------------------------
(* What the helpers do to one storage *)

\* The invariant, object by object.
LEMMA InvByObject == TypeInv => (Tracked <=> \A o \in Objects : Well(obj[o]))
BY DEF TypeInv, Tracked, Well, Living

\* Neither the end of a call nor the loss of its content changes what lives in
\* a storage.
LEMMA QuietWell ==
    ASSUME NEW s, Well(s)
    PROVE  /\ Well(Quiet(s)) /\ Quiet(s).alive = s.alive /\ Quiet(s).has = s.has
           /\ Quiet(s).kind = s.kind /\ Quiet(s).data = s.data
BY DEF Well, Quiet, Storage, Slips

LEMMA SourceWell ==
    ASSUME NEW s, Well(s), NEW way
    PROVE  Well(Source(s, way))
BY DEF Well, Source, Storage, Data

LEMMA RawWell == Well(Raw)
BY DEF Well, Raw, Storage, Data

\* A constructor of either alternative leaves it in the storage.
LEMMA BuiltWell ==
    ASSUME NEW s \in Storage, NEW has \in BOOLEAN, NEW d \in Data
    PROVE  Well([Construct(s, has, d) EXCEPT !.alive = TRUE])
BY DEF Well, Construct, Put, KindOf, Storage, Data, Slips

\* A destructor leaves nothing.
LEMMA ReleaseWell ==
    ASSUME NEW s \in Storage
    PROVE  Well(Release(s))
BY DEF Well, Release, Drop, KindOf, Storage, Data, Slips

\* The two of a constructor whose body fills the storage.
LEMMA BodyWell ==
    ASSUME NEW s \in Storage, NEW has \in BOOLEAN, NEW d \in Data, NEW way,
           NEW r \in BodyOutcomes(s, has, d, way)
    PROVE  Well(r.s)
<1>1. Quiet(s) \in Storage
  BY DEF Quiet, Storage, Slips
<1>2. r \in {Done([Construct(s, has, d) EXCEPT !.alive = TRUE]), Thrown(Release(Quiet(s)))}
  BY DEF BodyOutcomes, ThrownIf
<1> QED BY <1>1, <1>2, BuiltWell, ReleaseWell DEF Done, Thrown

LEMMA ConvertWell ==
    ASSUME NEW has \in BOOLEAN, NEW d \in Data, NEW r \in ConvertOutcomes(has, d)
    PROVE  Well(r.s)
<1> DEFINE base == Construct(Raw, TRUE, Moved)
           torn == [Drop(base, "val") EXCEPT !.slips = {"leak"}]
<1>1. base \in Storage
  BY DEF Construct, Put, KindOf, Raw, Storage, Data, Slips
<1>2. torn \in Storage
  BY <1>1 DEF Drop, Storage, Data, Slips
<1>3. r \in {Done([Construct(base, has, d) EXCEPT !.alive = TRUE]), Thrown(Raw), Thrown(Release(torn))}
  BY DEF ConvertOutcomes, ThrownIf
<1> HIDE DEF base, torn
<1> QED BY <1>1, <1>2, <1>3, BuiltWell, RawWell, ReleaseWell DEF Done, Thrown

-----------------------------------------------------------------------------
(* Assignments *)

\* A living storage that a call leaves alive.
Lives(s) == Well(s) /\ s.alive

\* reinit_expected() and the flag set behind it, for the alternative that the
\* storage does not hold: whichever of the two lives at the end, the flag
\* says so.
LEMMA ReinitWell ==
    ASSUME NEW s, Lives(s), ~Void, NEW has \in BOOLEAN, s.has = ~has, NEW d \in Data, NEW way,
           NEW r \in Flagged(Reinit(s, KindOf(has), KindOf(~has), d, way), has)
    PROVE  Lives(r.s)
<1> DEFINE put == Put(Drop(s, KindOf(~has)), KindOf(has), d)
           back == Put(Drop(s, KindOf(~has)), KindOf(~has), s.data)
<1>1. /\ put \in Storage /\ put.alive /\ put.kind = KindOf(has)
      /\ back \in Storage /\ back.alive /\ back.kind = KindOf(~has) /\ back.has = ~has
  BY DEF Lives, Well, Put, Drop, KindOf, Storage, Data, Slips
<1>2. Lives([put EXCEPT !.has = has]) /\ Lives(back)
  <2> HIDE DEF put, back
  <2> QED BY <1>1 DEF Lives, Well, Storage
<1>3. PICK q \in {Done(put), Thrown(s), Thrown(back)} :
           r = IF q.threw THEN q ELSE [q EXCEPT !.s.has = has]
  BY DEF Flagged, Reinit
<1> HIDE DEF put, back
<1> QED BY <1>2, <1>3 DEF Done, Thrown

\* The assignment operator of the content does not change what it is.
LEMMA ContentWell ==
    ASSUME NEW s, Lives(s), NEW d \in Data, NEW way, NEW r \in AssignContent(s, d, way)
    PROVE  Lives(r.s)
<1>1. PICK x \in Data : r \in {Done([s EXCEPT !.data = x]), Thrown([s EXCEPT !.data = x])}
  BY DEF AssignContent, Lives, Well, Storage, Data
<1>2. Lives([s EXCEPT !.data = x])
  BY DEF Lives, Well, Storage, Data
<1> QED BY <1>1, <1>2 DEF Done, Thrown

LEMMA AssignValueWell ==
    ASSUME NEW s, Lives(s), ~Void, NEW d \in Data, NEW way, NEW r \in AssignValue(s, d, way)
    PROVE  Lives(r.s)
<1>1. s.has \in BOOLEAN
  BY DEF Lives, Well, Storage
<1>2. CASE s.has
  BY <1>2, ContentWell DEF AssignValue
<1>3. CASE ~s.has
  <2>1. KindOf(TRUE) = "val" /\ KindOf(~TRUE) = "err"
    BY DEF KindOf
  <2>2. s.has = ~TRUE
    BY <1>1, <1>3
  <2>3. r \in Flagged(Reinit(s, KindOf(TRUE), KindOf(~TRUE), d, way), TRUE)
    BY <1>3, <2>1 DEF AssignValue
  <2> QED BY <2>2, <2>3, ReinitWell
<1> QED BY <1>2, <1>3

LEMMA AssignUnexpectedWell ==
    ASSUME NEW s, Lives(s), ~Void, NEW d \in Data, NEW way, NEW r \in AssignUnexpected(s, d, way)
    PROVE  Lives(r.s)
<1>1. s.has \in BOOLEAN
  BY DEF Lives, Well, Storage
<1>2. CASE ~s.has
  BY <1>2, ContentWell DEF AssignUnexpected
<1>3. CASE s.has
  <2>1. KindOf(~FALSE) = "val" /\ KindOf(FALSE) = "err"
    BY DEF KindOf
  <2>2. s.has = ~FALSE
    BY <1>1, <1>3
  <2>3. r \in Flagged(Reinit(s, KindOf(FALSE), KindOf(~FALSE), d, way), FALSE)
    BY <1>3, <2>1 DEF AssignUnexpected
  <2> QED BY <2>2, <2>3, ReinitWell
<1> QED BY <1>2, <1>3

LEMMA AssignUnexpectedVoidWell ==
    ASSUME NEW s, Lives(s), NEW d \in Data, NEW way, NEW r \in AssignUnexpectedVoid(s, d, way)
    PROVE  Lives(r.s)
<1>1. CASE ~s.has
  BY <1>1, ContentWell DEF AssignUnexpectedVoid
<1>2. CASE s.has
  <2> DEFINE built == Construct(s, FALSE, d)
  <2>1. r \in {Done(built), Thrown(s)}
    BY <1>2 DEF AssignUnexpectedVoid, ThrownIf
  <2>2. Lives(built)
    BY DEF Construct, Put, KindOf, Lives, Well, Storage, Data, Slips
  <2> HIDE DEF built
  <2> QED BY <2>1, <2>2 DEF Done, Thrown
<1> QED BY <1>1, <1>2

LEMMA EmplaceVoidWell ==
    ASSUME NEW s, Lives(s), Void
    PROVE  Lives(EmplaceVoid(s))
BY DEF EmplaceVoid, Drop, KindOf, Lives, Well, Storage, Data, Slips

LEMMA AssignmentWell ==
    ASSUME NEW s, Lives(s), NEW q, Lives(q), NEW way \in Ways,
           NEW r \in IF way = "copy" THEN CopyAssign(s, q) ELSE MoveAssign(s, q)
    PROVE  Lives(r.s)
<1>1. q.has \in BOOLEAN /\ q.data \in Data
  BY DEF Lives, Well, Storage
<1>2. PICK w : r \in CASE Void /\ q.has -> {Done(EmplaceVoid(s))}
                      [] Void /\ ~q.has -> AssignUnexpectedVoid(s, q.data, w)
                      [] ~Void /\ q.has -> AssignValue(s, q.data, w)
                      [] OTHER -> AssignUnexpected(s, q.data, w)
  BY Zenon DEF CopyAssign, MoveAssign
<1>3. CASE Void /\ q.has
  BY <1>2, <1>3, EmplaceVoidWell DEF Done
<1>4. CASE Void /\ ~q.has
  BY <1>1, <1>2, <1>4, AssignUnexpectedVoidWell
<1>5. CASE ~Void /\ q.has
  BY <1>1, <1>2, <1>5, AssignValueWell
<1>6. CASE ~Void /\ ~q.has
  BY <1>1, <1>2, <1>6, AssignUnexpectedWell
<1> QED BY <1>1, <1>3, <1>4, <1>5, <1>6

-----------------------------------------------------------------------------
(* swap() *)

\* Both storages live, whatever is thrown.
LEMMA SwapContentsWell ==
    ASSUME NEW a, Lives(a), NEW b, Lives(b), NEW r \in SwapContents(a, b)
    PROVE  Lives(r.a) /\ Lives(r.b)
<1>1. a.data \in Data /\ b.data \in Data /\ Moved \in Data
  BY DEF Lives, Well, Storage, Data
<1>2. PICK x \in Data, y \in Data :
           r \in {Pair([a EXCEPT !.data = x], [b EXCEPT !.data = y]),
                  PairThrown([a EXCEPT !.data = x], [b EXCEPT !.data = y]),
                  PairThrown(a, b), PairThrown([a EXCEPT !.data = x], b)}
  BY <1>1 DEF SwapContents
<1>3. Lives([a EXCEPT !.data = x]) /\ Lives([b EXCEPT !.data = y])
  BY DEF Lives, Well, Storage, Data
<1> QED BY <1>2, <1>3 DEF Pair, PairThrown

LEMMA SwapAcrossWell ==
    ASSUME NEW a, Lives(a), a.has, NEW b, Lives(b), ~b.has, ~Void, NEW r \in SwapAcross(a, b)
    PROVE  Lives(r.a) /\ Lives(r.b)
<1> DEFINE sa == [Put(Drop(a, "val"), "err", b.data) EXCEPT !.has = FALSE]
           sb == [Put(Drop(b, "err"), "val", a.data) EXCEPT !.has = TRUE]
           ta == Put(Drop(a, "val"), "val", a.data)
           tb == Put(Drop(b, "err"), "err", b.data)
<1>1. Lives(sa) /\ Lives(sb)
  BY DEF Put, Drop, KindOf, Lives, Well, Storage, Data, Slips
<1>2. Lives(ta) /\ Lives(tb)
  BY DEF Put, Drop, KindOf, Lives, Well, Storage, Data, Slips
<1>3. r \in {Pair(sa, sb), PairThrown(a, tb), PairThrown(ta, b)}
  BY DEF SwapAcross
<1> HIDE DEF sa, sb, ta, tb
<1> QED BY <1>1, <1>2, <1>3 DEF Pair, PairThrown

LEMMA SwapAcrossVoidWell ==
    ASSUME NEW a, Lives(a), a.has, NEW b, Lives(b), ~b.has, Void, NEW r \in SwapAcrossVoid(a, b)
    PROVE  Lives(r.a) /\ Lives(r.b)
<1> DEFINE sa == Construct(a, FALSE, b.data)
           sb == [Drop(b, "err") EXCEPT !.has = TRUE]
<1>1. Lives(sa) /\ Lives(sb)
  BY DEF Construct, Put, Drop, KindOf, Lives, Well, Storage, Data, Slips
<1>2. r \in {Pair(sa, sb), PairThrown(a, b)}
  BY DEF SwapAcrossVoid
<1> HIDE DEF sa, sb
<1> QED BY <1>1, <1>2 DEF Pair, PairThrown

LEMMA SwapWell ==
    ASSUME NEW a, Lives(a), NEW b, Lives(b),
           NEW r \in IF Void THEN SwapVoid(a, b) ELSE SwapValues(a, b)
    PROVE  Lives(r.a) /\ Lives(r.b)
<1>1. a.has \in BOOLEAN /\ b.has \in BOOLEAN
  BY DEF Lives, Well, Storage
<1>2. CASE a.has = b.has
  <2>1. r = Pair(a, b) \/ r \in SwapContents(a, b)
    BY <1>1, <1>2 DEF SwapVoid, SwapValues
  <2> QED BY <2>1, SwapContentsWell DEF Pair
<1>3. CASE a.has /\ ~b.has
  <2>1. r \in IF Void THEN SwapAcrossVoid(a, b) ELSE SwapAcross(a, b)
    BY <1>3 DEF SwapVoid, SwapValues
  <2> QED BY <1>3, <2>1, SwapAcrossWell, SwapAcrossVoidWell
<1>4. CASE ~a.has /\ b.has
  <2>1. PICK q \in IF Void THEN SwapAcrossVoid(b, a) ELSE SwapAcross(b, a) :
             r = [q EXCEPT !.a = q.b, !.b = q.a]
    BY <1>4 DEF SwapVoid, SwapValues
  <2>2. Lives(q.a) /\ Lives(q.b)
    BY <1>4, SwapAcrossWell, SwapAcrossVoidWell
  <2>3. \E x, y, t : q = [a |-> x, b |-> y, threw |-> t]
    BY DEF SwapAcrossVoid, SwapAcross, Pair, PairThrown
  <2> QED BY <2>1, <2>2, <2>3
<1> QED BY <1>1, <1>2, <1>3, <1>4

-----------------------------------------------------------------------------
(* One step *)

\* A call that leaves each storage it changes well ends in the invariant.
LEMMA ReturnKeeps ==
    ASSUME Inv, NEW op, NEW this, NEW rhs, NEW threw, NEW result, NEW new,
           Return(op, this, rhs, threw, result, new), \A x \in DOMAIN new : Well(new[x])
    PROVE  Inv'
<1>1. \A o \in Objects : Well(obj[o])
  BY InvByObject DEF Inv
<1>2. \A s : Well(s)' <=> Well(s)
  BY DEF Return, Well, KindOf, Void, Storage, Data
<1>3. \A o \in Objects : Well(obj'[o])
  BY <1>1, QuietWell DEF Return
<1>4. TypeInv'
  BY <1>3 DEF Inv, TypeInv, Return, Well
<1>5. Tracked'
  BY <1>3 DEF Return, Tracked, Well, Living, KindOf, Void
<1> QED BY <1>4, <1>5 DEF Inv

\* What the invariant says of the storages a call finds.
LEMMA InvFacts ==
    ASSUME Inv
    PROVE  /\ \A o \in Objects : Well(obj[o]) /\ obj[o].has \in BOOLEAN /\ obj[o].data \in Data
           /\ \A o \in Objects : Living(o) => Lives(Quiet(obj[o])) /\ Lives(obj[o])
           /\ \A o \in Objects : Well(Quiet(obj[o])) /\ \A way : Well(Source(Quiet(obj[o]), way))
           /\ Raw \in Storage /\ Contents \subseteq Data /\ Moved \in Data
<1>1. \A o \in Objects : Well(obj[o])
  BY InvByObject DEF Inv
<1>2. \A o \in Objects : obj[o].has \in BOOLEAN /\ obj[o].data \in Data
  BY <1>1 DEF Well, Storage
<1>3. \A o \in Objects : Living(o) => Lives(Quiet(obj[o])) /\ Lives(obj[o])
  BY <1>1, QuietWell DEF Lives, Living
<1>4. \A o \in Objects : Well(Quiet(obj[o])) /\ \A way : Well(Source(Quiet(obj[o]), way))
  BY <1>1, QuietWell, SourceWell
<1>5. Raw \in Storage /\ Contents \subseteq Data /\ Moved \in Data
  BY RawWell DEF Well, Data
<1> QED BY <1>1, <1>2, <1>3, <1>4, <1>5

\* Constructors and the destructor.
LEMMA ConstructorsKeep ==
    ASSUME Inv, NEW o \in Objects, NEW p \in Objects, NEW has \in BOOLEAN, NEW d \in Data,
           \/ Build(o, has, d) \/ BuildVoid(o, has, d) \/ Convert(o, has, d) \/ ConvertVoid(o, has, d)
           \/ CopyConstruct(o, p) \/ MoveConstruct(o, p) \/ Destroy(o)
    PROVE  Inv'
<1> USE InvFacts
<1>1. CASE Build(o, has, d) \/ BuildVoid(o, has, d)
  <2> DEFINE built == [Construct(Raw, has, d) EXCEPT !.alive = TRUE]
  <2>1. Well(built)
    BY BuiltWell
  <2>2. PICK threw \in BOOLEAN, s \in {built, Raw} : Return("build", o, o, threw, Moved, [x \in {o} |-> s])
    BY <1>1 DEF Build, BuildVoid, BuildAs
  <2> HIDE DEF built
  <2>3. \A k \in DOMAIN [x \in {o} |-> s] : Well([x \in {o} |-> s][k])
    BY <2>1, RawWell
  <2> QED BY <2>2, <2>3, ReturnKeeps
<1>2. CASE Convert(o, has, d)
  <2>1. PICK r \in ConvertOutcomes(has, d) : Return("convert", o, o, r.threw, Moved, [x \in {o} |-> r.s])
    BY <1>2 DEF Convert
  <2>2. Well(r.s)
    BY ConvertWell
  <2>3. \A k \in DOMAIN [x \in {o} |-> r.s] : Well([x \in {o} |-> r.s][k])
    BY <2>2
  <2> QED BY <2>1, <2>3, ReturnKeeps
<1>3. CASE ConvertVoid(o, has, d)
  <2> DEFINE base == Construct(Raw, TRUE, Moved)
  <2>1. base \in Storage
    BY DEF Construct, Put, KindOf, Raw, Storage, Data, Slips
  <2>2. PICK r \in BodyOutcomes(base, has, d, "copy") :
             Return("convert", o, o, r.threw, Moved, [x \in {o} |-> r.s])
    BY <1>3 DEF ConvertVoid
  <2> HIDE DEF base
  <2>3. Well(r.s)
    BY <2>1, BodyWell
  <2>4. \A k \in DOMAIN [x \in {o} |-> r.s] : Well([x \in {o} |-> r.s][k])
    BY <2>3
  <2> QED BY <2>2, <2>4, ReturnKeeps
<1>4. CASE CopyConstruct(o, p)
  <2>1. PICK r \in BodyOutcomes(Raw, obj[p].has, obj[p].data, "copy") :
             Return("construct", o, p, r.threw, Moved, [x \in {o} |-> r.s])
    BY <1>4 DEF CopyConstruct
  <2>2. Well(r.s)
    BY BodyWell
  <2>3. \A k \in DOMAIN [x \in {o} |-> r.s] : Well([x \in {o} |-> r.s][k])
    BY <2>2
  <2> QED BY <2>1, <2>3, ReturnKeeps
<1>5. CASE MoveConstruct(o, p)
  <2> DEFINE rest(r) == IF r.threw THEN Quiet(obj[p]) ELSE Source(Quiet(obj[p]), "move")
  <2>1. PICK r \in BodyOutcomes(Raw, obj[p].has, obj[p].data, "move") :
             Return("construct", o, p, r.threw, Moved,
                    [x \in {o, p} |-> IF x = o THEN r.s ELSE rest(r)])
    BY <1>5 DEF MoveConstruct
  <2>2. Well(r.s) /\ Well(rest(r))
    BY BodyWell
  <2> HIDE DEF rest
  <2>3. \A k \in DOMAIN [x \in {o, p} |-> IF x = o THEN r.s ELSE rest(r)] :
           Well([x \in {o, p} |-> IF x = o THEN r.s ELSE rest(r)][k])
    BY <2>2
  <2> QED BY <2>1, <2>3, ReturnKeeps
<1>6. CASE Destroy(o)
  <2> DEFINE s == Release(Quiet(obj[o]))
  <2>1. Well(s)
    BY ReleaseWell DEF Well
  <2>2. Return("destroy", o, o, FALSE, Moved, [x \in {o} |-> s])
    BY <1>6 DEF Destroy
  <2> HIDE DEF s
  <2>3. \A k \in DOMAIN [x \in {o} |-> s] : Well([x \in {o} |-> s][k])
    BY <2>1
  <2> QED BY <2>2, <2>3, ReturnKeeps
<1> QED BY <1>1, <1>2, <1>3, <1>4, <1>5, <1>6

LEMMA AssignmentsKeep ==
    ASSUME Inv, NEW o \in Objects, NEW p \in Objects, NEW has \in BOOLEAN, NEW d \in Data,
           NEW way \in Ways, Assign(o, p, way) \/ AssignFrom(o, has, d, way) \/ Emplace(o, d) \/ Swap(o, p)
    PROVE  Inv'
<1> USE InvFacts
<1>1. CASE Assign(o, p, way)
  <2> DEFINE rest(r) == IF r.threw THEN Quiet(obj[p]) ELSE Source(Quiet(obj[p]), way)
  <2>1. PICK r \in IF way = "copy" THEN CopyAssign(Quiet(obj[o]), obj[p])
                                   ELSE MoveAssign(Quiet(obj[o]), obj[p]) :
             Return("assign", o, p, r.threw, Moved,
                    [x \in {o, p} |-> IF x = o THEN r.s ELSE rest(r)])
    BY <1>1 DEF Assign
  <2>2. Lives(Quiet(obj[o])) /\ Lives(obj[p])
    BY <1>1 DEF Assign
  <2>3. Well(r.s)
    BY <2>1, <2>2, AssignmentWell DEF Lives
  <2>4. Well(rest(r))
    OBVIOUS
  <2> HIDE DEF rest
  <2>5. \A k \in DOMAIN [x \in {o, p} |-> IF x = o THEN r.s ELSE rest(r)] :
           Well([x \in {o, p} |-> IF x = o THEN r.s ELSE rest(r)][k])
    BY <2>3, <2>4
  <2> QED BY <2>1, <2>5, ReturnKeeps
<1>2. CASE AssignFrom(o, has, d, way)
  <2>1. PICK r \in IF Void THEN AssignUnexpectedVoid(Quiet(obj[o]), d, way)
                   ELSE IF has THEN AssignValue(Quiet(obj[o]), d, way)
                   ELSE AssignUnexpected(Quiet(obj[o]), d, way) :
             Return(IF has THEN "assign_value" ELSE "assign_error", o, o, r.threw, Moved,
                    [x \in {o} |-> r.s])
    BY <1>2 DEF AssignFrom
  <2>2. Lives(Quiet(obj[o])) /\ d \in Data
    BY <1>2 DEF AssignFrom
  <2>3. Well(r.s)
    BY <2>1, <2>2, AssignUnexpectedVoidWell, AssignValueWell, AssignUnexpectedWell DEF Lives
  <2>4. \A k \in DOMAIN [x \in {o} |-> r.s] : Well([x \in {o} |-> r.s][k])
    BY <2>3
  <2> QED BY <2>1, <2>4, ReturnKeeps
<1>3. CASE Emplace(o, d)
  <2> DEFINE q == Quiet(obj[o])
             s == IF Void THEN EmplaceVoid(q) ELSE Construct(Drop(q, KindOf(q.has)), TRUE, d)
  <2>1. Return("emplace", o, o, FALSE, Moved, [x \in {o} |-> s])
    BY <1>3 DEF Emplace
  <2>2. Lives(q) /\ d \in Data
    BY <1>3 DEF Emplace
  <2> HIDE DEF q
  <2>3. Well(Construct(Drop(q, KindOf(q.has)), TRUE, d))
    <3> DEFINE empty == Drop(q, KindOf(q.has))
    <3>1. empty \in Storage /\ empty.alive
      BY <2>2 DEF Drop, Lives, Well, Storage, Data, Slips
    <3> HIDE DEF empty
    <3>2. [Construct(empty, TRUE, d) EXCEPT !.alive = TRUE] = Construct(empty, TRUE, d)
      BY <3>1 DEF Construct, Put, Storage
    <3> QED BY <2>2, <3>1, <3>2, BuiltWell DEF empty
  <2>4. Well(s)
    BY <2>2, <2>3, EmplaceVoidWell DEF Lives
  <2> HIDE DEF s
  <2>5. \A k \in DOMAIN [x \in {o} |-> s] : Well([x \in {o} |-> s][k])
    BY <2>4
  <2> QED BY <2>1, <2>5, ReturnKeeps
<1>4. CASE Swap(o, p)
  <2>1. PICK r \in IF Void THEN SwapVoid(Quiet(obj[o]), Quiet(obj[p]))
                           ELSE SwapValues(Quiet(obj[o]), Quiet(obj[p])) :
             Return("swap", o, p, r.threw, Moved, [x \in {o, p} |-> IF x = o THEN r.a ELSE r.b])
    BY <1>4 DEF Swap
  <2>2. Lives(Quiet(obj[o])) /\ Lives(Quiet(obj[p]))
    BY <1>4 DEF Swap
  <2>3. Well(r.a) /\ Well(r.b)
    BY <2>1, <2>2, SwapWell DEF Lives
  <2>4. \A k \in DOMAIN [x \in {o, p} |-> IF x = o THEN r.a ELSE r.b] :
           Well([x \in {o, p} |-> IF x = o THEN r.a ELSE r.b][k])
    BY <2>3
  <2> QED BY <2>1, <2>4, ReturnKeeps
<1> QED BY <1>1, <1>2, <1>3, <1>4

\* The observers change at most the content of their object.
LEMMA HandOutKeeps ==
    ASSUME Inv, NEW op, NEW o \in Objects, NEW d, NEW way,
           HandOut(op, o, way) \/ Instead(op, o, d)
    PROVE  Inv'
<1> USE InvFacts
<1> DEFINE moved == Source(Quiet(obj[o]), way)
           kept == Quiet(obj[o])
<1>1. PICK threw, result, s :
           (s = moved \/ s = kept) /\ Return(op, o, o, threw, result, [x \in {o} |-> s])
  BY DEF HandOut, Instead
<1>2. Well(moved) /\ Well(kept)
  OBVIOUS
<1> HIDE DEF moved, kept
<1>3. \A k \in DOMAIN [x \in {o} |-> s] : Well([x \in {o} |-> s][k])
  BY <1>1, <1>2
<1> QED BY <1>1, <1>3, ReturnKeeps

LEMMA ValueKeeps ==
    ASSUME Inv, NEW o \in Objects, NEW way, Value(o, way) \/ ValueVoid(o, way)
    PROVE  Inv'
<1> USE InvFacts
<1> DEFINE moved == Source(Quiet(obj[o]), way)
           kept == Quiet(obj[o])
<1>1. PICK threw, result, s :
           (s = moved \/ s = kept) /\ Return("value", o, o, threw, result, [x \in {o} |-> s])
  BY DEF Value, ValueVoid, ValueThrows
<1>2. Well(moved) /\ Well(kept)
  OBVIOUS
<1> HIDE DEF moved, kept
<1>3. \A k \in DOMAIN [x \in {o} |-> s] : Well([x \in {o} |-> s][k])
  BY <1>1, <1>2
<1> QED BY <1>1, <1>3, ReturnKeeps

LEMMA ObserversKeep ==
    ASSUME Inv, NEW o \in Objects, NEW d \in Contents, NEW way \in Ways,
           \/ Value(o, way) \/ ValueVoid(o, way)
           \/ ValueOr(o, d, way) \/ ErrorOr(o, d, way) \/ ErrorOrVoid(o, d, way)
    PROVE  Inv'
<1>1. CASE Value(o, way) \/ ValueVoid(o, way)
  BY <1>1, ValueKeeps
<1>2. CASE ValueOr(o, d, way)
  BY <1>2, HandOutKeeps DEF ValueOr
<1>3. CASE ErrorOr(o, d, way) \/ ErrorOrVoid(o, d, way)
  BY <1>3, HandOutKeeps DEF ErrorOr, ErrorOrVoid
<1> QED BY <1>1, <1>2, <1>3

\* The two ends of a monadic operation: the alternative is passed on, or the
\* function is called.
LEMMA ChainKeeps ==
    ASSUME Inv, NEW op, NEW o \in Objects, NEW p \in Objects, NEW way, NEW d \in Contents,
           NEW alternatives \in SUBSET BOOLEAN,
           PassOn(op, o, p, way) \/ Invoke(op, o, p, way, alternatives, d)
    PROVE  Inv'
<1> USE InvFacts
<1> DEFINE built(has, c) == [Construct(Raw, has, c) EXCEPT !.alive = TRUE]
           moved == Source(Quiet(obj[p]), way)
           kept == Quiet(obj[p])
<1>1. PICK threw \in BOOLEAN, result \in {Moved}, has \in BOOLEAN, c \in Data, s \in {moved, kept} :
           \/ Return(op, o, p, threw, result, [x \in {o, p} |-> IF x = o THEN built(has, c) ELSE s])
           \/ Return(op, o, p, threw, result, [x \in {p} |-> s])
  <2>1. CASE PassOn(op, o, p, way)
    <3>1. obj[p].has \in BOOLEAN /\ obj[p].data \in Data
      OBVIOUS
    <3> QED BY <2>1, <3>1 DEF PassOn
  <2>2. CASE Invoke(op, o, p, way, alternatives, d)
    <3>1. PICK s \in {kept, moved} :
            \/ \E has \in alternatives :
                  Return(op, o, p, FALSE, Moved, [x \in {o, p} |-> IF x = o THEN built(has, d) ELSE s])
            \/ Return(op, o, p, TRUE, Moved, [x \in {p} |-> s])
      BY <2>2 DEF Invoke
    <3>2. d \in Data /\ alternatives \subseteq BOOLEAN
      OBVIOUS
    <3> HIDE DEF built, moved, kept
    <3> QED BY <3>1, <3>2
  <2> QED BY <2>1, <2>2
<1>2. Well(s)
  BY <1>1
<1>3. Well(built(has, c))
  BY BuiltWell
<1> HIDE DEF built, moved, kept
<1>4. CASE Return(op, o, p, threw, result, [x \in {o, p} |-> IF x = o THEN built(has, c) ELSE s])
  <2>1. \A k \in DOMAIN [x \in {o, p} |-> IF x = o THEN built(has, c) ELSE s] :
           Well([x \in {o, p} |-> IF x = o THEN built(has, c) ELSE s][k])
    BY <1>2, <1>3
  <2> QED BY <1>4, <2>1, ReturnKeeps
<1>5. CASE Return(op, o, p, threw, result, [x \in {p} |-> s])
  <2>1. \A k \in DOMAIN [x \in {p} |-> s] : Well([x \in {p} |-> s][k])
    BY <1>2
  <2> QED BY <1>5, <2>1, ReturnKeeps
<1> QED BY <1>1, <1>4, <1>5

LEMMA MonadicKeep ==
    ASSUME Inv, NEW o \in Objects, NEW p \in Objects, NEW d \in Contents, NEW way \in Ways,
           \/ AndThen(o, p, way, d) \/ AndThenVoid(o, p, way, d)
           \/ OrElse(o, p, way, d) \/ OrElseVoid(o, p, way, d)
           \/ Transform(o, p, way, d) \/ TransformVoid(o, p, way, d)
           \/ TransformError(o, p, way, d) \/ TransformErrorVoid(o, p, way, d)
    PROVE  Inv'
<1>1. PICK op \in {"and_then", "or_else", "transform", "transform_error"},
           alternatives \in {BOOLEAN, {TRUE}, {FALSE}} :
           OnValue(op, o, p, way, alternatives, d) \/ OnError(op, o, p, way, alternatives, d)
  BY DEF AndThen, AndThenVoid, OrElse, OrElseVoid, Transform, TransformVoid,
         TransformError, TransformErrorVoid
<1>2. alternatives \in SUBSET BOOLEAN
  OBVIOUS
<1>3. PassOn(op, o, p, way) \/ Invoke(op, o, p, way, alternatives, d)
  BY <1>1 DEF OnValue, OnError
<1> QED BY <1>2, <1>3, ChainKeeps

-----------------------------------------------------------------------------
(* The specification *)

\* No object lives at the start.
LEMMA InitInv == Init => Inv
<1> SUFFICES ASSUME Init PROVE Inv
  OBVIOUS
<1>1. Well(Raw) /\ Raw.alive = FALSE /\ Raw.kind = "none"
  BY RawWell DEF Raw
<1> QED BY <1>1 DEF Init, Inv, TypeInv, Tracked, Living, Well

\* Every call keeps the invariant.
LEMMA NextInv == Inv /\ [Next]_vars => Inv'
<1> SUFFICES ASSUME Inv, [Next]_vars PROVE Inv'
  OBVIOUS
<1>1. ASSUME NEW o \in Objects, NEW has \in BOOLEAN, NEW d \in Contents,
             Build(o, has, d) \/ BuildVoid(o, has, d) \/ Convert(o, has, d) \/ ConvertVoid(o, has, d)
      PROVE  Inv'
  BY <1>1, ConstructorsKeep DEF Data
<1>2. ASSUME NEW o \in Objects, NEW p \in Objects,
             CopyConstruct(o, p) \/ MoveConstruct(o, p) \/ Swap(o, p) \/ \E way \in Ways : Assign(o, p, way)
      PROVE  Inv'
  <2>1. Moved \in Data /\ TRUE \in BOOLEAN /\ "copy" \in Ways
    BY DEF Data, Ways
  <2> QED BY <1>2, <2>1, ConstructorsKeep, AssignmentsKeep
<1>3. ASSUME NEW o \in Objects, NEW d \in Contents,
             Emplace(o, d) \/ \E has \in BOOLEAN, way \in Ways : AssignFrom(o, has, d, way)
      PROVE  Inv'
  <2>1. "copy" \in Ways /\ TRUE \in BOOLEAN /\ d \in Data
    BY DEF Ways, Data
  <2> QED BY <1>3, <2>1, AssignmentsKeep
<1>4. ASSUME NEW o \in Objects, Destroy(o)
      PROVE  Inv'
  <2>1. Moved \in Data /\ TRUE \in BOOLEAN
    BY DEF Data
  <2> QED BY <1>4, <2>1, ConstructorsKeep
<1>5. ASSUME NEW o \in Objects, NEW d \in Contents, NEW way \in Ways,
             \/ Value(o, way) \/ ValueVoid(o, way)
             \/ ValueOr(o, d, way) \/ ErrorOr(o, d, way) \/ ErrorOrVoid(o, d, way)
      PROVE  Inv'
  BY <1>5, ObserversKeep
<1>6. ASSUME NEW o \in Objects, NEW p \in Objects, NEW d \in Contents, NEW way \in Ways,
             \/ AndThen(o, p, way, d) \/ AndThenVoid(o, p, way, d)
             \/ OrElse(o, p, way, d) \/ OrElseVoid(o, p, way, d)
             \/ Transform(o, p, way, d) \/ TransformVoid(o, p, way, d)
             \/ TransformError(o, p, way, d) \/ TransformErrorVoid(o, p, way, d)
      PROVE  Inv'
  BY <1>6, MonadicKeep
<1>7. CASE UNCHANGED vars
  BY <1>7 DEF vars, Inv, TypeInv, Tracked, Traits, Storage, Living, KindOf, Void, Data
<1> QED BY <1>1, <1>2, <1>3, <1>4, <1>5, <1>6, <1>7 DEF Next

\* The flag of a living expected object tells what lives in its storage, and a
\* dead one leaves nothing there, after every sequence of constructors,
\* assignments, swaps and monadic calls of which any may throw.
THEOREM FlagTracked == Spec => []Tracked
<1>1. Inv => Tracked
  BY DEF Inv
<1> QED BY InitInv, NextInv, <1>1, PTL DEF Spec

-----------------------------------------------------------------------------
(* What the outcomes promise *)

\* The slips that LifetimesPaired allows a call to make in a storage.
Paired(op, threw, s) ==
    s.slips # {} => \/ op = "convert" /\ ~Void
                    \/ op = "construct" /\ threw /\ s.slips = {"phantom"}

\* A storage s was left by the operation op as it was: q.
Undone(op, this, rhs, s, q) ==
    /\ s.alive = q.alive
    /\ q.alive => \/ Same(s, q)
                  \/ /\ s.has = q.has
                     /\ \/ op \in {"assign", "swap"} /\ obj[this].has = obj[rhs].has
                        \/ op = "assign_value" /\ obj[this].has
                        \/ op = "assign_error" /\ ~obj[this].has

\* The operations of StrongGuarantee, and those of Transfers.
Guarded == {"build", "convert", "construct", "assign", "assign_value", "assign_error", "swap"}
Handing(op, rhs) ==
    \/ op \in {"construct", "assign", "swap"}
    \/ op \in {"and_then", "transform"} /\ ~obj[rhs].has
    \/ op \in {"or_else", "transform_error"} /\ obj[rhs].has

\* The three properties as they speak of one step.
StrongStep ==
    call'.threw /\ call'.op \in {"build", "convert", "construct", "assign",
                                 "assign_value", "assign_error", "swap"} =>
       \A o \in Objects :
          /\ obj'[o].alive = obj[o].alive
          /\ Living(o) => \/ Same(obj'[o], obj[o])
                          \/ SameAlternative /\ obj'[o].has = obj[o].has
TransferStep ==
    ~call'.threw =>
       /\ call'.op \in {"construct", "assign", "swap"} \/ Skips
             => Same(obj'[call'.this], obj[call'.rhs])
       /\ call'.op = "swap" => Same(obj'[call'.rhs], obj[call'.this])
Promises == LifetimesPaired' /\ StrongStep /\ TransferStep

\* A call that is right about the storages it changed is right about all.
LEMMA CallPromises ==
    ASSUME Inv, NEW op, NEW this \in Objects, NEW rhs \in Objects, NEW threw, NEW result, NEW new,
           Return(op, this, rhs, threw, result, new), DOMAIN new \subseteq Objects,
           \A x \in DOMAIN new : Paired(op, threw, new[x]),
           threw /\ op \in Guarded => \A x \in DOMAIN new : Undone(op, this, rhs, new[x], obj[x]),
           ~threw /\ Handing(op, rhs) => this \in DOMAIN new /\ Same(new[this], obj[rhs]),
           ~threw /\ op = "swap" => rhs \in DOMAIN new /\ Same(new[rhs], obj[this])
    PROVE  Promises
<1>1. /\ call'.op = op /\ call'.this = this /\ call'.rhs = rhs /\ call'.threw = threw
      /\ traits' = traits
      /\ obj' = [o \in Objects |-> IF o \in DOMAIN new THEN new[o] ELSE Quiet(obj[o])]
  BY DEF Return
<1>2. \A o \in Objects : Quiet(obj[o]).slips = {} /\ Same(Quiet(obj[o]), obj[o])
                         /\ Quiet(obj[o]).alive = obj[o].alive
  <2>1. \A o \in Objects : Well(obj[o]) /\ obj[o] \in Storage
    BY InvByObject DEF Inv, Well
  <2>2. \A o \in Objects : Quiet(obj[o]).slips = {}
    BY <2>1 DEF Quiet, Storage
  <2> QED BY <2>1, <2>2, QuietWell DEF Same, Equal, EqualVoid
<1>3. LifetimesPaired'
  <2> SUFFICES ASSUME NEW o \in Objects, obj'[o].slips # {}
               PROVE  \/ call'.op = "convert" /\ ~Void'
                      \/ call'.op = "construct" /\ call'.threw /\ obj'[o].slips = {"phantom"}
    BY DEF LifetimesPaired
  <2>1. o \in DOMAIN new /\ obj'[o] = new[o]
    BY <1>1, <1>2
  <2> QED BY <1>1, <2>1 DEF Paired, Void
<1>4. StrongStep
  <2> SUFFICES ASSUME threw, op \in Guarded, NEW o \in Objects
               PROVE  /\ obj'[o].alive = obj[o].alive
                      /\ Living(o) => \/ Same(obj'[o], obj[o])
                                      \/ SameAlternative /\ obj'[o].has = obj[o].has
    BY <1>1 DEF StrongStep, Guarded
  <2>1. CASE o \in DOMAIN new
    BY <1>1, <2>1 DEF Undone, Living, SameAlternative
  <2>2. CASE o \notin DOMAIN new
    BY <1>1, <1>2, <2>2 DEF Living
  <2> QED BY <2>1, <2>2
<1>5. TransferStep
  <2> SUFFICES ASSUME ~threw
               PROVE  /\ op \in {"construct", "assign", "swap"} \/ Skips => Same(obj'[this], obj[rhs])
                      /\ op = "swap" => Same(obj'[rhs], obj[this])
    BY <1>1 DEF TransferStep
  <2>1. op \in {"construct", "assign", "swap"} \/ Skips <=> Handing(op, rhs)
    BY <1>1 DEF Skips, Handing
  <2> QED BY <1>1, <2>1
<1> QED BY <1>3, <1>4, <1>5 DEF Promises

\* What a call leaves alone, as a source or by an exception.
LEMMA RestFacts ==
    ASSUME NEW s, Well(s)
    PROVE  /\ Quiet(s).slips = {} /\ Same(Quiet(s), s) /\ Quiet(s).alive = s.alive
           /\ \A way : Source(Quiet(s), way).slips = {}
<1>1. s \in Storage /\ Quiet(s) \in Storage
  BY QuietWell DEF Well
<1>2. Quiet(s).slips = {}
  BY <1>1 DEF Quiet, Storage
<1>3. \A way : Source(Quiet(s), way).slips = {}
  BY <1>1, <1>2 DEF Source, Storage
<1> QED BY <1>2, <1>3, QuietWell DEF Same, Equal, EqualVoid

-----------------------------------------------------------------------------
(* The outcomes of the assignments and of swap() *)

\* The outcome r of giving the storage s the alternative has and the content d:
\* it did, or the storage is as it was, save for a content that was assigned.
Gives(r, s, has, d) ==
    /\ r.s.slips = {} /\ r.s.alive = s.alive
    /\ r.threw => r.s.has = s.has /\ (s.has # has => r.s.data = s.data)
    /\ ~r.threw => r.s.has = has /\ ((Void /\ has) \/ r.s.data = d)

\* reinit_expected() with the flag behind it.
LEMMA ReinitGives ==
    ASSUME NEW s, Lives(s), s.slips = {}, ~Void, NEW has \in BOOLEAN, s.has = ~has, NEW d \in Data, NEW way,
           NEW r \in Flagged(Reinit(s, KindOf(has), KindOf(~has), d, way), has)
    PROVE  Gives(r, s, has, d)
<1> DEFINE put == Put(Drop(s, KindOf(~has)), KindOf(has), d)
           back == Put(Drop(s, KindOf(~has)), KindOf(~has), s.data)
<1>1. /\ put \in Storage /\ put.slips = {} /\ put.alive = s.alive /\ put.data = d
      /\ back \in Storage /\ back.slips = {} /\ back.alive = s.alive
      /\ back.has = s.has /\ back.data = s.data
  BY DEF Lives, Well, Put, Drop, KindOf, Storage, Data, Slips
<1>2. PICK q \in {Done(put), Thrown(s), Thrown(back)} :
           r = IF q.threw THEN q ELSE [q EXCEPT !.s.has = has]
  BY DEF Flagged, Reinit
<1> HIDE DEF put, back
<1>3. CASE q = Done(put)
  <2>1. r = [s |-> [put EXCEPT !.has = has], threw |-> FALSE]
    BY <1>2, <1>3 DEF Done
  <2> QED BY <1>1, <2>1 DEF Gives, Storage
<1>4. CASE q = Thrown(s) \/ q = Thrown(back)
  BY <1>1, <1>2, <1>4 DEF Gives, Thrown
<1> QED BY <1>2, <1>3, <1>4

\* The assignment operator of the content.
LEMMA ContentGives ==
    ASSUME NEW s, Lives(s), s.slips = {}, NEW d \in Data, NEW way, NEW r \in AssignContent(s, d, way)
    PROVE  Gives(r, s, s.has, d)
<1>1. PICK x \in Data : \/ r = Done([s EXCEPT !.data = d])
                        \/ r = Thrown([s EXCEPT !.data = x])
  BY DEF AssignContent, Lives, Well, Storage, Data
<1>2. \A y \in Data : /\ [s EXCEPT !.data = y].slips = {} /\ [s EXCEPT !.data = y].alive = s.alive
                      /\ [s EXCEPT !.data = y].has = s.has /\ [s EXCEPT !.data = y].data = y
  BY DEF Lives, Well, Storage
<1>3. CASE r = Done([s EXCEPT !.data = d])
  BY <1>2, <1>3 DEF Gives, Done
<1>4. CASE r = Thrown([s EXCEPT !.data = x])
  BY <1>2, <1>4 DEF Gives, Thrown
<1> QED BY <1>1, <1>3, <1>4

\* Assigning a value, and an error, whatever is held.
LEMMA AssignValueGives ==
    ASSUME NEW s, Lives(s), s.slips = {}, ~Void, NEW d \in Data, NEW way, NEW r \in AssignValue(s, d, way)
    PROVE  Gives(r, s, TRUE, d)
<1>1. s.has \in BOOLEAN
  BY DEF Lives, Well, Storage
<1>2. CASE s.has
  <2>1. s.has = TRUE
    BY <1>1, <1>2
  <2> QED BY <1>2, <2>1, ContentGives DEF AssignValue
<1>3. CASE ~s.has
  <2>1. KindOf(TRUE) = "val" /\ KindOf(~TRUE) = "err"
    BY DEF KindOf
  <2>2. s.has = ~TRUE
    BY <1>1, <1>3
  <2>3. r \in Flagged(Reinit(s, KindOf(TRUE), KindOf(~TRUE), d, way), TRUE)
    BY <1>3, <2>1 DEF AssignValue
  <2> QED BY <2>2, <2>3, ReinitGives
<1> QED BY <1>2, <1>3

LEMMA AssignUnexpectedGives ==
    ASSUME NEW s, Lives(s), s.slips = {}, ~Void, NEW d \in Data, NEW way, NEW r \in AssignUnexpected(s, d, way)
    PROVE  Gives(r, s, FALSE, d)
<1>1. s.has \in BOOLEAN
  BY DEF Lives, Well, Storage
<1>2. CASE ~s.has
  <2>1. s.has = FALSE
    BY <1>1, <1>2
  <2> QED BY <1>2, <2>1, ContentGives DEF AssignUnexpected
<1>3. CASE s.has
  <2>1. KindOf(~FALSE) = "val" /\ KindOf(FALSE) = "err"
    BY DEF KindOf
  <2>2. s.has = ~FALSE
    BY <1>1, <1>3
  <2>3. r \in Flagged(Reinit(s, KindOf(FALSE), KindOf(~FALSE), d, way), FALSE)
    BY <1>3, <2>1 DEF AssignUnexpected
  <2> QED BY <2>2, <2>3, ReinitGives
<1> QED BY <1>2, <1>3

\* The same of expected<void, E>, where a value is no content.
LEMMA AssignUnexpectedVoidGives ==
    ASSUME NEW s, Lives(s), s.slips = {}, Void, NEW d \in Data, NEW way,
           NEW r \in AssignUnexpectedVoid(s, d, way)
    PROVE  Gives(r, s, FALSE, d)
<1>1. s.has \in BOOLEAN /\ s \in Storage
  BY DEF Lives, Well, Storage
<1>2. CASE ~s.has
  <2>1. s.has = FALSE
    BY <1>1, <1>2
  <2> QED BY <1>2, <2>1, ContentGives DEF AssignUnexpectedVoid
<1>3. CASE s.has
  <2> DEFINE built == Construct(s, FALSE, d)
  <2>1. r \in {Done(built), Thrown(s)}
    BY <1>3 DEF AssignUnexpectedVoid, ThrownIf
  <2>2. s.kind = "none"
    BY <1>3 DEF KindOf, Lives, Well
  <2>3. /\ built.has = FALSE /\ built.data = d /\ built.slips = {} /\ built.alive = s.alive
    BY <1>1, <2>2 DEF Construct, Put, KindOf, Storage
  <2> HIDE DEF built
  <2>4. CASE r = Done(built)
    BY <2>3, <2>4 DEF Gives, Done
  <2>5. CASE r = Thrown(s)
    BY <2>5 DEF Gives, Thrown
  <2> QED BY <2>1, <2>4, <2>5
<1> QED BY <1>2, <1>3

LEMMA EmplaceVoidGives ==
    ASSUME NEW s, Lives(s), s.slips = {}, Void, NEW d
    PROVE  Gives(Done(EmplaceVoid(s)), s, TRUE, d)
<1>1. /\ EmplaceVoid(s).has = TRUE /\ EmplaceVoid(s).slips = {}
      /\ EmplaceVoid(s).alive = s.alive
  BY DEF EmplaceVoid, Drop, KindOf, Lives, Well, Storage
<1> QED BY <1>1 DEF Gives, Done

\* operator=(const expected &) and operator=(expected &&).
LEMMA AssignmentGives ==
    ASSUME NEW s, Lives(s), s.slips = {}, NEW q, Lives(q), NEW way \in Ways,
           NEW r \in IF way = "copy" THEN CopyAssign(s, q) ELSE MoveAssign(s, q)
    PROVE  Gives(r, s, q.has, q.data)
<1>1. q.has \in BOOLEAN /\ q.data \in Data
  BY DEF Lives, Well, Storage
<1>2. PICK w : r \in CASE Void /\ q.has -> {Done(EmplaceVoid(s))}
                      [] Void /\ ~q.has -> AssignUnexpectedVoid(s, q.data, w)
                      [] ~Void /\ q.has -> AssignValue(s, q.data, w)
                      [] OTHER -> AssignUnexpected(s, q.data, w)
  BY Zenon DEF CopyAssign, MoveAssign
<1>3. CASE q.has
  <2>1. q.has = TRUE
    BY <1>1, <1>3
  <2>2. CASE Void
    BY <1>2, <2>1, <2>2, EmplaceVoidGives
  <2>3. CASE ~Void
    BY <1>1, <1>2, <2>1, <2>3, AssignValueGives
  <2> QED BY <2>2, <2>3
<1>4. CASE ~q.has
  <2>1. q.has = FALSE
    BY <1>1, <1>4
  <2>2. CASE Void
    BY <1>1, <1>2, <2>1, <2>2, AssignUnexpectedVoidGives
  <2>3. CASE ~Void
    BY <1>1, <1>2, <2>1, <2>3, AssignUnexpectedGives
  <2> QED BY <2>2, <2>3
<1> QED BY <1>3, <1>4

\* The outcome r of exchanging the storages a and b.
Exchanges(r, a, b) ==
    /\ r.a.slips = {} /\ r.b.slips = {} /\ r.a.alive = a.alive /\ r.b.alive = b.alive
    /\ r.threw => /\ r.a.has = a.has /\ r.b.has = b.has
                  /\ a.has # b.has => Same(r.a, a) /\ Same(r.b, b)
    /\ ~r.threw => Same(r.a, b) /\ Same(r.b, a)

\* swap() of two objects that hold the same alternative.
LEMMA SwapContentsExchanges ==
    ASSUME NEW a, Lives(a), a.slips = {}, NEW b, Lives(b), b.slips = {}, a.has = b.has,
           NEW r \in SwapContents(a, b)
    PROVE  Exchanges(r, a, b)
<1>1. a.data \in Data /\ b.data \in Data /\ Moved \in Data
  BY DEF Lives, Well, Storage, Data
<1>2. PICK x \in Data, y \in Data :
           \/ r = Pair([a EXCEPT !.data = b.data], [b EXCEPT !.data = a.data])
           \/ r \in {PairThrown([a EXCEPT !.data = x], [b EXCEPT !.data = y]),
                     PairThrown(a, b), PairThrown([a EXCEPT !.data = x], b)}
  BY <1>1 DEF SwapContents
<1>3. \A z \in Data : /\ [a EXCEPT !.data = z].has = a.has /\ [b EXCEPT !.data = z].has = b.has
                      /\ [a EXCEPT !.data = z].slips = {} /\ [b EXCEPT !.data = z].slips = {}
                      /\ [a EXCEPT !.data = z].alive = a.alive /\ [b EXCEPT !.data = z].alive = b.alive
                      /\ [a EXCEPT !.data = z].data = z /\ [b EXCEPT !.data = z].data = z
  BY DEF Lives, Well, Storage
<1> DEFINE ax == [a EXCEPT !.data = x]
           by == [b EXCEPT !.data = y]
<1>4. CASE r = Pair([a EXCEPT !.data = b.data], [b EXCEPT !.data = a.data])
  <2>1. Same([a EXCEPT !.data = b.data], b) /\ Same([b EXCEPT !.data = a.data], a)
    BY <1>1, <1>3 DEF Same, Equal, EqualVoid
  <2> QED BY <1>1, <1>3, <1>4, <2>1 DEF Exchanges, Pair
<1>5. /\ ax.has = a.has /\ ax.slips = {} /\ ax.alive = a.alive
      /\ by.has = b.has /\ by.slips = {} /\ by.alive = b.alive
  BY <1>3
<1>6. r \in {PairThrown(ax, by), PairThrown(a, b), PairThrown(ax, b)} => Exchanges(r, a, b)
  <2> HIDE DEF ax, by
  <2>1. CASE r = PairThrown(ax, by)
    BY <1>5, <2>1 DEF Exchanges, PairThrown
  <2>2. CASE r = PairThrown(a, b)
    BY <2>2 DEF Exchanges, PairThrown
  <2>3. CASE r = PairThrown(ax, b)
    BY <1>5, <2>3 DEF Exchanges, PairThrown
  <2> QED BY <2>1, <2>2, <2>3
<1> QED BY <1>2, <1>4, <1>6

\* swap() of a value and an error; whichever throws is brought back.
LEMMA SwapAcrossExchanges ==
    ASSUME NEW a, Lives(a), a.slips = {}, a.has, NEW b, Lives(b), b.slips = {}, ~b.has, ~Void,
           NEW r \in SwapAcross(a, b)
    PROVE  Exchanges(r, a, b)
<1> DEFINE sa == [Put(Drop(a, "val"), "err", b.data) EXCEPT !.has = FALSE]
           sb == [Put(Drop(b, "err"), "val", a.data) EXCEPT !.has = TRUE]
           ta == Put(Drop(a, "val"), "val", a.data)
           tb == Put(Drop(b, "err"), "err", b.data)
<1>0. a \in Storage /\ b \in Storage /\ a.has = TRUE /\ b.has = FALSE /\ a.kind = "val" /\ b.kind = "err"
  BY DEF Lives, Well, Storage, KindOf
<1>1. /\ sa.has = FALSE /\ sa.data = b.data /\ sa.slips = {} /\ sa.alive = a.alive
      /\ sb.has = TRUE /\ sb.data = a.data /\ sb.slips = {} /\ sb.alive = b.alive
  BY <1>0 DEF Put, Drop, Storage
<1>2. /\ ta.has = TRUE /\ ta.data = a.data /\ ta.slips = {} /\ ta.alive = a.alive
      /\ tb.has = FALSE /\ tb.data = b.data /\ tb.slips = {} /\ tb.alive = b.alive
  BY <1>0 DEF Put, Drop, Storage
<1>3. r \in {Pair(sa, sb), PairThrown(a, tb), PairThrown(ta, b)}
  BY DEF SwapAcross
<1> HIDE DEF sa, sb, ta, tb
<1>4. Same(sa, b) /\ Same(sb, a) /\ Same(ta, a) /\ Same(tb, b) /\ Same(a, a) /\ Same(b, b)
  BY <1>0, <1>1, <1>2 DEF Same, Equal
<1>5. CASE r = Pair(sa, sb)
  BY <1>1, <1>4, <1>5 DEF Pair, Exchanges
<1>6. CASE r = PairThrown(a, tb)
  BY <1>0, <1>2, <1>4, <1>6 DEF PairThrown, Exchanges
<1>7. CASE r = PairThrown(ta, b)
  BY <1>0, <1>2, <1>4, <1>7 DEF PairThrown, Exchanges
<1> QED BY <1>3, <1>5, <1>6, <1>7

\* swap() of an expected<void, E> without an error and one with it.
LEMMA SwapAcrossVoidExchanges ==
    ASSUME NEW a, Lives(a), a.slips = {}, a.has, NEW b, Lives(b), b.slips = {}, ~b.has, Void,
           NEW r \in SwapAcrossVoid(a, b)
    PROVE  Exchanges(r, a, b)
<1> DEFINE sa == Construct(a, FALSE, b.data)
           sb == [Drop(b, "err") EXCEPT !.has = TRUE]
<1>0. a \in Storage /\ b \in Storage /\ a.has = TRUE /\ b.has = FALSE /\ a.kind = "none" /\ b.kind = "err"
  BY DEF Lives, Well, Storage, KindOf
<1>1. /\ sa.has = FALSE /\ sa.data = b.data /\ sa.slips = {} /\ sa.alive = a.alive
      /\ sb.has = TRUE /\ sb.slips = {} /\ sb.alive = b.alive
  BY <1>0 DEF Construct, KindOf, Put, Drop, Storage
<1>2. r \in {Pair(sa, sb), PairThrown(a, b)}
  BY DEF SwapAcrossVoid
<1> HIDE DEF sa, sb
<1>3. Same(sa, b) /\ Same(sb, a) /\ Same(a, a) /\ Same(b, b)
  BY <1>0, <1>1 DEF Same, EqualVoid
<1>4. CASE r = Pair(sa, sb)
  BY <1>1, <1>3, <1>4 DEF Pair, Exchanges
<1>5. CASE r = PairThrown(a, b)
  BY <1>0, <1>3, <1>5 DEF PairThrown, Exchanges
<1> QED BY <1>2, <1>4, <1>5

\* swap(), in both orders of its arguments.
LEMMA SwapExchanges ==
    ASSUME NEW a, Lives(a), a.slips = {}, NEW b, Lives(b), b.slips = {},
           NEW r \in IF Void THEN SwapVoid(a, b) ELSE SwapValues(a, b)
    PROVE  Exchanges(r, a, b)
<1>1. a.has \in BOOLEAN /\ b.has \in BOOLEAN
  BY DEF Lives, Well, Storage
<1>2. CASE a.has = b.has
  <2>1. (Void /\ a.has /\ r = Pair(a, b)) \/ r \in SwapContents(a, b)
    BY <1>1, <1>2 DEF SwapVoid, SwapValues
  <2>2. ASSUME Void, a.has, r = Pair(a, b)
        PROVE  Exchanges(r, a, b)
    BY <1>1, <1>2, <2>2 DEF Exchanges, Pair, Same, EqualVoid
  <2> QED BY <1>2, <2>1, <2>2, SwapContentsExchanges
<1>3. CASE a.has /\ ~b.has
  <2>1. r \in IF Void THEN SwapAcrossVoid(a, b) ELSE SwapAcross(a, b)
    BY <1>3 DEF SwapVoid, SwapValues
  <2> QED BY <1>3, <2>1, SwapAcrossExchanges, SwapAcrossVoidExchanges
<1>4. CASE ~a.has /\ b.has
  <2>1. PICK q \in IF Void THEN SwapAcrossVoid(b, a) ELSE SwapAcross(b, a) :
             r = [q EXCEPT !.a = q.b, !.b = q.a]
    BY <1>4 DEF SwapVoid, SwapValues
  <2>2. Exchanges(q, b, a)
    BY <1>4, SwapAcrossExchanges, SwapAcrossVoidExchanges
  <2>3. \E x, y, t : q = [a |-> x, b |-> y, threw |-> t]
    BY DEF SwapAcrossVoid, SwapAcross, Pair, PairThrown
  <2>4. r.a = q.b /\ r.b = q.a /\ r.threw = q.threw
    BY <2>1, <2>3
  <2> QED BY <1>1, <2>2, <2>4 DEF Exchanges
<1> QED BY <1>1, <1>2, <1>3, <1>4

-----------------------------------------------------------------------------
(* The outcomes of the constructors, of the destructor and of emplace() *)

\* A constructor run on the empty storage builds what it is asked for.
LEMMA BuiltRight ==
    ASSUME NEW has \in BOOLEAN, NEW d
    PROVE  LET s == [Construct(Raw, has, d) EXCEPT !.alive = TRUE]
           IN  s.alive /\ s.has = has /\ s.slips = {} /\ ((Void /\ has) \/ s.data = d)
BY DEF Construct, Put, Raw, KindOf

\* The outcomes of a constructor whose body fills the empty storage.
LEMMA BodyRight ==
    ASSUME NEW has \in BOOLEAN, NEW d, NEW way, NEW r \in BodyOutcomes(Raw, has, d, way)
    PROVE  /\ r.threw => ~r.s.alive /\ r.s.slips = {"phantom"}
           /\ ~r.threw => r.s.slips = {} /\ r.s.has = has /\ ((Void /\ has) \/ r.s.data = d)
<1> DEFINE built == [Construct(Raw, has, d) EXCEPT !.alive = TRUE]
           gone == Release(Quiet(Raw))
<1>1. built.has = has /\ built.slips = {} /\ ((Void /\ has) \/ built.data = d)
  BY BuiltRight
<1>2. ~gone.alive /\ gone.slips = {"phantom"}
  BY DEF Release, Quiet, Raw, Drop, KindOf
<1>3. r \in {Done(built), Thrown(gone)}
  BY DEF BodyOutcomes, ThrownIf
<1> HIDE DEF built, gone
<1>4. CASE r = Done(built)
  BY <1>1, <1>4 DEF Done
<1>5. CASE r = Thrown(gone)
  BY <1>2, <1>5 DEF Thrown
<1> QED BY <1>3, <1>4, <1>5

\* The constructors of expected<void, E> from another: nothing is built over
\* the empty value, and the error that was not built is not destroyed.
LEMMA BodyVoidRight ==
    ASSUME Void, NEW has \in BOOLEAN, NEW d, NEW way,
           NEW r \in BodyOutcomes(Construct(Raw, TRUE, Moved), has, d, way)
    PROVE  r.s.slips = {} /\ (r.threw => ~r.s.alive)
<1> DEFINE base == Construct(Raw, TRUE, Moved)
           built == [Construct(base, has, d) EXCEPT !.alive = TRUE]
           gone == Release(Quiet(base))
<1>1. built.slips = {} /\ gone.slips = {} /\ ~gone.alive
  BY DEF Construct, Put, Raw, KindOf, Release, Quiet, Drop
<1>2. r \in {Done(built), Thrown(gone)}
  BY DEF BodyOutcomes, ThrownIf
<1> HIDE DEF built, gone
<1>3. CASE r = Done(built)
  BY <1>1, <1>3 DEF Done
<1>4. CASE r = Thrown(gone)
  BY <1>1, <1>4 DEF Thrown
<1> QED BY <1>2, <1>3, <1>4

\* A conversion that throws leaves no object.
LEMMA ConvertRight ==
    ASSUME NEW has, NEW d, NEW r \in ConvertOutcomes(has, d)
    PROVE  r.threw => ~r.s.alive
<1> DEFINE base == Construct(Raw, TRUE, Moved)
           torn == [Drop(base, "val") EXCEPT !.slips = {"leak"}]
           built == [Construct(base, has, d) EXCEPT !.alive = TRUE]
           gone == Release(torn)
<1>1. ~Raw.alive /\ ~gone.alive
  BY DEF Raw, Release, Drop, Construct, Put
<1>2. r \in {Done(built), Thrown(Raw), Thrown(gone)}
  BY DEF ConvertOutcomes, ThrownIf
<1> HIDE DEF built, gone
<1> QED BY <1>1, <1>2 DEF Done, Thrown

\* ~storage_base() of a living object destroys what is there.
LEMMA ReleaseRight ==
    ASSUME NEW s, Lives(s)
    PROVE  Release(Quiet(s)).slips = {}
<1>1. s \in Storage /\ s.kind = KindOf(s.has)
  BY DEF Lives, Well
<1> QED BY <1>1 DEF Release, Quiet, Drop, Storage

\* emplace() builds over nothing.
LEMMA EmplaceRight ==
    ASSUME NEW s, Lives(s), s.slips = {}, NEW d
    PROVE  Construct(Drop(s, KindOf(s.has)), TRUE, d).slips = {}
<1>1. s \in Storage /\ s.kind = KindOf(s.has)
  BY DEF Lives, Well
<1> QED BY <1>1 DEF Construct, Put, Drop, Storage

\* What the invariant says of the ends of the calls.
LEMMA EndFacts ==
    ASSUME Inv
    PROVE  \A o \in Objects :
              /\ Well(obj[o]) /\ obj[o].has \in BOOLEAN /\ obj[o].data \in Data
              /\ Quiet(obj[o]).slips = {} /\ Same(Quiet(obj[o]), obj[o])
              /\ Quiet(obj[o]).alive = obj[o].alive /\ Quiet(obj[o]).has = obj[o].has
              /\ Quiet(obj[o]).data = obj[o].data
              /\ \A way : Source(Quiet(obj[o]), way).slips = {}
              /\ Living(o) => Lives(obj[o]) /\ Lives(Quiet(obj[o]))
BY InvFacts, RestFacts, QuietWell

-----------------------------------------------------------------------------
(* Every call keeps the promises *)

\* Calls that change one storage, and calls that change two.
LEMMA OnePromises ==
    ASSUME Inv, NEW op, NEW this \in Objects, NEW rhs \in Objects, NEW threw, NEW result,
           NEW k \in {this, rhs}, NEW s, Return(op, this, rhs, threw, result, [x \in {k} |-> s]),
           op # "swap", Paired(op, threw, s),
           threw /\ op \in Guarded => Undone(op, this, rhs, s, obj[k]),
           ~threw /\ Handing(op, rhs) => k = this /\ Same(s, obj[rhs])
    PROVE  Promises
<1> DEFINE new == [x \in {k} |-> s]
<1>1. DOMAIN new = {k} /\ new[k] = s
  OBVIOUS
<1>2. Return(op, this, rhs, threw, result, new)
  OBVIOUS
<1> HIDE DEF new
<1>3. /\ DOMAIN new \subseteq Objects
      /\ \A x \in DOMAIN new : Paired(op, threw, new[x])
      /\ threw /\ op \in Guarded => \A x \in DOMAIN new : Undone(op, this, rhs, new[x], obj[x])
      /\ ~threw /\ Handing(op, rhs) => this \in DOMAIN new /\ Same(new[this], obj[rhs])
      /\ ~threw /\ op = "swap" => rhs \in DOMAIN new /\ Same(new[rhs], obj[this])
  BY <1>1
<1> QED BY <1>2, <1>3, CallPromises, Zenon

LEMMA TwoPromises ==
    ASSUME Inv, NEW op, NEW this \in Objects, NEW rhs \in Objects, NEW threw, NEW result,
           NEW s, NEW q, NEW new, Return(op, this, rhs, threw, result, new),
           new = [x \in {this, rhs} |-> IF x = this THEN s ELSE q],
           Paired(op, threw, s), Paired(op, threw, q),
           threw /\ op \in Guarded => /\ Undone(op, this, rhs, s, obj[this])
                                      /\ this # rhs => Undone(op, this, rhs, q, obj[rhs]),
           ~threw /\ Handing(op, rhs) => Same(s, obj[rhs]),
           ~threw /\ op = "swap" => this # rhs /\ Same(q, obj[this])
    PROVE  Promises
<1>1. DOMAIN new = {this, rhs} /\ new[this] = s /\ (this # rhs => new[rhs] = q)
  OBVIOUS
<1>2. \A x \in DOMAIN new : Paired(op, threw, new[x])
  BY <1>1
<1>3. threw /\ op \in Guarded => \A x \in DOMAIN new : Undone(op, this, rhs, new[x], obj[x])
  BY <1>1
<1> QED BY <1>1, <1>2, <1>3, CallPromises

\* Constructors and the destructor.
LEMMA ConstructorsPromise ==
    ASSUME Inv, NEW o \in Objects, NEW p \in Objects, NEW has \in BOOLEAN, NEW d \in Data,
           \/ Build(o, has, d) \/ BuildVoid(o, has, d) \/ Convert(o, has, d) \/ ConvertVoid(o, has, d)
           \/ CopyConstruct(o, p) \/ MoveConstruct(o, p) \/ Destroy(o)
    PROVE  Promises
<1> USE EndFacts
<1>1. CASE Build(o, has, d) \/ BuildVoid(o, has, d)
  <2> DEFINE built == [Construct(Raw, has, d) EXCEPT !.alive = TRUE]
  <2>1. built.slips = {} /\ Raw.slips = {} /\ ~Raw.alive /\ Raw.alive \in BOOLEAN
    BY BuiltRight DEF Raw
  <2>2. ~obj[o].alive /\ obj[o].alive \in BOOLEAN
    BY <1>1 DEF Build, BuildVoid, BuildAs, Living, Well, Storage
  <2>3. PICK threw \in BOOLEAN, s \in {built, Raw} :
             (threw => s = Raw) /\ Return("build", o, o, threw, Moved, [x \in {o} |-> s])
    BY <1>1 DEF Build, BuildVoid, BuildAs
  <2> HIDE DEF built
  <2>4. Paired("build", threw, s)
    BY <2>1, <2>3 DEF Paired
  <2>5. threw => Undone("build", o, o, s, obj[o])
    BY <2>1, <2>2, <2>3 DEF Undone
  <2>6. ~Handing("build", o)
    BY DEF Handing
  <2> QED BY <2>3, <2>4, <2>5, <2>6, OnePromises
<1>2. CASE Convert(o, has, d) \/ ConvertVoid(o, has, d)
  <2>1. ~obj[o].alive /\ obj[o].alive \in BOOLEAN
    BY <1>2 DEF Convert, ConvertVoid, Living, Well, Storage
  <2>2. PICK threw, s : /\ Return("convert", o, o, threw, Moved, [x \in {o} |-> s])
                        /\ Well(s)
                        /\ threw => ~s.alive
                        /\ Void => s.slips = {}
    <3>1. CASE Convert(o, has, d)
      <4>1. ~Void
        BY <3>1 DEF Convert
      <4>2. PICK r \in ConvertOutcomes(has, d) :
                 Return("convert", o, o, r.threw, Moved, [x \in {o} |-> r.s])
        BY <3>1 DEF Convert
      <4>3. Well(r.s) /\ (r.threw => ~r.s.alive)
        BY ConvertRight, ConvertWell
      <4> QED BY <4>1, <4>2, <4>3
    <3>2. CASE ConvertVoid(o, has, d)
      <4> DEFINE base == Construct(Raw, TRUE, Moved)
      <4>1. base \in Storage
        BY DEF Construct, Put, KindOf, Raw, Storage, Data, Slips
      <4>2. PICK r \in BodyOutcomes(base, has, d, "copy") :
                 Return("convert", o, o, r.threw, Moved, [x \in {o} |-> r.s])
        BY <3>2 DEF ConvertVoid
      <4>3. r.s.slips = {} /\ (r.threw => ~r.s.alive)
        BY <3>2, BodyVoidRight DEF ConvertVoid
      <4> HIDE DEF base
      <4>4. Well(r.s)
        BY <4>1, BodyWell
      <4> QED BY <4>2, <4>3, <4>4
    <3> QED BY <1>2, <3>1, <3>2
  <2>3. Paired("convert", threw, s)
    BY <2>2 DEF Paired
  <2>4. threw => Undone("convert", o, o, s, obj[o])
    BY <2>1, <2>2 DEF Undone, Well, Storage
  <2>5. ~Handing("convert", o)
    BY DEF Handing
  <2> QED BY <2>2, <2>3, <2>4, <2>5, OnePromises
<1>3. CASE CopyConstruct(o, p) \/ MoveConstruct(o, p)
  <2>1. ~obj[o].alive /\ obj[o].alive \in BOOLEAN /\ obj[p].alive /\ o # p
    BY <1>3 DEF CopyConstruct, MoveConstruct, Living, Well, Storage
  <2>2. PICK way, r, q :
           /\ r \in BodyOutcomes(Raw, obj[p].has, obj[p].data, way)
           /\ \/ Return("construct", o, p, r.threw, Moved, [x \in {o} |-> r.s])
              \/ Return("construct", o, p, r.threw, Moved,
                        [x \in {o, p} |-> IF x = o THEN r.s ELSE q])
           /\ q.slips = {}
           /\ r.threw => q = Quiet(obj[p])
    <3>1. CASE CopyConstruct(o, p)
      <4>1. PICK r \in BodyOutcomes(Raw, obj[p].has, obj[p].data, "copy") :
               Return("construct", o, p, r.threw, Moved, [x \in {o} |-> r.s])
        BY <3>1 DEF CopyConstruct
      <4> QED BY <4>1
    <3>2. CASE MoveConstruct(o, p)
      <4>1. PICK r \in BodyOutcomes(Raw, obj[p].has, obj[p].data, "move") :
               Return("construct", o, p, r.threw, Moved,
                      [x \in {o, p} |-> IF x = o THEN r.s
                                        ELSE IF r.threw THEN Quiet(obj[p])
                                        ELSE Source(Quiet(obj[p]), "move")])
        BY <3>2 DEF MoveConstruct
      <4> DEFINE q == IF r.threw THEN Quiet(obj[p]) ELSE Source(Quiet(obj[p]), "move")
      <4>2. Return("construct", o, p, r.threw, Moved, [x \in {o, p} |-> IF x = o THEN r.s ELSE q])
        BY <4>1
      <4>3. q.slips = {} /\ (r.threw => q = Quiet(obj[p]))
        OBVIOUS
      <4> HIDE DEF q
      <4> QED BY <4>2, <4>3
    <3> QED BY <1>3, <3>1, <3>2
  <2>3. /\ r.threw => ~r.s.alive /\ r.s.slips = {"phantom"}
        /\ ~r.threw => /\ r.s.slips = {} /\ r.s.has = obj[p].has
                       /\ (Void /\ obj[p].has) \/ r.s.data = obj[p].data
    BY <2>2, BodyRight
  <2>4. Well(r.s)
    BY <2>2, BodyWell, RawWell DEF Well
  <2>5. Paired("construct", r.threw, r.s) /\ Paired("construct", r.threw, q)
    BY <2>2, <2>3 DEF Paired
  <2>6. r.threw => Undone("construct", o, p, r.s, obj[o]) /\ Undone("construct", o, p, q, obj[p])
    BY <2>1, <2>2, <2>3, <2>4 DEF Undone, Well, Storage
  <2>7. ~r.threw => Same(r.s, obj[p])
    BY <2>3 DEF Same, Equal, EqualVoid
  <2>8. CASE Return("construct", o, p, r.threw, Moved, [x \in {o} |-> r.s])
    BY <2>5, <2>6, <2>7, <2>8, OnePromises
  <2>9. CASE Return("construct", o, p, r.threw, Moved, [x \in {o, p} |-> IF x = o THEN r.s ELSE q])
    <3> DEFINE new == [x \in {o, p} |-> IF x = o THEN r.s ELSE q]
    <3>1. Return("construct", o, p, r.threw, Moved, new)
      BY <2>9
    <3>2. new = [x \in {o, p} |-> IF x = o THEN r.s ELSE q]
      OBVIOUS
    <3> HIDE DEF new
    <3> QED BY <2>5, <2>6, <2>7, <3>1, <3>2, TwoPromises
  <2> QED BY <2>2, <2>8, <2>9
<1>4. CASE Destroy(o)
  <2> DEFINE s == Release(Quiet(obj[o]))
  <2>1. s.slips = {}
    BY <1>4, ReleaseRight DEF Destroy
  <2>2. Return("destroy", o, o, FALSE, Moved, [x \in {o} |-> s])
    BY <1>4 DEF Destroy
  <2> HIDE DEF s
  <2>3. Paired("destroy", FALSE, s) /\ ~Handing("destroy", o)
    BY <2>1 DEF Paired, Handing
  <2> QED BY <2>2, <2>3, OnePromises
<1> QED BY <1>1, <1>2, <1>3, <1>4

\* An outcome of an assignment in the words of the properties.
LEMMA GivesPromise ==
    ASSUME NEW op, NEW this, NEW rhs, NEW s, NEW q, NEW r, NEW has, NEW d, Gives(r, s, has, d),
           Same(s, q), s.has = q.has, s.data = q.data, s.alive = q.alive,
           op \in Guarded,
           s.has = has => \/ op = "assign" /\ obj[this].has = obj[rhs].has
                          \/ op = "assign_value" /\ obj[this].has
                          \/ op = "assign_error" /\ ~obj[this].has
    PROVE  Paired(op, r.threw, r.s) /\ (r.threw => Undone(op, this, rhs, r.s, q))
<1>1. Paired(op, r.threw, r.s)
  BY DEF Gives, Paired
<1>2. ASSUME r.threw
      PROVE  Undone(op, this, rhs, r.s, q)
  <2>1. r.s.alive = q.alive /\ r.s.has = q.has
    BY <1>2 DEF Gives
  <2>2. CASE s.has = has
    BY <2>1, <2>2 DEF Undone
  <2>3. CASE s.has # has
    <3>1. r.s.data = q.data
      BY <1>2, <2>3 DEF Gives
    <3> QED BY <2>1, <3>1 DEF Undone, Same, Equal, EqualVoid
  <2> QED BY <2>1, <2>2, <2>3
<1> QED BY <1>1, <1>2

\* The assignments, emplace() and swap().
LEMMA AssignPromises ==
    ASSUME Inv, NEW o \in Objects, NEW p \in Objects, NEW way \in Ways, Assign(o, p, way)
    PROVE  Promises
<1> DEFINE s == Quiet(obj[o])
           q(r) == IF r.threw THEN Quiet(obj[p]) ELSE Source(Quiet(obj[p]), way)
<1>1. PICK r \in IF way = "copy" THEN CopyAssign(s, obj[p]) ELSE MoveAssign(s, obj[p]) :
           Return("assign", o, p, r.threw, Moved, [x \in {o, p} |-> IF x = o THEN r.s ELSE q(r)])
  BY DEF Assign
<1>2. Lives(s) /\ Lives(obj[p]) /\ s.slips = {}
  BY EndFacts DEF Assign
<1>3. /\ Same(s, obj[o]) /\ s.has = obj[o].has /\ s.data = obj[o].data /\ s.alive = obj[o].alive
      /\ q(r).slips = {}
      /\ r.threw => q(r).alive = obj[p].alive /\ Same(q(r), obj[p])
  BY EndFacts
<1> HIDE DEF s, q
<1>4. Gives(r, s, obj[p].has, obj[p].data)
  BY <1>1, <1>2, AssignmentGives
<1>5. /\ Paired("assign", r.threw, r.s)
      /\ r.threw => Undone("assign", o, p, r.s, obj[o])
  <2>1. "assign" \in Guarded /\ (s.has = obj[p].has => obj[o].has = obj[p].has)
    BY <1>3 DEF Guarded
  <2> QED BY <1>3, <1>4, <2>1, GivesPromise, SMTT(30)
<1>6. ~r.threw => Same(r.s, obj[p])
  BY <1>4 DEF Gives, Same, Equal, EqualVoid
<1>7. /\ Paired("assign", r.threw, q(r))
      /\ r.threw => Undone("assign", o, p, q(r), obj[p])
  BY <1>3 DEF Paired, Undone
<1> DEFINE new == [x \in {o, p} |-> IF x = o THEN r.s ELSE q(r)]
<1>8. Return("assign", o, p, r.threw, Moved, new)
  BY <1>1
<1>9. new = [x \in {o, p} |-> IF x = o THEN r.s ELSE q(r)]
  OBVIOUS
<1> HIDE DEF new
<1> QED BY <1>5, <1>6, <1>7, <1>8, <1>9, TwoPromises

LEMMA AssignFromPromises ==
    ASSUME Inv, NEW o \in Objects, NEW has \in BOOLEAN, NEW d \in Data, NEW way,
           AssignFrom(o, has, d, way)
    PROVE  Promises
<1> DEFINE s == Quiet(obj[o])
           op == IF has THEN "assign_value" ELSE "assign_error"
<1>1. PICK r \in IF Void THEN AssignUnexpectedVoid(s, d, way)
                 ELSE IF has THEN AssignValue(s, d, way) ELSE AssignUnexpected(s, d, way) :
           Return(op, o, o, r.threw, Moved, [x \in {o} |-> r.s])
  BY DEF AssignFrom
<1>2. Lives(s) /\ s.slips = {} /\ (Void => ~has)
  BY EndFacts DEF AssignFrom
<1>3. Same(s, obj[o]) /\ s.has = obj[o].has /\ s.data = obj[o].data /\ s.alive = obj[o].alive
  BY EndFacts
<1> HIDE DEF s
<1>4. Gives(r, s, has, d)
  <2>1. CASE has
    BY <1>1, <1>2, <2>1, AssignValueGives
  <2>2. CASE ~has
    BY <1>1, <1>2, <2>2, AssignUnexpectedGives, AssignUnexpectedVoidGives
  <2> QED BY <2>1, <2>2
<1>5. /\ op \in Guarded /\ ~Handing(op, o) /\ op # "swap"
      /\ s.has = has => \/ op = "assign" /\ obj[o].has = obj[o].has
                        \/ op = "assign_value" /\ obj[o].has
                        \/ op = "assign_error" /\ ~obj[o].has
  BY <1>3 DEF Guarded, Handing
<1> HIDE DEF op
<1>6. Paired(op, r.threw, r.s) /\ (r.threw => Undone(op, o, o, r.s, obj[o]))
  BY <1>3, <1>4, <1>5, GivesPromise, Zenon
<1> QED BY <1>1, <1>5, <1>6, OnePromises

LEMMA EmplacePromises ==
    ASSUME Inv, NEW o \in Objects, NEW d, Emplace(o, d)
    PROVE  Promises
<1> DEFINE q == Quiet(obj[o])
           s == IF Void THEN EmplaceVoid(q) ELSE Construct(Drop(q, KindOf(q.has)), TRUE, d)
<1>1. Return("emplace", o, o, FALSE, Moved, [x \in {o} |-> s])
  BY DEF Emplace
<1>2. Lives(q) /\ q.slips = {}
  BY EndFacts DEF Emplace
<1> HIDE DEF q
<1>3. s.slips = {}
  <2>1. CASE Void
    <3>1. Gives(Done(EmplaceVoid(q)), q, TRUE, d)
      BY <1>2, <2>1, EmplaceVoidGives
    <3> QED BY <2>1, <3>1 DEF Gives, Done
  <2>2. CASE ~Void
    BY <1>2, <2>2, EmplaceRight
  <2> QED BY <2>1, <2>2
<1> HIDE DEF s
<1>4. Paired("emplace", FALSE, s) /\ ~Handing("emplace", o)
  BY <1>3 DEF Paired, Handing
<1> QED BY <1>1, <1>4, OnePromises

LEMMA SwapPromises ==
    ASSUME Inv, NEW o \in Objects, NEW p \in Objects, Swap(o, p)
    PROVE  Promises
<1> DEFINE a == Quiet(obj[o])
           b == Quiet(obj[p])
<1>1. PICK r \in IF Void THEN SwapVoid(a, b) ELSE SwapValues(a, b) :
           Return("swap", o, p, r.threw, Moved, [x \in {o, p} |-> IF x = o THEN r.a ELSE r.b])
  BY DEF Swap
<1>2. Lives(a) /\ a.slips = {} /\ Lives(b) /\ b.slips = {} /\ o # p
  BY EndFacts DEF Swap
<1>3. /\ a.has = obj[o].has /\ a.data = obj[o].data /\ a.alive = obj[o].alive
      /\ b.has = obj[p].has /\ b.data = obj[p].data /\ b.alive = obj[p].alive
  BY EndFacts
<1> HIDE DEF a, b
<1>4. Exchanges(r, a, b)
  BY <1>1, <1>2, SwapExchanges
<1>5. Paired("swap", r.threw, r.a) /\ Paired("swap", r.threw, r.b)
  BY <1>4 DEF Exchanges, Paired
<1>6. r.threw => Undone("swap", o, p, r.a, obj[o]) /\ Undone("swap", o, p, r.b, obj[p])
  BY <1>3, <1>4 DEF Exchanges, Undone, Same, Equal, EqualVoid
<1>7. ~r.threw => Same(r.a, obj[p]) /\ Same(r.b, obj[o])
  BY <1>3, <1>4 DEF Exchanges, Same, Equal, EqualVoid
<1> DEFINE new == [x \in {o, p} |-> IF x = o THEN r.a ELSE r.b]
<1>8. Return("swap", o, p, r.threw, Moved, new)
  BY <1>1
<1>9. new = [x \in {o, p} |-> IF x = o THEN r.a ELSE r.b]
  OBVIOUS
<1> HIDE DEF new
<1> QED BY <1>2, <1>5, <1>6, <1>7, <1>8, <1>9, TwoPromises

\* The observers hand out a content or keep their object as it is.
LEMMA HandOutPromises ==
    ASSUME Inv, NEW op \in {"value", "value_or", "error_or"}, NEW o \in Objects, NEW d, NEW way,
           HandOut(op, o, way) \/ Instead(op, o, d)
    PROVE  Promises
<1> DEFINE moved == Source(Quiet(obj[o]), way)
           kept == Quiet(obj[o])
<1>1. PICK threw, result, s :
           (s = moved \/ s = kept) /\ Return(op, o, o, threw, result, [x \in {o} |-> s])
  BY DEF HandOut, Instead
<1>2. moved.slips = {} /\ kept.slips = {}
  BY EndFacts
<1> HIDE DEF moved, kept
<1>3. Paired(op, threw, s) /\ ~Handing(op, o) /\ op \notin Guarded /\ op # "swap"
  BY <1>1, <1>2 DEF Paired, Handing, Guarded
<1> QED BY <1>1, <1>3, OnePromises

LEMMA ValuePromises ==
    ASSUME Inv, NEW o \in Objects, NEW way, Value(o, way) \/ ValueVoid(o, way)
    PROVE  Promises
<1> DEFINE moved == Source(Quiet(obj[o]), way)
           kept == Quiet(obj[o])
<1>1. PICK threw, result, s :
           (s = moved \/ s = kept) /\ Return("value", o, o, threw, result, [x \in {o} |-> s])
  BY DEF Value, ValueVoid, ValueThrows
<1>2. moved.slips = {} /\ kept.slips = {}
  BY EndFacts
<1> HIDE DEF moved, kept
<1>3. Paired("value", threw, s) /\ ~Handing("value", o) /\ "value" \notin Guarded
  BY <1>1, <1>2 DEF Paired, Handing, Guarded
<1> QED BY <1>1, <1>3, OnePromises

\* value(), value_or() and error_or().
LEMMA ObserversPromise ==
    ASSUME Inv, NEW o \in Objects, NEW d \in Contents, NEW way \in Ways,
           \/ Value(o, way) \/ ValueVoid(o, way)
           \/ ValueOr(o, d, way) \/ ErrorOr(o, d, way) \/ ErrorOrVoid(o, d, way)
    PROVE  Promises
<1>1. CASE Value(o, way) \/ ValueVoid(o, way)
  BY <1>1, ValuePromises
<1>2. CASE ValueOr(o, d, way)
  BY <1>2, HandOutPromises DEF ValueOr
<1>3. CASE ErrorOr(o, d, way) \/ ErrorOrVoid(o, d, way)
  BY <1>3, HandOutPromises DEF ErrorOr, ErrorOrVoid
<1> QED BY <1>1, <1>2, <1>3

Chains == {"and_then", "or_else", "transform", "transform_error"}

\* The alternative that is passed on reaches the result.
LEMMA PassOnPromises ==
    ASSUME Inv, NEW op \in Chains, NEW o \in Objects, NEW p \in Objects, NEW way,
           PassOn(op, o, p, way)
    PROVE  Promises
<1> DEFINE built == [Construct(Raw, obj[p].has, obj[p].data) EXCEPT !.alive = TRUE]
           moved == Source(Quiet(obj[p]), way)
           kept == Quiet(obj[p])
<1>1. \/ Return(op, o, p, FALSE, Moved, [x \in {o, p} |-> IF x = o THEN built ELSE moved])
      \/ Return(op, o, p, TRUE, Moved, [x \in {p} |-> kept])
  BY DEF PassOn
<1>2. moved.slips = {} /\ kept.slips = {} /\ obj[p].has \in BOOLEAN
  BY EndFacts
<1>3. built.slips = {} /\ Same(built, obj[p])
  BY <1>2, BuiltRight DEF Same, Equal, EqualVoid
<1> HIDE DEF built, moved, kept
<1>4. op \notin Guarded /\ op # "swap"
  BY DEF Guarded, Chains
<1>5. Paired(op, FALSE, built) /\ Paired(op, FALSE, moved) /\ Paired(op, TRUE, kept)
  BY <1>2, <1>3 DEF Paired
<1>6. CASE Return(op, o, p, FALSE, Moved, [x \in {o, p} |-> IF x = o THEN built ELSE moved])
  <2> DEFINE new == [x \in {o, p} |-> IF x = o THEN built ELSE moved]
  <2>1. Return(op, o, p, FALSE, Moved, new)
    BY <1>6
  <2>2. new = [x \in {o, p} |-> IF x = o THEN built ELSE moved]
    OBVIOUS
  <2> HIDE DEF new
  <2> QED BY <1>3, <1>4, <1>5, <2>1, <2>2, TwoPromises
<1>7. CASE Return(op, o, p, TRUE, Moved, [x \in {p} |-> kept])
  BY <1>4, <1>5, <1>7, OnePromises
<1> QED BY <1>1, <1>6, <1>7

\* The function that is called makes the result.
LEMMA InvokePromises ==
    ASSUME Inv, NEW op \in Chains, NEW o \in Objects, NEW p \in Objects, NEW way, NEW d,
           NEW alternatives \in SUBSET BOOLEAN, Invoke(op, o, p, way, alternatives, d),
           ~Handing(op, p)
    PROVE  Promises
<1> DEFINE built(has) == [Construct(Raw, has, d) EXCEPT !.alive = TRUE]
           moved == Source(Quiet(obj[p]), way)
           kept == Quiet(obj[p])
<1>1. PICK s \in {kept, moved} :
        \/ \E has \in alternatives :
              Return(op, o, p, FALSE, Moved, [x \in {o, p} |-> IF x = o THEN built(has) ELSE s])
        \/ Return(op, o, p, TRUE, Moved, [x \in {p} |-> s])
  BY DEF Invoke
<1>2. \A has \in BOOLEAN : built(has).slips = {}
  BY BuiltRight
<1>3. s.slips = {}
  BY EndFacts
<1>4. op \notin Guarded /\ op # "swap"
  BY DEF Guarded, Chains
<1> HIDE DEF built, moved, kept
<1>5. ASSUME NEW has \in alternatives,
             Return(op, o, p, FALSE, Moved, [x \in {o, p} |-> IF x = o THEN built(has) ELSE s])
      PROVE  Promises
  <2> DEFINE new == [x \in {o, p} |-> IF x = o THEN built(has) ELSE s]
  <2>1. Return(op, o, p, FALSE, Moved, new)
    BY <1>5
  <2>2. new = [x \in {o, p} |-> IF x = o THEN built(has) ELSE s]
    OBVIOUS
  <2> HIDE DEF new
  <2>3. Paired(op, FALSE, built(has)) /\ Paired(op, FALSE, s)
    BY <1>2, <1>3 DEF Paired
  <2> QED BY <1>4, <2>1, <2>2, <2>3, TwoPromises
<1>6. CASE Return(op, o, p, TRUE, Moved, [x \in {p} |-> s])
  <2>1. Paired(op, TRUE, s)
    BY <1>3 DEF Paired
  <2> QED BY <1>4, <1>6, <2>1, OnePromises
<1> QED BY <1>1, <1>5, <1>6

\* The monadic operations.
LEMMA MonadicPromise ==
    ASSUME Inv, NEW o \in Objects, NEW p \in Objects, NEW d \in Contents, NEW way \in Ways,
           \/ AndThen(o, p, way, d) \/ AndThenVoid(o, p, way, d)
           \/ OrElse(o, p, way, d) \/ OrElseVoid(o, p, way, d)
           \/ Transform(o, p, way, d) \/ TransformVoid(o, p, way, d)
           \/ TransformError(o, p, way, d) \/ TransformErrorVoid(o, p, way, d)
    PROVE  Promises
<1>1. CASE \E op \in {"and_then", "transform"}, alternatives \in SUBSET BOOLEAN :
              OnValue(op, o, p, way, alternatives, d)
  <2>1. PICK op \in {"and_then", "transform"}, alternatives \in SUBSET BOOLEAN :
             OnValue(op, o, p, way, alternatives, d)
    BY <1>1
  <2>2. op \in Chains
    BY DEF Chains
  <2>3. CASE obj[p].has
    <3>1. ~Handing(op, p)
      BY <2>3 DEF Handing
    <3> QED BY <2>1, <2>2, <2>3, <3>1, InvokePromises DEF OnValue
  <2>4. CASE ~obj[p].has
    BY <2>1, <2>2, <2>4, PassOnPromises DEF OnValue
  <2> QED BY <2>3, <2>4
<1>2. CASE \E op \in {"or_else", "transform_error"}, alternatives \in SUBSET BOOLEAN :
              OnError(op, o, p, way, alternatives, d)
  <2>1. PICK op \in {"or_else", "transform_error"}, alternatives \in SUBSET BOOLEAN :
             OnError(op, o, p, way, alternatives, d)
    BY <1>2
  <2>2. op \in Chains
    BY DEF Chains
  <2>3. CASE ~obj[p].has
    <3>1. ~Handing(op, p)
      BY <2>3 DEF Handing
    <3> QED BY <2>1, <2>2, <2>3, <3>1, InvokePromises DEF OnError
  <2>4. CASE obj[p].has
    BY <2>1, <2>2, <2>4, PassOnPromises DEF OnError
  <2> QED BY <2>3, <2>4
<1>3. {BOOLEAN, {TRUE}, {FALSE}} \subseteq SUBSET BOOLEAN
  OBVIOUS
<1> QED BY <1>1, <1>2, <1>3
        DEF AndThen, AndThenVoid, OrElse, OrElseVoid, Transform, TransformVoid,
            TransformError, TransformErrorVoid

\* Every call keeps the three promises.
LEMMA NextPromises == Inv /\ Next => Promises
<1> SUFFICES ASSUME Inv, Next PROVE Promises
  OBVIOUS
<1>1. ASSUME NEW o \in Objects, NEW has \in BOOLEAN, NEW d \in Contents,
             Build(o, has, d) \/ BuildVoid(o, has, d) \/ Convert(o, has, d) \/ ConvertVoid(o, has, d)
      PROVE  Promises
  BY <1>1, ConstructorsPromise DEF Data
<1>2. ASSUME NEW o \in Objects, NEW p \in Objects,
             CopyConstruct(o, p) \/ MoveConstruct(o, p) \/ Swap(o, p) \/ \E way \in Ways : Assign(o, p, way)
      PROVE  Promises
  <2>1. Moved \in Data /\ TRUE \in BOOLEAN
    BY DEF Data
  <2> QED BY <1>2, <2>1, ConstructorsPromise, AssignPromises, SwapPromises
<1>3. ASSUME NEW o \in Objects, NEW d \in Contents,
             Emplace(o, d) \/ \E has \in BOOLEAN, way \in Ways : AssignFrom(o, has, d, way)
      PROVE  Promises
  <2>1. d \in Data
    BY DEF Data
  <2> QED BY <1>3, <2>1, EmplacePromises, AssignFromPromises
<1>4. ASSUME NEW o \in Objects, Destroy(o)
      PROVE  Promises
  <2>1. Moved \in Data /\ TRUE \in BOOLEAN
    BY DEF Data
  <2> QED BY <1>4, <2>1, ConstructorsPromise
<1>5. ASSUME NEW o \in Objects, NEW d \in Contents, NEW way \in Ways,
             \/ Value(o, way) \/ ValueVoid(o, way)
             \/ ValueOr(o, d, way) \/ ErrorOr(o, d, way) \/ ErrorOrVoid(o, d, way)
      PROVE  Promises
  BY <1>5, ObserversPromise
<1>6. ASSUME NEW o \in Objects, NEW p \in Objects, NEW d \in Contents, NEW way \in Ways,
             \/ AndThen(o, p, way, d) \/ AndThenVoid(o, p, way, d)
             \/ OrElse(o, p, way, d) \/ OrElseVoid(o, p, way, d)
             \/ Transform(o, p, way, d) \/ TransformVoid(o, p, way, d)
             \/ TransformError(o, p, way, d) \/ TransformErrorVoid(o, p, way, d)
      PROVE  Promises
  BY <1>6, MonadicPromise
<1> QED BY <1>1, <1>2, <1>3, <1>4, <1>5, <1>6 DEF Next

\* Nothing has slipped before the first call.
LEMMA InitPaired == Init => LifetimesPaired
BY DEF Init, LifetimesPaired, Raw

\* Every contained object is destroyed once, and only what was built is
\* destroyed, but for the two groups of constructors the property names.
THEOREM ObjectsPaired == Spec => []LifetimesPaired
<1>1. LifetimesPaired /\ UNCHANGED vars => LifetimesPaired'
  BY DEF LifetimesPaired, vars, Void
<1>2. Inv /\ LifetimesPaired /\ [Next]_vars => LifetimesPaired'
  BY <1>1, NextPromises DEF Promises
<1> QED BY InitInv, NextInv, InitPaired, <1>2, PTL DEF Spec

\* A constructor, an assignment or a swap that throws changes no object, save
\* for a content whose own assignment operator was at work.
THEOREM ThrowsChangeNothing == Spec => StrongGuarantee
<1>1. Inv /\ [Next]_vars => [StrongStep]_vars
  BY NextPromises DEF Promises
<1>2. [StrongStep]_vars => [call'.threw /\ call'.op \in {"build", "convert", "construct", "assign",
                                    "assign_value", "assign_error", "swap"} =>
         \A o \in Objects :
            /\ obj'[o].alive = obj[o].alive
            /\ Living(o) => \/ Same(obj'[o], obj[o])
                            \/ SameAlternative /\ obj'[o].has = obj[o].has]_vars
  BY DEF StrongStep
<1> QED BY InitInv, NextInv, <1>1, <1>2, PTL DEF Spec, StrongGuarantee

\* A call that returns has handed over what it was given.
THEOREM CallsTransfer == Spec => Transfers
<1>1. Inv /\ [Next]_vars => [TransferStep]_vars
  BY NextPromises DEF Promises
<1>2. [TransferStep]_vars =>
      [~call'.threw =>
         /\ call'.op \in {"construct", "assign", "swap"} \/ Skips
               => Same(obj'[call'.this], obj[call'.rhs])
         /\ call'.op = "swap" => Same(obj'[call'.rhs], obj[call'.this])]_vars
  BY DEF TransferStep
<1> QED BY InitInv, NextInv, <1>1, <1>2, PTL DEF Spec, Transfers

=============================================================================
