------------------------------- MODULE Expected -------------------------------
(****************************************************************************)
(* stdext::expected<T, E> (libstdext, stdext/expected.h): storage for one   *)
(* object, a value T or an error E, and a flag m_has_val that says which of *)
(* the two lives there.  The class constructs and destroys the contained    *)
(* object by hand, so what matters is which constructor and destructor runs *)
(* on which storage, also when one of them throws half way.                 *)
(*                                                                          *)
(* The storage of an expected object is a record.  Its field kind is the    *)
(* object that really lives there (history the program does not keep), has  *)
(* is the member m_has_val, data the contained value.  Every call of a      *)
(* member is one action; the constructions and destructions in it are       *)
(* applied one after the other by Put and Drop, which record in slips what  *)
(* the call does to lifetimes: "leak" when an object is built over a living *)
(* one, "phantom" when a destructor runs where no such object lives.        *)
(*                                                                          *)
(* A type is known by which of its constructors may throw: none, all but    *)
(* the move constructor ("copy"), or all ("move").  A constructor that      *)
(* throws builds nothing and leaves its argument as it was.  The overloads  *)
(* for lvalues copy, those for rvalues move; the overloads for const        *)
(* rvalues copy.                                                            *)
(****************************************************************************)
CONSTANTS
    Objects,    \* the expected objects of a program, all of one type
    Contents,   \* contents of values and errors
    Moved       \* what an object holds that was moved from

ASSUME ContentsAssumption == Moved \notin Contents

VARIABLES
    traits,     \* which constructors of T and E may throw; T may be void
    obj,        \* the storage of every object
    call        \* the last call: operation, object, argument, outcome

vars == <<traits, obj, call>>

Data == Contents \cup {Moved}
Levels == {"nothrow", "copy", "move"}
Ways == {"copy", "move"}
Slips == {"leak", "phantom"}

Storage == [alive : BOOLEAN, has : BOOLEAN, kind : {"val", "err", "none"},
            data : Data, slips : SUBSET Slips]
Traits == [T : Levels \cup {"void"}, E : Levels]
Operations == {"none", "build", "convert", "construct", "assign",
               "assign_value", "assign_error", "emplace", "swap", "destroy", "value", "value_or", "error_or",
               "and_then", "or_else", "transform", "transform_error"}
Calls == [op : Operations, this : Objects, rhs : Objects, threw : BOOLEAN,
          result : Data]

TypeOK ==
    /\ traits \in Traits
    /\ obj \in [Objects -> Storage]
    /\ call \in Calls

-----------------------------------------------------------------------------
Void == traits.T = "void"
Level(kind) == IF kind = "err" THEN traits.E ELSE traits.T

\* Whether building an object of the kind from an lvalue (or from other
\* arguments), or from an rvalue, may throw.
MayThrow(kind, way) ==
    Level(kind) = "move" \/ (Level(kind) = "copy" /\ way = "copy")

\* Assignments and swap take part in overload resolution only when one of the
\* two types can be moved without a throw.
Assignable == Void \/ ~MayThrow("val", "move") \/ ~MayThrow("err", "move")

\* What lives in the storage of an object with the flag has: an expected<void,
\* E> has no object for its value.
KindOf(has) == IF ~has THEN "err" ELSE IF Void THEN "none" ELSE "val"

Raw == [alive |-> FALSE, has |-> FALSE, kind |-> "none", data |-> Moved, slips |-> {}]

\* A constructor, and a destructor, of the given kind run on the storage s.
Put(s, kind, d) ==
    [s EXCEPT !.kind = kind, !.data = IF kind = "none" THEN Moved ELSE d,
              !.slips = IF s.kind # "none" THEN @ \cup {"leak"} ELSE @]
Drop(s, kind) ==
    [s EXCEPT !.kind = "none", !.data = Moved,
              !.slips = IF s.kind # kind THEN @ \cup {"phantom"} ELSE @]

\* ~storage_base() goes by the flag.
Release(s) == [Drop(s, KindOf(s.has)) EXCEPT !.alive = FALSE]

\* construct(), construct_with() and construct_error() of operations_base.
Construct(s, has, d) == [Put(s, KindOf(has), d) EXCEPT !.has = has]

\* The outcomes of a call for the storage it works on.
Done(s) == [s |-> s, threw |-> FALSE]
Thrown(s) == [s |-> s, threw |-> TRUE]
ThrownIf(may, s) == IF may THEN {Thrown(s)} ELSE {}

\* An rvalue source after the call.
Source(s, way) ==
    IF way = "move" /\ s.kind # "none" THEN [s EXCEPT !.data = Moved] ELSE s

Quiet(s) == [s EXCEPT !.slips = {}]
Living(o) == obj[o].alive

\* Ends a call: new gives the storage of the objects it changed.
Return(op, this, rhs, threw, result, new) ==
    /\ call' = [op |-> op, this |-> this, rhs |-> rhs, threw |-> threw,
                result |-> result]
    /\ obj' = [o \in Objects |-> IF o \in DOMAIN new THEN new[o] ELSE Quiet(obj[o])]
    /\ UNCHANGED traits

-----------------------------------------------------------------------------
(* Constructors *)

\* The constructors that name the alternative (default, in_place, from a value,
\* from an unexpected, unexpect, the helpers of transform): one of the members
\* is initialised before the body, so a throw leaves nothing behind.
BuildAs(o, has, d) ==
    /\ ~Living(o)
    /\ \/ Return("build", o, o, FALSE, Moved,
                 [x \in {o} |-> [Construct(Raw, has, d) EXCEPT !.alive = TRUE]])
       \/ /\ KindOf(has) # "none" /\ MayThrow(KindOf(has), "copy")
          /\ Return("build", o, o, TRUE, Moved, [x \in {o} |-> Raw])

Build(o, has, d) == ~Void /\ BuildAs(o, has, d)
BuildVoid(o, has, d) == Void /\ BuildAs(o, has, d)

\* A constructor whose body fills the storage s of its own base classes: when
\* the body throws, the destructor of the base runs by the flag it finds.
BodyOutcomes(s, has, d, way) ==
    {Done([Construct(s, has, d) EXCEPT !.alive = TRUE])}
    \cup ThrownIf(KindOf(has) # "none" /\ MayThrow(KindOf(has), way),
                  Release(Quiet(s)))

\* The copy constructor and the move constructor: the base is told not to
\* initialise anything, with the flag false.
CopyConstruct(o, p) ==
    /\ ~Living(o) /\ Living(p)
    /\ \E r \in BodyOutcomes(Raw, obj[p].has, obj[p].data, "copy") :
          Return("construct", o, p, r.threw, Moved, [x \in {o} |-> r.s])

MoveConstruct(o, p) ==
    /\ ~Living(o) /\ Living(p)
    /\ \E r \in BodyOutcomes(Raw, obj[p].has, obj[p].data, "move") :
          Return("construct", o, p, r.threw, Moved,
                 [x \in {o, p} |-> IF x = o THEN r.s
                                   ELSE IF r.threw THEN Quiet(obj[p])
                                   ELSE Source(Quiet(obj[p]), "move")])

\* From an expected<U, G>: the base class is default constructed, which builds
\* a T, and the body constructs over it.
ConvertOutcomes(has, d) ==
    LET base == Construct(Raw, TRUE, Moved)
        \* a constructor that throws has ended the life of the T it was run over
        torn == [Drop(base, "val") EXCEPT !.slips = {"leak"}]
    IN  {Done([Construct(base, has, d) EXCEPT !.alive = TRUE])}
        \cup ThrownIf(MayThrow("val", "copy"), Raw)
        \cup ThrownIf(MayThrow(KindOf(has), "copy"), Release(torn))

Convert(o, has, d) ==
    /\ ~Void /\ ~Living(o)
    /\ \E r \in ConvertOutcomes(has, d) :
          Return("convert", o, o, r.threw, Moved, [x \in {o} |-> r.s])

\* The same of expected<void, E>, where the value is no object.
ConvertVoid(o, has, d) ==
    /\ Void /\ ~Living(o)
    /\ \E r \in BodyOutcomes(Construct(Raw, TRUE, Moved), has, d, "copy") :
          Return("convert", o, o, r.threw, Moved, [x \in {o} |-> r.s])

Destroy(o) ==
    /\ Living(o)
    /\ Return("destroy", o, o, FALSE, Moved, [x \in {o} |-> Release(Quiet(obj[o]))])

-----------------------------------------------------------------------------
(* Assignments *)

\* Mutant of Reinit: the new object is built over the old one.
ReinitOver(s, new, old, d, way) == {Done(Put(s, new, d))}

\* Mutant of Reinit: no guard brings the old object back.
ReinitUnguarded(s, new, old, d, way) ==
    {Done(Put(Drop(s, old), new, d))}
    \cup ThrownIf(MayThrow(new, way), Put(Drop(s, old), old, Moved))

\* reinit_expected(): replaces the object of kind old by one of kind new.
Reinit(s, new, old, d, way) ==
    LET replaced == Done(Put(Drop(s, old), new, d))
    IN  IF ~MayThrow(new, way) THEN {replaced}
        ELSE IF ~MayThrow(new, "move") THEN {Thrown(s), replaced}
        ELSE \* the old object waits in a temporary and the guard brings it back
             {Thrown(Put(Drop(s, old), old, s.data)), replaced}

\* The assignment operator of T or E itself, which may throw with any content left.
AssignContent(s, d, way) ==
    {Done([s EXCEPT !.data = d])}
    \cup IF MayThrow(s.kind, way) THEN {Thrown([s EXCEPT !.data = x]) : x \in {s.data, Moved}}
                                  ELSE {}

\* Mutant of Flagged: the flag keeps its value.
FlaggedNever(outcomes, has) == outcomes

Flagged(outcomes, has) ==
    {IF r.threw THEN r ELSE [r EXCEPT !.s.has = has] : r \in outcomes}

\* Gives the object the alternative has with the content d.
AssignValue(s, d, way) ==
    IF s.has THEN AssignContent(s, d, way) ELSE Flagged(Reinit(s, "val", "err", d, way), TRUE)
AssignUnexpected(s, d, way) ==
    IF ~s.has THEN AssignContent(s, d, way) ELSE Flagged(Reinit(s, "err", "val", d, way), FALSE)

\* The same of expected<void, E>: an error is built in the empty storage
\* before the flag is cleared, and destroyed before it is set.
AssignUnexpectedVoid(s, d, way) ==
    IF ~s.has THEN AssignContent(s, d, way)
    ELSE {Done(Construct(s, FALSE, d))} \cup ThrownIf(MayThrow("err", way), s)
EmplaceVoid(s) == IF s.has THEN s ELSE [Drop(s, "err") EXCEPT !.has = TRUE]

\* operator=(const expected &) and operator=(expected &&).
CopyAssign(s, q) ==
    CASE Void /\ q.has -> {Done(EmplaceVoid(s))}
      [] Void /\ ~q.has -> AssignUnexpectedVoid(s, q.data, "copy")
      [] ~Void /\ q.has -> AssignValue(s, q.data, "copy")
      [] OTHER -> AssignUnexpected(s, q.data, "copy")
MoveAssign(s, q) ==
    CASE Void /\ q.has -> {Done(EmplaceVoid(s))}
      [] Void /\ ~q.has -> AssignUnexpectedVoid(s, q.data, "move")
      [] ~Void /\ q.has -> AssignValue(s, q.data, "move")
      [] OTHER -> AssignUnexpected(s, q.data, "move")

\* (What is left of an object that is moved to itself is up to T and E.)
Assign(o, p, way) ==
    /\ Assignable /\ Living(o) /\ Living(p)
    /\ o = p => way = "copy"
    /\ \E r \in IF way = "copy" THEN CopyAssign(Quiet(obj[o]), obj[p])
                                ELSE MoveAssign(Quiet(obj[o]), obj[p]) :
          Return("assign", o, p, r.threw, Moved,
                 [x \in {o, p} |-> IF x = o THEN r.s
                                   ELSE IF r.threw THEN Quiet(obj[p])
                                   ELSE Source(Quiet(obj[p]), way)])

\* operator= from a value, from an unexpected<G>, lvalue or rvalue.
AssignFrom(o, has, d, way) ==
    /\ Assignable /\ Living(o)
    /\ Void => ~has
    /\ \E r \in IF Void THEN AssignUnexpectedVoid(Quiet(obj[o]), d, way)
                ELSE IF has THEN AssignValue(Quiet(obj[o]), d, way)
                ELSE AssignUnexpected(Quiet(obj[o]), d, way) :
          Return(IF has THEN "assign_value" ELSE "assign_error", o, o, r.threw, Moved, [x \in {o} |-> r.s])

\* emplace() exists only for arguments that T is built from without a throw.
Emplace(o, d) ==
    /\ Living(o)
    /\ LET s == Quiet(obj[o])
       IN  Return("emplace", o, o, FALSE, Moved,
                  [x \in {o} |-> IF Void THEN EmplaceVoid(s)
                                 ELSE Construct(Drop(s, KindOf(s.has)), TRUE, d)])

-----------------------------------------------------------------------------
(* swap() *)

Pair(a, b) == [a |-> a, b |-> b, threw |-> FALSE]
PairThrown(a, b) == [a |-> a, b |-> b, threw |-> TRUE]

\* std::swap of two contained objects of one kind: a move to a temporary and
\* two assignments, the second or third of which may throw.
SwapContents(a, b) ==
    {Pair([a EXCEPT !.data = b.data], [b EXCEPT !.data = a.data])}
    \cup IF MayThrow(a.kind, "move")
         THEN {PairThrown(a, b), PairThrown([a EXCEPT !.data = Moved], b),
               PairThrown([a EXCEPT !.data = b.data], [b EXCEPT !.data = Moved])}
         ELSE {}

\* Mutant of SwapAcross: the value is built from what has moved out already.
SwapAcrossStale(a, b) ==
    {Pair([Put(Drop(a, "val"), "err", b.data) EXCEPT !.has = FALSE],
          [Put(Drop(b, "err"), "val", Moved) EXCEPT !.has = TRUE])}

\* a holds a value, b an error.  The alternative that moves without a throw
\* waits in a temporary; a guard brings it back when the other one throws.
SwapAcross(a, b) ==
    LET swapped == Pair([Put(Drop(a, "val"), "err", b.data) EXCEPT !.has = FALSE],
                        [Put(Drop(b, "err"), "val", a.data) EXCEPT !.has = TRUE])
    IN  IF ~MayThrow("err", "move")
        THEN IF ~MayThrow("val", "move") THEN {swapped}
             ELSE {swapped, PairThrown(a, Put(Drop(b, "err"), "err", b.data))}
        ELSE {swapped, PairThrown(Put(Drop(a, "val"), "val", a.data), b)}

SwapValues(a, b) ==
    CASE a.has = b.has -> SwapContents(a, b)
      [] a.has /\ ~b.has -> SwapAcross(a, b)
      [] OTHER -> {[r EXCEPT !.a = r.b, !.b = r.a] : r \in SwapAcross(b, a)}

\* expected<void, E>: the error is built in the other object, then destroyed.
SwapAcrossVoid(a, b) ==
    {Pair(Construct(a, FALSE, b.data), [Drop(b, "err") EXCEPT !.has = TRUE])}
    \cup IF MayThrow("err", "move") THEN {PairThrown(a, b)} ELSE {}

SwapVoid(a, b) ==
    CASE a.has /\ b.has -> {Pair(a, b)}
      [] ~a.has /\ ~b.has -> SwapContents(a, b)
      [] a.has /\ ~b.has -> SwapAcrossVoid(a, b)
      [] OTHER -> {[r EXCEPT !.a = r.b, !.b = r.a] : r \in SwapAcrossVoid(b, a)}

Swap(o, p) ==
    /\ Assignable /\ o # p /\ Living(o) /\ Living(p)
    /\ \E r \in IF Void THEN SwapVoid(Quiet(obj[o]), Quiet(obj[p]))
                        ELSE SwapValues(Quiet(obj[o]), Quiet(obj[p])) :
          Return("swap", o, p, r.threw, Moved,
                 [x \in {o, p} |-> IF x = o THEN r.a ELSE r.b])

-----------------------------------------------------------------------------
(* Observers: value(), value_or() and error_or() *)

\* Returns a copy of what is held, or what is moved out of it.
HandOut(op, o, way) ==
    \/ Return(op, o, o, FALSE, obj[o].data, [x \in {o} |-> Source(Quiet(obj[o]), way)])
    \/ /\ MayThrow(obj[o].kind, way)
       /\ Return(op, o, o, TRUE, Moved, [x \in {o} |-> Quiet(obj[o])])

\* value() gives a reference to the value, or throws a bad_expected_access
\* that holds the error (result is then that error).
ValueThrows(o, way) ==
    /\ ~obj[o].has
    /\ \/ Return("value", o, o, TRUE, obj[o].data,
                 [x \in {o} |-> Source(Quiet(obj[o]), way)])
       \/ /\ MayThrow("err", way)
          /\ Return("value", o, o, TRUE, Moved, [x \in {o} |-> Quiet(obj[o])])
Value(o, way) ==
    /\ ~Void /\ Living(o)
    /\ \/ ValueThrows(o, way)
       \/ /\ obj[o].has
          /\ Return("value", o, o, FALSE, obj[o].data, [x \in {o} |-> Quiet(obj[o])])
ValueVoid(o, way) ==
    /\ Void /\ Living(o)
    /\ \/ ValueThrows(o, way)
       \/ /\ obj[o].has
          /\ Return("value", o, o, FALSE, Moved, [x \in {o} |-> Quiet(obj[o])])

\* The argument that is converted to T or E when there is nothing to hand out.
Instead(op, o, d) == Return(op, o, o, FALSE, d, [x \in {o} |-> Quiet(obj[o])])

ValueOr(o, d, way) ==
    /\ ~Void /\ Living(o)
    /\ IF obj[o].has THEN HandOut("value_or", o, way) ELSE Instead("value_or", o, d)
ErrorOr(o, d, way) ==
    /\ ~Void /\ Living(o)
    /\ IF obj[o].has THEN Instead("error_or", o, d) ELSE HandOut("error_or", o, way)
ErrorOrVoid(o, d, way) ==
    /\ Void /\ Living(o)
    /\ IF obj[o].has THEN Instead("error_or", o, d) ELSE HandOut("error_or", o, way)

-----------------------------------------------------------------------------
(* The monadic operations of p, whose result is the new object o.  The types  *)
(* U and G of the results are those of p here.                                *)

\* The alternative p does hold is passed on to the result.
PassOn(op, o, p, way) ==
    \/ Return(op, o, p, FALSE, Moved,
              [x \in {o, p} |->
                  IF x = o THEN [Construct(Raw, obj[p].has, obj[p].data) EXCEPT !.alive = TRUE]
                  ELSE Source(Quiet(obj[p]), way)])
    \/ /\ obj[p].kind # "none" /\ MayThrow(obj[p].kind, way)
       /\ Return(op, o, p, TRUE, Moved, [x \in {p} |-> Quiet(obj[p])])

\* The function is called.  It may throw, and it may take the content it is
\* given when that is an rvalue.  Its result has one of the given alternatives.
Invoke(op, o, p, way, alternatives, d) ==
    \E s \in {Quiet(obj[p]), Source(Quiet(obj[p]), way)} :
       \/ \E has \in alternatives :
             Return(op, o, p, FALSE, Moved,
                    [x \in {o, p} |-> IF x = o THEN [Construct(Raw, has, d) EXCEPT !.alive = TRUE]
                                      ELSE s])
       \/ Return(op, o, p, TRUE, Moved, [x \in {p} |-> s])

\* Chains on the value (f is called on the value) and on the error.
OnValue(op, o, p, way, alternatives, d) ==
    /\ ~Living(o) /\ Living(p)
    /\ IF obj[p].has THEN Invoke(op, o, p, way, alternatives, d) ELSE PassOn(op, o, p, way)
OnError(op, o, p, way, alternatives, d) ==
    /\ ~Living(o) /\ Living(p)
    /\ IF obj[p].has THEN PassOn(op, o, p, way) ELSE Invoke(op, o, p, way, alternatives, d)

AndThen(o, p, way, d) == ~Void /\ OnValue("and_then", o, p, way, BOOLEAN, d)
OrElse(o, p, way, d) == ~Void /\ OnError("or_else", o, p, way, BOOLEAN, d)
Transform(o, p, way, d) == ~Void /\ OnValue("transform", o, p, way, {TRUE}, d)
TransformError(o, p, way, d) == ~Void /\ OnError("transform_error", o, p, way, {FALSE}, d)

AndThenVoid(o, p, way, d) == Void /\ OnValue("and_then", o, p, way, BOOLEAN, d)
OrElseVoid(o, p, way, d) == Void /\ OnError("or_else", o, p, way, BOOLEAN, d)
TransformVoid(o, p, way, d) == Void /\ OnValue("transform", o, p, way, {TRUE}, d)
TransformErrorVoid(o, p, way, d) ==
    Void /\ OnError("transform_error", o, p, way, {FALSE}, d)

-----------------------------------------------------------------------------
Init ==
    /\ traits \in Traits
    /\ obj = [o \in Objects |-> Raw]
    /\ call \in {c \in Calls : c.op = "none" /\ c.rhs = c.this /\ ~c.threw /\ c.result = Moved}

Next ==
    \/ \E o \in Objects, has \in BOOLEAN, d \in Contents :
          Build(o, has, d) \/ BuildVoid(o, has, d) \/ Convert(o, has, d) \/ ConvertVoid(o, has, d)
    \/ \E o, p \in Objects :
          CopyConstruct(o, p) \/ MoveConstruct(o, p) \/ Swap(o, p) \/ \E way \in Ways : Assign(o, p, way)
    \/ \E o \in Objects, d \in Contents :
          Emplace(o, d) \/ \E has \in BOOLEAN, way \in Ways : AssignFrom(o, has, d, way)
    \/ \E o \in Objects : Destroy(o)
    \/ \E o \in Objects, d \in Contents, way \in Ways :
          \/ Value(o, way) \/ ValueVoid(o, way)
          \/ ValueOr(o, d, way) \/ ErrorOr(o, d, way) \/ ErrorOrVoid(o, d, way)
    \/ \E o, p \in Objects, d \in Contents, way \in Ways :
          \/ AndThen(o, p, way, d) \/ AndThenVoid(o, p, way, d)
          \/ OrElse(o, p, way, d) \/ OrElseVoid(o, p, way, d)
          \/ Transform(o, p, way, d) \/ TransformVoid(o, p, way, d)
          \/ TransformError(o, p, way, d) \/ TransformErrorVoid(o, p, way, d)

Spec == Init /\ [][Next]_vars

-----------------------------------------------------------------------------
(* Properties *)

\* operator==.
Equal(a, b) == a.has = b.has /\ a.data = b.data
EqualVoid(a, b) == a.has = b.has /\ (a.has \/ a.data = b.data)
Same(a, b) == IF Void THEN EqualVoid(a, b) ELSE Equal(a, b)

\* The flag m_has_val of a living object says what lives in its storage, after
\* every sequence of calls and exceptions, and a dead object leaves nothing in
\* it: else the destructor or an accessor works on an object that is not there.
Tracked ==
    \A o \in Objects :
        obj[o].kind = IF Living(o) THEN KindOf(obj[o].has) ELSE "none"

\* Every contained object is destroyed once, and only what was built is
\* destroyed.  Two groups of constructors are the exceptions: those from an
\* expected<U, G> build over the T of the default constructed base, and a copy
\* or move constructor that throws runs the destructor of an error that was
\* never built.
LifetimesPaired ==
    \A o \in Objects :
        obj[o].slips # {} =>
            \/ call.op = "convert" /\ ~Void
            \/ call.op = "construct" /\ call.threw /\ obj[o].slips = {"phantom"}

\* What the last call should have done, for the two properties below.
SameAlternative ==
    \/ call'.op \in {"assign", "swap"} /\ obj[call'.this].has = obj[call'.rhs].has
    \/ call'.op = "assign_value" /\ obj[call'.this].has
    \/ call'.op = "assign_error" /\ ~obj[call'.this].has
Skips ==
    \/ call'.op \in {"and_then", "transform"} /\ ~obj[call'.rhs].has
    \/ call'.op \in {"or_else", "transform_error"} /\ obj[call'.rhs].has

\* A constructor, an assignment or a swap that throws changes no object.  Only
\* where both sides hold the same alternative is the content left to the
\* assignment operator of T or E.
StrongGuarantee ==
    [][call'.threw /\ call'.op \in {"build", "convert", "construct", "assign",
                                    "assign_value", "assign_error", "swap"} =>
         \A o \in Objects :
            /\ obj'[o].alive = obj[o].alive
            /\ Living(o) => \/ Same(obj'[o], obj[o])
                            \/ SameAlternative /\ obj'[o].has = obj[o].has]_vars

\* A call that returns has handed over what it was given: a constructed or
\* assigned object equals its source, swapped objects have exchanged their
\* states, and the alternative that a monadic operation skips reaches its
\* result, on every path through the exception-safe code.
Transfers ==
    [][~call'.threw =>
         /\ call'.op \in {"construct", "assign", "swap"} \/ Skips
               => Same(obj'[call'.this], obj[call'.rhs])
         /\ call'.op = "swap" => Same(obj'[call'.rhs], obj[call'.this])]_vars

=============================================================================
