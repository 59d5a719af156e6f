------------------------------ MODULE JsonText ------------------------------
(***************************************************************************)
(* The grammar of RFC 7159 as a reader of tokens, for documents whose root *)
(* is an object or an array.  A key and a value are one token each.        *)
(***************************************************************************)
EXTENDS SequencesExt

Kinds == {"object", "array"}

Opener(kind) == IF kind = "object" THEN "{" ELSE "["
Closer(kind) == IF kind = "object" THEN "}" ELSE "]"

\* What a reader has seen: the kinds of the open elements, innermost last, and
\* what may follow.
Start == [open |-> << >>, expect |-> "root"]
Bad == [open |-> << >>, expect |-> "nothing valid"]

\* An element is complete.
After(open) == [open |-> open,
                expect |-> IF open = << >> THEN "end" ELSE "comma or close"]

Read(at, token) ==
  CASE /\ token \in {"{", "["}
       /\ \/ at.expect \in {"root", "value"}
          \/ at.expect = "first" /\ Last(at.open) = "array" ->
         [open |-> Append(at.open, IF token = "{" THEN "object" ELSE "array"),
          expect |-> "first"]
    [] /\ token \in {"}", "]"}
       /\ at.expect \in {"first", "comma or close"}
       /\ token = Closer(Last(at.open)) -> After(Front(at.open))
    [] token = "," /\ at.expect = "comma or close" ->
         [at EXCEPT !.expect = IF Last(at.open) = "object" THEN "key" ELSE "value"]
    [] /\ token = "key"
       /\ \/ at.expect = "key"
          \/ at.expect = "first" /\ Last(at.open) = "object" ->
         [at EXCEPT !.expect = "value"]
    [] /\ token = "value"
       /\ \/ at.expect = "value"
          \/ at.expect = "first" /\ Last(at.open) = "array" -> After(at.open)
    [] OTHER -> Bad

Reading(text) == FoldLeft(Read, Start, text)

\* The text is, or can be continued to, a document.
Valid(text) == Reading(text) # Bad

\* The text is a document.
Complete(text) == Reading(text).expect = "end"

=============================================================================
