----------------------------- MODULE JsonWriter -----------------------------
(***************************************************************************)
(* The JSON writer of sdd: a json_writer hands out json_writer_object and  *)
(* json_writer_array, which hand out others; all write to one stream       *)
(* through one json_writer_context.  Only the element opened last may      *)
(* write: each has a token, and the context keeps a stack of them.         *)
(*                                                                         *)
(* The program that uses the writers may call anything at any time; what   *)
(* is out of order throws json_writer_error.  A call is a step.            *)
(***************************************************************************)
EXTENDS Naturals, JsonText

CONSTANTS
  Writers,   \* the variables of the program that hold an object or an array
  Word,      \* 2^16: the values of a token
  NONE,      \* a writer without a context: closed, or moved from
  MaxText    \* bound: tokens of text

\* What the constants are.
WriterAssumption ==
  /\ Word \in Nat \ {0} /\ MaxText \in Nat
  /\ NONE \notin [kind : Kinds, token : 0 .. Word - 1, hasElement : BOOLEAN] \cup Writers

VARIABLES
  text,       \* what is in the stream
  stack,      \* context_ of the context
  next,       \* next_context_
  closed,     \* closed_
  populated,  \* root_populated_
  writer,     \* the state of each writer
  threw,      \* the last call threw json_writer_error
  dead,       \* why the program has ended, "no" while it runs
  owner,      \* history: the writers of the open elements, innermost last
  stray       \* history: a writer other than the innermost ever wrote

vars == <<text, stack, next, closed, populated, writer, threw, dead, owner, stray>>

State == [kind : Kinds, token : 0 .. Word - 1, hasElement : BOOLEAN]

\* token_ of the json_writer, the first that is registered
RootToken == 0

Init ==
  /\ text = << >>
  /\ stack = <<RootToken>> /\ next = 1 % Word
  /\ closed = FALSE /\ populated = FALSE
  /\ writer = [w \in Writers |-> NONE]
  /\ threw = FALSE /\ dead = "no"
  /\ owner = << >> /\ stray = FALSE

-----------------------------------------------------------------------------

\* The test of write(), register_context() and unregister_context(); a closed
\* context is looked at first.
IsTop(token) == stack # << >> /\ Last(stack) = token

\* The first write() of a call throws.
Throw ==
  /\ threw' = TRUE
  /\ UNCHANGED <<text, stack, next, closed, populated, writer, dead, owner, stray>>

\* write() of some tokens by w; a closed context takes no text.
Write(w, tokens) ==
  IF closed THEN UNCHANGED <<text, stray>>
  ELSE /\ Len(text) + Len(tokens) <= MaxText
       /\ text' = text \o tokens
       /\ stray' = (stray \/ Last(owner) # w)

\* What write_new_field() writes, and what follows it.
Field(w, more) ==
  (IF writer[w].hasElement THEN <<",">> ELSE << >>)
  \o (IF writer[w].kind = "object" THEN <<"key">> ELSE << >>) \o more

\* write_value() and write_null()
WriteValue(w) ==
  /\ writer[w] # NONE
  /\ IF ~closed /\ ~IsTop(writer[w].token) THEN Throw
     ELSE /\ Write(w, Field(w, <<"value">>))
          /\ writer' = [writer EXCEPT ![w].hasElement = TRUE]
          /\ threw' = FALSE
          /\ UNCHANGED <<stack, next, closed, populated, dead, owner>>

\* register_context(), and the writer x it is for
Register(x, kind) ==
  /\ stack' = Append(stack, next)
  /\ next' = (next + 1) % Word
  /\ owner' = Append(owner, x)
  /\ threw' = FALSE
  /\ UNCHANGED <<closed, dead>>

New(kind) == [kind |-> kind, token |-> next, hasElement |-> FALSE]

\* Mutant of WriteElement: the token is not looked at when an element begins.
WriteElementUnchecked(w, x, kind) ==
  /\ writer[w] # NONE /\ writer[x] = NONE /\ ~closed
  /\ Write(w, Field(w, <<Opener(kind)>>))
  /\ writer' = [writer EXCEPT ![w].hasElement = TRUE, ![x] = New(kind)]
  /\ Register(x, kind)
  /\ UNCHANGED populated

\* write_object() and write_array() of an element, into the variable x.  Once
\* the context is closed the field is dropped and register_context() throws.
WriteElement(w, x, kind) ==
  /\ writer[w] # NONE /\ writer[x] = NONE
  /\ IF closed
       THEN /\ threw' = TRUE
            /\ writer' = [writer EXCEPT ![w].hasElement = TRUE]
            /\ UNCHANGED <<text, stack, next, closed, populated, dead, owner, stray>>
     ELSE IF ~IsTop(writer[w].token) THEN Throw
     ELSE /\ Write(w, Field(w, <<Opener(kind)>>))
          /\ writer' = [writer EXCEPT ![w].hasElement = TRUE, ![x] = New(kind)]
          /\ Register(x, kind)
          /\ UNCHANGED populated

\* write_object() and write_array() of the json_writer
WriteRoot(x, kind) ==
  /\ writer[x] = NONE
  /\ IF populated THEN Throw
     ELSE /\ populated' = TRUE
          /\ IF closed \/ ~IsTop(RootToken)
               THEN /\ threw' = TRUE
                    /\ UNCHANGED <<text, stack, next, closed, writer, dead, owner, stray>>
               ELSE /\ Len(text) < MaxText
                    /\ text' = Append(text, Opener(kind))
                    /\ writer' = [writer EXCEPT ![x] = New(kind)]
                    /\ Register(x, kind)
                    /\ UNCHANGED stray

\* Mutant of CloseElement: the writer keeps its context.
CloseElementKeeps(w) ==
  /\ Write(w, <<Closer(writer[w].kind)>>)
  /\ stack' = IF closed THEN stack ELSE Front(stack)
  /\ owner' = IF closed THEN SelectSeq(owner, LAMBDA x : x # w) ELSE Front(owner)
  /\ threw' = FALSE
  /\ UNCHANGED <<next, closed, populated, writer, dead>>

\* close() of an element whose writer has a context, when it does not throw.
CloseElement(w) ==
  /\ Write(w, <<Closer(writer[w].kind)>>)
  /\ stack' = IF closed THEN stack ELSE Front(stack)
  /\ owner' = IF closed THEN SelectSeq(owner, LAMBDA x : x # w) ELSE Front(owner)
  /\ writer' = [writer EXCEPT ![w] = NONE]
  /\ threw' = FALSE
  /\ UNCHANGED <<next, closed, populated, dead>>

\* close() of w has an effect and does not throw.
Closes(w) == writer[w] # NONE /\ (closed \/ IsTop(writer[w].token))

\* close(); for the second time it does nothing.
Close(w) ==
  \/ Closes(w) /\ CloseElement(w)
  \/ writer[w] # NONE /\ ~Closes(w) /\ Throw
  \/ writer[w] = NONE /\ threw' = FALSE
       /\ UNCHANGED <<text, stack, next, closed, populated, writer, dead, owner, stray>>

\* The destructor: close(), but no exception leaves it: std::terminate().  The
\* reason tells whether an element inside this one was still open.
Destroy(w) ==
  \/ Closes(w) /\ CloseElement(w)
  \/ /\ writer[w] # NONE /\ ~Closes(w)
     /\ dead' = IF w \in ToSet(owner) /\ Last(owner) # w THEN "early" ELSE "unwinding"
     /\ UNCHANGED <<text, stack, next, closed, populated, writer, threw, owner, stray>>

\* The defaulted move, by construction or by assignment; the element of a
\* variable that is assigned to is dropped and never closed.
Move(w, x) ==
  /\ w # x /\ writer[w] # NONE
  /\ writer' = [writer EXCEPT ![x] = writer[w], ![w] = NONE]
  /\ owner' = [k \in DOMAIN owner |->
                 IF owner[k] = w THEN x
                 ELSE IF owner[k] = x THEN NONE ELSE owner[k]]
  /\ threw' = FALSE
  /\ UNCHANGED <<text, stack, next, closed, populated, dead, stray>>

\* close() of the json_writer, or its destructor
CloseRoot ==
  /\ closed' = TRUE
  /\ threw' = FALSE
  /\ UNCHANGED <<text, stack, next, populated, writer, dead, owner, stray>>

Call ==
  \/ \E x \in Writers, kind \in Kinds : WriteRoot(x, kind)
  \/ \E w \in Writers : WriteValue(w)
  \/ \E w, x \in Writers, kind \in Kinds : WriteElement(w, x, kind)
  \/ \E w \in Writers : Close(w)
  \/ \E w \in Writers : Destroy(w)
  \/ \E w, x \in Writers : Move(w, x)
  \/ CloseRoot

Next == \/ dead = "no" /\ Call
        \/ dead # "no" /\ UNCHANGED vars

Spec == Init /\ [][Next]_vars

-----------------------------------------------------------------------------

\* Every variable has its type, and nothing is written before there is a root.
TypeOK ==
  /\ text \in Seq({"{", "}", "[", "]", ",", "key", "value"})
  /\ stack \in Seq(0 .. Word - 1) /\ next \in 0 .. Word - 1
  /\ {closed, populated, threw, stray} \subseteq BOOLEAN
  /\ populated \/ text = << >>
  /\ writer \in [Writers -> State \cup {NONE}]
  /\ dead \in {"no", "early", "unwinding"}
  /\ owner \in Seq(Writers \cup {NONE})

\* Whatever is called in whatever order, with calls that throw in between: what
\* is in the stream is the beginning of a document.
WellFormed == Valid(text)

\* "if object 1 starts writing an object/array, resulting in object 2 coming in
\* scope, then trying to write another object/array from 1 while 2 is active
\* results in an error": only the innermost open element ever writes.
OnlyInnermostWrites == ~stray

\* The context and the writers agree, through moves and calls that throw: the
\* token of every open element is where its depth puts it.
StackMatches ==
  ~closed => /\ Len(stack) = Len(owner) + 1
             /\ \A k \in DOMAIN owner :
                  owner[k] # NONE => writer[owner[k]].token = stack[k + 1]

\* The destructor of an element that is closed, or of the innermost open one,
\* never ends the program: the writers of a scope can be unwound, whatever was
\* thrown before and even when the json_writer is closed.
UnwindingSafe == dead # "unwinding"

\* When all elements are closed, the document is complete.
CompleteWhenClosed ==
  populated /\ ~closed /\ owner = << >> => Complete(text)

\* The writers are in step with the text: what they write stays the beginning of
\* a document, only the innermost element writes, and the context knows which.
InStep == WellFormed /\ OnlyInnermostWrites /\ StackMatches

\* Elements may be closed by hand or by the unwinding of a scope: the document is
\* complete, and the program does not end.
ClosesSafely == UnwindingSafe /\ CompleteWhenClosed

=============================================================================
