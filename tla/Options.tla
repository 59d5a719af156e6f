------------------------------- MODULE Options -------------------------------
(****************************************************************************)
(* The parser of command lines, ubench::options (options.cpp): what a       *)
(* string of options says of each letter, and the options and arguments     *)
(* that a list of words has by it.                                          *)
(*                                                                          *)
(* A word is a sequence of characters, which are strings of length one.     *)
(****************************************************************************)
EXTENDS Naturals, Sequences, SequencesExt

CONSTANT Letters    \* the characters is_valid_opt() takes: isalnum() and ?

\* build_option_map(): the letters of the string, "single" or, before a colon,
\* "required"; the last one counts when a letter comes twice.  An invalid
\* character throws, and there is no map.
RECURSIVE build_option_map(_, _)
build_option_map(string, map) ==
    IF string = <<>> THEN {map}
    ELSE LET required == Len(string) > 1 /\ string[2] = ":"
             value == IF required THEN "required" ELSE "single"
         IN  IF Head(string) \notin Letters THEN {}
             ELSE build_option_map(SubSeq(string, IF required THEN 3 ELSE 2, Len(string)),
                                   [map EXCEPT ![Head(string)] = value])
OptionMap(string) == build_option_map(string, [c \in Letters |-> "not_defined"])

Entry(c, kind, value) == [opt |-> c, kind |-> kind, value |-> value]

\* Mutant of Cluster: an option that is not known ends its word.
ClusterCut(map, word, pos, next) ==
    LET entry == Entry(word[pos], IF word[pos] \notin Letters THEN "unexpected" ELSE "flag", <<>>)
    IN  IF pos > Len(word) THEN [entries |-> <<>>, took |-> FALSE]
        ELSE [entries |-> <<entry>>, took |-> FALSE]

\* The options of a word from its character at pos on; next is the word after
\* it, if any, which the last option of the word may take as its argument.
RECURSIVE Cluster(_, _, _, _)
Cluster(map, word, pos, next) ==
    LET c == word[pos]
        go(entry) == LET rest == Cluster(map, word, pos + 1, next)
                     IN  [rest EXCEPT !.entries = <<entry>> \o @]
        stop(entry, took) == [entries |-> <<entry>>, took |-> took]
    IN  IF pos > Len(word) THEN [entries |-> <<>>, took |-> FALSE]
        ELSE IF c \notin Letters THEN go(Entry(c, "unexpected", <<>>))
        ELSE IF map[c] = "not_defined" THEN go(Entry(c, "unexpected", <<>>))
        ELSE IF map[c] = "single" THEN go(Entry(c, "flag", <<>>))
        ELSE IF pos < Len(word) THEN stop(Entry(c, "argument", SubSeq(word, pos + 1, Len(word))), FALSE)
        ELSE IF next = <<>> THEN stop(Entry(c, "missing", <<>>), FALSE)
        ELSE stop(Entry(c, "argument", Head(next)), TRUE)

\* parse_options(): words that start with a dash are options, until a word
\* that does not, a dash alone, or two dashes, which is dropped.
RECURSIVE parse_options(_, _)
parse_options(map, words) ==
    IF words = <<>> THEN [args |-> <<>>, user |-> <<>>]
    ELSE LET word == Head(words)
             cluster == Cluster(map, word, 2, Tail(words))
             rest == IF cluster.took THEN Tail(Tail(words)) ELSE Tail(words)
             parsed == parse_options(map, rest)
         IN  IF word = <<"-", "-">> THEN [args |-> <<>>, user |-> Tail(words)]
             ELSE IF Len(word) < 2 \/ Head(word) # "-" THEN [args |-> <<>>, user |-> words]
             ELSE [parsed EXCEPT !.args = cluster.entries \o @]

-----------------------------------------------------------------------------
(* What it promises *)

\* The plainest spelling of a result: each option in a word of its own, with
\* its argument behind it, and two dashes before what is left.
Spelled(entry) ==
    IF entry.kind = "argument" /\ entry.value # <<>> THEN <<<<"-", entry.opt>> \o entry.value>>
    ELSE IF entry.kind = "argument" THEN <<<<"-", entry.opt>>, <<>>>>
    ELSE <<<<"-", entry.opt>>>>
Spelling(result) ==
    FlattenSeq([i \in DOMAIN result.args |-> Spelled(result.args[i])])
        \o IF \E i \in DOMAIN result.args : result.args[i].kind = "missing" THEN <<>>
           ELSE <<<<"-", "-">>>> \o result.user

\* The characters of words, without those that say what is an option.
Characters(words) == SelectSeq(FlattenSeq(words), LAMBDA c : c # "-")

\* However options are put together in words, and wherever an argument stands,
\* the result is the one of the plainest spelling, and that has the characters
\* of the words: no option, argument or word is lost, invented or moved.  A dash
\* inside of a word is the one character that cannot stand alone.  An argument
\* that is missing ends the line.
OptionsRight(string, words) ==
    \A map \in OptionMap(string) :
        LET result == parse_options(map, words)
        IN  /\ (\A i \in DOMAIN result.args : result.args[i].opt # "-") =>
                  parse_options(map, Spelling(result)) = result
            /\ Characters(Spelling(result)) = Characters(words)
            /\ \A i \in DOMAIN result.args : result.args[i].kind = "missing" =>
                  i = Len(result.args) /\ result.user = <<>>
            /\ IsSuffix(result.user, words)
=============================================================================
