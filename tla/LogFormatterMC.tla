--------------------------- MODULE LogFormatterMC ---------------------------
(* Patterns for TLC, and the patterns an author writes on purpose. *)
EXTENDS LogFormatter, FiniteSets, SequencesExt

CONSTANT MaxLength   \* of the patterns with any characters

Letters == {"m", "p", "r", "t", "n", "d", "f", "l", "T", "x", "Y", "S"}

Characters == Letters \cup {"%", "{", "}", " ", "-", "[", "]", "<", ":", ">"}

Fields == Letters \ {"x", "Y", "S"}

(* A token is a text, a field, or a field with a format. *)
Text(str) == [kind |-> "text", str |-> str]
Plain(letter) == [kind |-> "field", str |-> <<"%", letter>>]
Braces(letter, fmt) ==
  [kind |-> "field", str |-> <<"%", letter, "{">> \o fmt \o <<"}">>]

Tokens == {Text(<<" ">>), Text(<<"m", "{">>), Text(<<"}", " ">>)}
            \cup {Plain(c) : c \in {"m", "p", "d", "T"}}
            \cup {Braces("d", <<>>), Braces("d", <<"%", "m", " ">>)}

Write(tokens) == FoldLeft(LAMBDA s, token : s \o token.str, <<>>, tokens)

(* The pattern of log.cpp 222, with its format shortened. *)
Default == <<Braces("d", <<"%", "Y", "-", "%", "m", " ", "%", "S">>), Plain("T"),
             Text(<<"[">>), Plain("p"), Text(<<"]">>), Plain("T"), Text(<<"<">>),
             Plain("f"), Text(<<":">>), Plain("l"), Text(<<">">>), Plain("T"),
             Plain("t"), Plain("T"), Plain("m"), Text(<<" ">>), Plain("n")>>

DefaultText == Write(Default)

Sequences == UNION {[1 .. n -> Tokens] : n \in 1 .. 3} \cup {Default}

(* Where the tokens stand in the pattern. *)
Places(tokens) ==
  [k \in DOMAIN tokens |->
     LET before == Len(Write(SubSeq(tokens, 1, k - 1)))
     IN [kind |-> tokens[k].kind, from |-> before + 1, to |-> before + Len(tokens[k].str)]]

MeantBy ==
  [p \in {Write(tokens) : tokens \in Sequences} |->
     {Places(tokens) : tokens \in {sequence \in Sequences : Write(sequence) = p}}]

Readings(p) == IF p \in DOMAIN MeantBy THEN MeantBy[p] ELSE {}

Short(chars) == UNION {[1 .. n -> chars] : n \in 0 .. MaxLength}

Patterns == Short({"%", "{", "}", "m", "x", " "}) \cup DOMAIN MeantBy

NewPatterns == {<<"%", "m">>, <<"%", "x", " ">>, <<>>}
=============================================================================
