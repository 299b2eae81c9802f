---------------------------- MODULE LogFormatter ----------------------------
(***************************************************************************)
(* LogFormatter (src/src/log.cpp 107-353, log.hpp 124-151): the parser of  *)
(* the patterns that say what a line of a log shows.                       *)
(*                                                                         *)
(* A pattern is a sequence of characters.  A piece of it that the parser   *)
(* copies is the set of its positions: the code appends characters and     *)
(* takes substrings from left to right only, so the set tells the string.  *)
(* The index i of the code starts at 0, here at 1.                         *)
(*                                                                         *)
(* One step is one iteration of the loop over the pattern; the inner loop, *)
(* which looks for the end of one directive, is the operators NameEnd and  *)
(* Close.                                                                  *)
(*                                                                         *)
(* A definition named "...Mutant" is the code with one mistake in it; no   *)
(* specification uses it.                                                  *)
(***************************************************************************)
EXTENDS Naturals, Sequences

CONSTANTS
  Char,            \* the characters of patterns
  Percent, Open, Shut,   \* among them, % and the two braces
  Letter,          \* those that isalpha accepts
  Field,           \* the letters that s_format_items has a class for
  Pattern,         \* the patterns given to the constructor
  DefaultPattern,  \* the pattern of a formatter that is given none
  NewPattern,      \* the patterns given to setPattern
  Meant(_),        \* what the author of a pattern may have meant by it
  MaxParses        \* bound on the patterns one formatter parses

ASSUME PatternAssumption ==
  /\ Letter \subseteq Char /\ Field \subseteq Letter /\ Letter \cap {Percent, Open, Shut} = {}
  /\ {Percent, Open, Shut} \subseteq Char /\ Percent \notin {Open, Shut} /\ Open # Shut
  /\ Pattern \cup NewPattern \cup {DefaultPattern} \subseteq Seq(Char)
  /\ MaxParses \in Nat

VARIABLES
  m_pattern,
  i,         \* the next character of m_pattern
  text,      \* the characters copied that are in no entry of vec yet
  vec,       \* the pieces found: their kind, their text or name, their format
  m_items,   \* what they have become
  m_error,
  pc,        \* "parse" or "ready"
  parses     \* the patterns parsed

vars == <<m_pattern, i, text, vec, m_items, m_error, pc, parses>>

(* The constructor; an empty pattern stands for the default one. *)
Init ==
  /\ \E p \in Pattern : m_pattern = IF p = <<>> THEN DefaultPattern ELSE p
  /\ i = 1 /\ text = {} /\ vec = <<>>
  /\ m_items = <<>> /\ m_error = FALSE
  /\ pc = "parse" /\ parses = 1

Size == Len(m_pattern)

Piece(kind, str, fmt) == [kind |-> kind, str |-> str, fmt |-> fmt]

(* The text copied so far becomes an entry, unless there is none. *)
Flushed == IF text = {} THEN vec ELSE Append(vec, Piece("text", text, {}))

-----------------------------------------------------------------------------
(* parse *)

Reads(first) == pc = "parse" /\ i <= Size /\ (m_pattern[i] = Percent) = first

(* A character that starts no directive, or a % before another one: the     *)
(* first % is copied, and the second is the next character.                 *)
Doubled == i < Size /\ m_pattern[i + 1] = Percent

Copy ==
  /\ text' = text \cup {i} /\ i' = i + 1
  /\ UNCHANGED <<m_pattern, vec, m_items, m_error, pc, parses>>

Literal == Reads(FALSE) /\ Copy

DoublePercent == Reads(TRUE) /\ Doubled /\ Copy

Least(S, none) == IF S = {} THEN none ELSE CHOOSE n \in S : \A k \in S : n <= k

(* Where the inner loop leaves a name: letters and closing braces go on.    *)
NameEnd == Least({n \in i + 1 .. Size : m_pattern[n] \notin Letter \cup {Shut}}, Size + 1)

Braced == NameEnd <= Size /\ m_pattern[NameEnd] = Open

Close == Least({n \in NameEnd + 1 .. Size : m_pattern[n] = Shut}, Size + 1)

Directive == Reads(TRUE) /\ ~Doubled

Found(str, fmt, next) ==
  /\ vec' = Append(Flushed, Piece("field", str, fmt))
  /\ text' = {} /\ i' = next
  /\ UNCHANGED <<m_pattern, m_items, m_error, pc, parses>>

NameStopsMutant ==
  Directive /\ ~Braced /\ NameEnd <= Size /\ Found(i + 1 .. NameEnd - 1, {}, NameEnd + 1)

(* A character that is no letter and no brace ends the name. *)
NameStops ==
  Directive /\ ~Braced /\ NameEnd <= Size /\ Found(i + 1 .. NameEnd - 1, {}, NameEnd)

(* The pattern ends in the name, of which only the last character is taken. *)
NameAtEnd ==
  Directive /\ NameEnd > Size /\ Found({Size} \ {i}, {}, Size + 1)

FormatFoundMutant ==
  /\ Directive /\ Braced /\ Close <= Size
  /\ Found(i + 1 .. NameEnd - 1, NameEnd + 1 .. Close - 1, Close)

(* The format is what is between the braces. *)
FormatFound ==
  /\ Directive /\ Braced /\ Close <= Size
  /\ Found(i + 1 .. NameEnd - 1, NameEnd + 1 .. Close - 1, Close + 1)

UnclosedMutant ==
  /\ Directive /\ Braced /\ Close > Size
  /\ vec' = Append(vec, Piece("unclosed", {}, {}))
  /\ m_error' = TRUE
  /\ UNCHANGED <<m_pattern, i, text, m_items, pc, parses>>

(* A brace that is not closed: the error comes before the text that is      *)
(* waiting, and the characters after the % are read as any others.          *)
Unclosed ==
  /\ Directive /\ Braced /\ Close > Size
  /\ vec' = Append(vec, Piece("unclosed", {}, {}))
  /\ m_error' = TRUE /\ i' = i + 1
  /\ UNCHANGED <<m_pattern, text, m_items, pc, parses>>

(* s_format_items, which has names of one letter. *)
Known(piece) == \E n \in piece.str : piece.str = {n} /\ m_pattern[n] \in Field

Item(piece) ==
  LET known == piece.kind = "field" /\ Known(piece)
  IN [ kind |-> IF piece.kind = "field" /\ ~known THEN "unknown" ELSE piece.kind,
       letter |-> IF known THEN m_pattern[CHOOSE n \in piece.str : TRUE] ELSE "none" ]

Built(pieces) == m_items \o [k \in DOMAIN pieces |-> Item(pieces[k])]

Unknown(pieces) == \E k \in DOMAIN pieces : Item(pieces[k]).kind = "unknown"

ParseEndMutant ==
  /\ pc = "parse" /\ i > Size
  /\ vec' = Flushed /\ text' = {}
  /\ m_items' = Built(Flushed)
  /\ m_error' = Unknown(Flushed)
  /\ pc' = "ready"
  /\ UNCHANGED <<m_pattern, i, parses>>

(* The rest of the text, and the loop that makes items of the entries. *)
ParseEnd ==
  /\ pc = "parse" /\ i > Size
  /\ vec' = Flushed /\ text' = {}
  /\ m_items' = Built(Flushed)
  /\ m_error' = (m_error \/ Unknown(Flushed))
  /\ pc' = "ready"
  /\ UNCHANGED <<m_pattern, i, parses>>

(* setPattern keeps the items and the error of the patterns before. *)
SetPattern ==
  /\ pc = "ready" /\ parses < MaxParses
  /\ m_pattern' \in NewPattern
  /\ i' = 1 /\ text' = {} /\ vec' = <<>>
  /\ pc' = "parse" /\ parses' = parses + 1
  /\ UNCHANGED <<m_items, m_error>>

Parse == Literal \/ DoublePercent \/ NameStops \/ NameAtEnd \/ FormatFound \/ Unclosed \/ ParseEnd

Finished == pc = "ready" /\ parses = MaxParses /\ UNCHANGED vars

Next == Parse \/ SetPattern \/ Finished

Spec == Init /\ [][Next]_vars

(* parse is a loop in one thread: it goes on until it ends. *)
FairSpec == Spec /\ WF_vars(Parse)
-----------------------------------------------------------------------------
(* format *)

(* What the macros hand to the parameters of LogEvent: the parameters are  *)
(* threadID, fiberID, elapse, time, the arguments 0, the thread, the fiber *)
(* and the time, so that each of the first three gets its neighbour's.     *)
Event == [content |-> "message", filename |-> "file", line |-> "line",
          threadID |-> "zero", fiberID |-> "thread", elapse |-> "fiber", time |-> "time"]

(* The format functions of the items; the thread is asked for by %t itself. *)
Shown(letter, level) ==
  CASE letter = "m" -> Event.content
    [] letter = "p" -> level
    [] letter = "r" -> Event.elapse
    [] letter = "t" -> "thread"
    [] letter = "n" -> "newline"
    [] letter = "d" -> Event.time
    [] letter = "f" -> Event.filename
    [] letter = "l" -> Event.line
    [] letter = "T" -> "tab"
    [] OTHER -> "error"

(* The parts of a line; the level is that of the logger, read once. *)
Line(level) ==
  [k \in DOMAIN m_items |->
     IF m_items[k].kind = "text" THEN "text" ELSE Shown(m_items[k].letter, level)]
-----------------------------------------------------------------------------
(* Properties *)

Span(piece) == piece.str \cup piece.fmt

Copied == text \cup UNION {Span(vec[k]) : k \in DOMAIN vec}

(* The letters of a name of two or more that ends the pattern. *)
InLastName(n) ==
  \E s \in 1 .. n - 1 :
    m_pattern[s] = Percent /\ \A k \in s + 1 .. Size : m_pattern[k] \in Letter \cup {Shut}

(* What the parser has read it has put into the pieces, in order and once:  *)
(* those that came first in the pattern come first in the line, and the     *)
(* only characters in none of them are the %, { and } of directives and the *)
(* first letters of a name that ends the pattern (log.cpp 273-276).         *)
SpelledOut ==
  /\ \A k, l \in DOMAIN vec : k < l =>
       \A p \in Span(vec[k]), q \in Span(vec[l]) : p < q
  /\ \A k \in DOMAIN vec : \A p \in Span(vec[k]), q \in text : p < q
  /\ Copied \subseteq 1 .. i - 1
  /\ \A n \in (1 .. i - 1) \ Copied :
       m_pattern[n] \in {Percent, Open, Shut} \/ InLastName(n)

(* isError() tells those who set a pattern whether it was understood: it is *)
(* true if and only if some line will show an error text.                   *)
ErrorMarked ==
  pc = "ready" =>
    (m_error <=> \E k \in DOMAIN m_items : m_items[k].kind \in {"unknown", "unclosed"})

(* A pattern written on purpose is a sequence of texts and fields, which   *)
(* have places in it.                                                      *)
Segment == [kind : {"text", "field"}, from : Nat, to : Nat]

IsText(s) == s.from <= s.to /\ \A n \in s.from .. s.to : m_pattern[n] # Percent

(* %d, or %d{...} with any format that has no closing brace. *)
HasFormat(s) ==
  /\ s.from + 3 <= s.to /\ m_pattern[s.from + 2] = Open /\ m_pattern[s.to] = Shut
  /\ \A n \in s.from + 3 .. s.to - 1 : m_pattern[n] # Shut

IsField(s) ==
  /\ s.from < s.to /\ m_pattern[s.from] = Percent /\ m_pattern[s.from + 1] \in Field
  /\ s.to = s.from + 1 \/ HasFormat(s)

(* Two texts in a row are one, and a field with no format must not be       *)
(* followed by a text that its name would take in.                          *)
Separate(s, next) ==
  next.kind = "text" =>
    s.kind = "field" /\ (HasFormat(s) \/ m_pattern[next.from] \notin Letter \cup {Open, Shut})

Begin(reading, k) == IF k <= Len(reading) THEN reading[k].from ELSE Size + 1

(* The texts and fields make up the pattern.                                *)
Means(reading) ==
  /\ reading \in Seq(Segment)
  /\ Begin(reading, 1) = 1
  /\ \A k \in DOMAIN reading :
       /\ IF reading[k].kind = "text" THEN IsText(reading[k]) ELSE IsField(reading[k])
       /\ reading[k].to <= Size /\ reading[k].to + 1 = Begin(reading, k + 1)
       /\ k < Len(reading) => Separate(reading[k], reading[k + 1])

(* The entry that the parser should make of a text or a field.              *)
ReadAs(s) ==
  IF s.kind = "text" THEN Piece("text", s.from .. s.to, {})
  ELSE Piece("field", {s.from + 1}, s.from + 3 .. s.to - 1)

(* What the comment at log.cpp 290-300 says of the fields.  It says elapse *)
(* of %r too, for which the line shows the fiber (Event).                  *)
Meaning == [m |-> "message", p |-> "level", t |-> "thread", n |-> "newline", d |-> "time",
            f |-> "file", l |-> "line", T |-> "tab"]

(* The parts of a line for this reading, each field as the comment says.    *)
ShownAs(reading) ==
  /\ DOMAIN Line("level") = DOMAIN reading
  /\ \A k \in DOMAIN reading :
       LET letter == m_pattern[reading[k].from + 1] IN
       IF reading[k].kind = "text" THEN Line("level")[k] = "text"
       ELSE letter \in DOMAIN Meaning => Line("level")[k] = Meaning[letter]

AsMeant(reading) ==
  /\ vec = [k \in DOMAIN reading |-> ReadAs(reading[k])]
  /\ parses = 1 => ShownAs(reading)

(* A pattern put together from fields and texts that do not run into each   *)
(* other is read as these fields and texts, and the line shows for each     *)
(* field but %r what the comment in parse says.  Nothing is said of texts   *)
(* with a percent sign, for which PercentEscaped fails, and of a field      *)
(* without a format that a letter or a brace follows, which its name takes  *)
(* in: the name is then not known, or cut short at the end of the pattern.  *)
ReadsMeant ==
  pc = "ready" =>
    \A reading \in Meant(m_pattern) : Means(reading) => AsMeant(reading)

(* A percent sign is written as two ("For '%'", log.cpp 240): a pattern with *)
(* these two and no other is one text, with one of them.                     *)
PercentEscaped ==
  pc = "ready" =>
    \A n \in 1 .. Size - 1 :
      {k \in 1 .. Size : m_pattern[k] = Percent} = {n, n + 1} =>
        vec = <<Piece("text", (1 .. Size) \ {n + 1}, {})>>

(* The loop cannot go round for ever, although it moves its index itself:  *)
(* each step of it passes at least one character.                          *)
ParseAdvances == [][pc = "parse" /\ pc' = "parse" => i < i' /\ i' <= Size + 1]_vars
=============================================================================
