------------------------- MODULE LogFormatterProofs -------------------------
(***************************************************************************)
(* What parse guarantees for patterns of any length over any characters.   *)
(***************************************************************************)
EXTENDS LogFormatter, SequenceTheorems, WellFoundedInduction, TLAPS

USE DEF vars

Pieces == [kind : {"text", "field", "unclosed"}, str : SUBSET Nat, fmt : SUBSET Nat]

Items == [kind : {"text", "field", "unclosed", "unknown"}, letter : Char \cup {"none"}]

TypeOK ==
  /\ m_pattern \in Seq(Char)
  /\ i \in 1 .. Size + 1
  /\ text \in SUBSET Nat
  /\ vec \in Seq(Pieces)
  /\ m_items \in Seq(Items)
  /\ m_error \in BOOLEAN
  /\ pc \in {"parse", "ready"}
  /\ parses \in Nat

(* The pieces are in the order of the pattern.                              *)
Ordered(pieces) ==
  \A k, l \in DOMAIN pieces : k < l =>
    \A p \in Span(pieces[k]), q \in Span(pieces[l]) : p < q

(* The positions that are in the pieces.                                    *)
Spans(pieces) == UNION {Span(pieces[k]) : k \in DOMAIN pieces}

Faulty(items) == \E k \in DOMAIN items : items[k].kind \in {"unknown", "unclosed"}

Waiting(pieces) == \E k \in DOMAIN pieces : pieces[k].kind = "unclosed"

(* An error has an item that says so, or will have one when parse ends.     *)
Marked ==
  /\ pc = "parse" => (m_error <=> Faulty(m_items) \/ Waiting(vec))
  /\ pc = "ready" => (m_error <=> Faulty(m_items))

Inv == TypeOK /\ SpelledOut /\ Marked
-----------------------------------------------------------------------------
(* The end of a directive *)

LEMMA LeastIs ==
  ASSUME NEW S, S \subseteq Nat, NEW none
  PROVE  \/ S = {} /\ Least(S, none) = none
         \/ S # {} /\ Least(S, none) \in S /\ \A n \in S : Least(S, none) <= n
<1>1. CASE S = {}
  BY <1>1 DEF Least
<1>2. CASE S # {}
  <2>1. \E n \in S : \A k \in S : n <= k
    <3>1. PICK n \in S : \A k \in S : <<k, n>> \notin OpToRel(<, Nat)
      BY <1>2, NatLessThanWellFounded, WFMin
    <3>2. n \in Nat /\ \A k \in S : k \in Nat /\ ~ (k < n)
      BY <3>1 DEF OpToRel
    <3>3. QED
      BY <3>2
  <2>2. QED
    BY <1>2, <2>1 DEF Least
<1>3. QED
  BY <1>1, <1>2

LEMMA Indices ==
  ASSUME TypeOK
  PROVE  Size \in Nat /\ i \in Nat /\ 1 <= i /\ i <= Size + 1
<1>1. Size \in Nat
  BY DEF TypeOK, Size
<1>2. i \in 1 .. Size + 1
  BY DEF TypeOK
<1>3. QED
  BY <1>1, <1>2

(* The name goes on to a character that is neither a letter nor a brace, or *)
(* to the end of the pattern.                                               *)
LEMMA NameEnds ==
  ASSUME TypeOK, i <= Size
  PROVE  /\ NameEnd \in i + 1 .. Size + 1
         /\ \A n \in i + 1 .. NameEnd - 1 : m_pattern[n] \in Letter \cup {Shut}
<1> DEFINE S == {n \in i + 1 .. Size : m_pattern[n] \notin Letter \cup {Shut}}
<1>1. NameEnd = Least(S, Size + 1)
  BY DEF NameEnd
<1>2. \A n \in i + 1 .. Size : n \notin S => m_pattern[n] \in Letter \cup {Shut}
  OBVIOUS
<1>3. Size \in Nat /\ i \in Nat /\ 1 <= i
  BY Indices
<1>4. S \subseteq Nat /\ \A n \in S : i + 1 <= n /\ n <= Size
  BY <1>3
<1> HIDE DEF S
<1>5. \/ S = {} /\ NameEnd = Size + 1
      \/ NameEnd \in S /\ \A n \in S : NameEnd <= n
  BY <1>1, <1>4, LeastIs
<1>6. NameEnd \in Nat /\ i + 1 <= NameEnd /\ NameEnd <= Size + 1
  <2>1. CASE S = {} /\ NameEnd = Size + 1
    BY <1>3, <2>1
  <2>2. CASE NameEnd \in S
    BY <1>3, <1>4, <2>2
  <2>3. QED
    BY <1>5, <2>1, <2>2
<1>7. \A n \in i + 1 .. NameEnd - 1 : n \in i + 1 .. Size /\ n \notin S
  BY <1>3, <1>4, <1>5, <1>6
<1>8. QED
  BY <1>2, <1>3, <1>6, <1>7

LEMMA Closes ==
  ASSUME TypeOK, i <= Size, Close <= Size
  PROVE  Close \in NameEnd + 1 .. Size /\ m_pattern[Close] = Shut
<1> DEFINE S == {n \in NameEnd + 1 .. Size : m_pattern[n] = Shut}
<1>1. Close = Least(S, Size + 1)
  BY DEF Close
<1>2. Size \in Nat /\ i \in Nat
  BY Indices
<1>3. NameEnd \in Nat
  BY <1>2, NameEnds
<1>4. \A n \in S : n \in Nat /\ n \in NameEnd + 1 .. Size /\ m_pattern[n] = Shut
  BY <1>2, <1>3
<1> HIDE DEF S
<1>5. Close \in S \/ Close = Size + 1
  BY <1>1, <1>4, LeastIs
<1>6. QED
  BY <1>2, <1>4, <1>5

-----------------------------------------------------------------------------
(* Sequences of pieces *)

(* A piece that comes after all the others may be appended.                 *)
LEMMA Appended ==
  ASSUME NEW pieces \in Seq(Pieces), NEW piece \in Pieces, Ordered(pieces),
         \A p \in Spans(pieces), q \in Span(piece) : p < q
  PROVE  /\ Append(pieces, piece) \in Seq(Pieces)
         /\ Ordered(Append(pieces, piece))
         /\ Spans(Append(pieces, piece)) = Spans(pieces) \cup Span(piece)
<1> DEFINE longer == Append(pieces, piece)
<1>1. /\ longer \in Seq(Pieces)
      /\ Len(pieces) \in Nat
      /\ DOMAIN pieces = 1 .. Len(pieces)
      /\ DOMAIN longer = 1 .. Len(pieces) + 1
      /\ \A k \in 1 .. Len(pieces) : longer[k] = pieces[k]
      /\ longer[Len(pieces) + 1] = piece
  OBVIOUS
<1> HIDE DEF longer
<1>2. \A k \in DOMAIN pieces : Span(pieces[k]) \subseteq Spans(pieces)
  BY DEF Spans
<1>3. Ordered(longer)
  <2> SUFFICES ASSUME NEW k \in DOMAIN longer, NEW l \in DOMAIN longer, k < l,
                      NEW p \in Span(longer[k]), NEW q \in Span(longer[l])
               PROVE  p < q
    BY DEF Ordered
  <2>1. k \in DOMAIN pieces /\ longer[k] = pieces[k]
    BY <1>1
  <2>2. CASE l \in DOMAIN pieces
    BY <1>1, <2>1, <2>2 DEF Ordered
  <2>3. CASE l = Len(pieces) + 1
    BY <1>1, <1>2, <2>1, <2>3
  <2>4. QED
    BY <1>1, <2>2, <2>3
<1>4. Spans(longer) = Spans(pieces) \cup Span(piece)
  BY <1>1 DEF Spans
<1>5. QED
  BY <1>1, <1>3, <1>4 DEF longer

(* The text becomes a piece after those that are there.                     *)
LEMMA FlushKeeps ==
  ASSUME TypeOK, SpelledOut
  PROVE  /\ Flushed \in Seq(Pieces)
         /\ Ordered(Flushed)
         /\ Spans(Flushed) = Copied
<1>1. Copied = text \cup Spans(vec)
  BY DEF Copied, Spans
<1>2. Ordered(vec) /\ \A p \in Spans(vec), q \in text : p < q
  BY DEF SpelledOut, Ordered, Spans
<1>3. CASE text = {}
  BY <1>1, <1>2, <1>3 DEF Flushed, TypeOK
<1>4. CASE text # {}
  <2> DEFINE piece == Piece("text", text, {})
  <2>1. piece \in Pieces /\ Span(piece) = text
    BY DEF TypeOK, Piece, Pieces, Span
  <2>2. Flushed = Append(vec, piece)
    BY <1>4 DEF Flushed
  <2> HIDE DEF piece
  <2>3. QED
    BY <1>1, <1>2, <2>1, <2>2, Appended DEF TypeOK
<1>5. QED
  BY <1>3, <1>4

-----------------------------------------------------------------------------
(* Steps *)

(* A character that no piece has to stand for.                              *)
Excused(n) == m_pattern[n] \in {Percent, Open, Shut} \/ InLastName(n)

(* SpelledOut in terms of the definitions above.                            *)
LEMMA SpelledOutIs ==
  SpelledOut <=>
    /\ Ordered(vec)
    /\ \A p \in Spans(vec), q \in text : p < q
    /\ text \cup Spans(vec) \subseteq 1 .. i - 1
    /\ \A n \in (1 .. i - 1) \ (text \cup Spans(vec)) : Excused(n)
BY DEF SpelledOut, Ordered, Spans, Copied, Excused

LEMMA SpelledOutNext ==
  SpelledOut' <=>
    /\ Ordered(vec')
    /\ \A p \in Spans(vec'), q \in text' : p < q
    /\ text' \cup Spans(vec') \subseteq 1 .. i' - 1
    /\ \A n \in (1 .. i' - 1) \ (text' \cup Spans(vec')) : Excused(n)'
BY DEF SpelledOut, Ordered, Spans, Copied, Excused

LEMMA SamePattern ==
  ASSUME m_pattern' = m_pattern
  PROVE  Size' = Size /\ \A n : Excused(n)' <=> Excused(n)
BY DEF Excused, InLastName, Size

(* The next character becomes text.                                         *)
LEMMA CopyKeeps ==
  ASSUME Inv, i <= Size, Copy
  PROVE  TypeOK' /\ SpelledOut'
<1>1. Size \in Nat /\ i \in Nat /\ 1 <= i
  BY Indices DEF Inv
<1>2. Size' = Size /\ \A n : Excused(n)' <=> Excused(n)
  BY SamePattern DEF Copy
<1>3. TypeOK'
  BY <1>1, <1>2 DEF Inv, TypeOK, Copy
<1>4. /\ Ordered(vec)
      /\ \A p \in Spans(vec), q \in text : p < q
      /\ text \cup Spans(vec) \subseteq 1 .. i - 1
      /\ \A n \in (1 .. i - 1) \ (text \cup Spans(vec)) : Excused(n)
  BY SpelledOutIs DEF Inv
<1>5. Ordered(vec') /\ Spans(vec') = Spans(vec)
  BY <1>4 DEF Copy
<1>6. \A p \in Spans(vec), q \in text' : p < q
  BY <1>1, <1>4 DEF Copy
<1>7. text' \cup Spans(vec) \subseteq 1 .. i' - 1
  BY <1>1, <1>4 DEF Copy
<1>8. \A n \in (1 .. i' - 1) \ (text' \cup Spans(vec)) : Excused(n)
  BY <1>1, <1>4 DEF Copy
<1>9. SpelledOut'
  BY <1>2, <1>5, <1>6, <1>7, <1>8, SpelledOutNext
<1>10. QED
  BY <1>3, <1>9

(* A directive becomes a piece of positions after the % that begins it; all *)
(* it passes and does not take needs no piece.                              *)
LEMMA FoundKeeps ==
  ASSUME Inv, i <= Size, NEW str, NEW fmt, NEW next \in Nat, Found(str, fmt, next),
         i < next, next <= Size + 1,
         \A n \in str \cup fmt : n \in Nat /\ i < n /\ n < next,
         \A n \in i .. next - 1 : n \notin str \cup fmt => Excused(n)
  PROVE  TypeOK' /\ SpelledOut'
<1> DEFINE piece == Piece("field", str, fmt)
<1>1. Size \in Nat /\ i \in Nat /\ 1 <= i
  BY Indices DEF Inv
<1>2. Size' = Size /\ \A n : Excused(n)' <=> Excused(n)
  BY SamePattern DEF Found
<1>3. piece \in Pieces /\ Span(piece) = str \cup fmt
  BY DEF Piece, Pieces, Span
<1>4. /\ Flushed \in Seq(Pieces) /\ Ordered(Flushed)
      /\ Spans(Flushed) = text \cup Spans(vec)
  BY FlushKeeps DEF Inv, Copied, Spans
<1>5. /\ text \cup Spans(vec) \subseteq 1 .. i - 1
      /\ \A n \in (1 .. i - 1) \ (text \cup Spans(vec)) : Excused(n)
  BY SpelledOutIs DEF Inv
<1>6. vec' = Append(Flushed, piece) /\ text' = {} /\ i' = next
  BY DEF Found
<1> HIDE DEF piece
<1>7. \A p \in Spans(Flushed), q \in Span(piece) : p < q
  BY <1>1, <1>3, <1>4, <1>5
<1>8. /\ vec' \in Seq(Pieces) /\ Ordered(vec')
      /\ Spans(vec') = text \cup Spans(vec) \cup str \cup fmt
  BY <1>3, <1>4, <1>6, <1>7, Appended
<1>9. TypeOK'
  BY <1>1, <1>2, <1>6, <1>8 DEF Inv, TypeOK, Found
<1>10. Spans(vec') \subseteq 1 .. i' - 1
  BY <1>1, <1>5, <1>6, <1>8
<1>11. \A n \in (1 .. i' - 1) \ Spans(vec') : Excused(n)
  BY <1>1, <1>5, <1>6, <1>8
<1>12. SpelledOut'
  BY <1>2, <1>6, <1>8, <1>10, <1>11, SpelledOutNext
<1>13. QED
  BY <1>9, <1>12

(* The three ways a directive ends.                                         *)
LEMMA DirectiveKeeps ==
  ASSUME Inv, NameStops \/ NameAtEnd \/ FormatFound
  PROVE  /\ TypeOK' /\ SpelledOut'
         /\ i < i' /\ i' <= Size + 1
         /\ \E str, fmt, next : Found(str, fmt, next)
<1>1. Size \in Nat /\ i \in Nat /\ 1 <= i
  BY Indices DEF Inv
<1>2. i <= Size /\ m_pattern[i] = Percent /\ Excused(i)
  BY DEF NameStops, NameAtEnd, FormatFound, Directive, Reads, Excused
<1>3. /\ NameEnd \in i + 1 .. Size + 1
      /\ \A n \in i + 1 .. NameEnd - 1 : m_pattern[n] \in Letter \cup {Shut}
  BY <1>2, NameEnds DEF Inv
<1>4. NameEnd \in Nat /\ i < NameEnd /\ NameEnd <= Size + 1
  BY <1>1, <1>3
<1>5. CASE NameStops
  <2> DEFINE str == i + 1 .. NameEnd - 1
  <2>1. Found(str, {}, NameEnd)
    BY <1>5 DEF NameStops
  <2>2. \A n \in str \cup {} : n \in Nat /\ i < n /\ n < NameEnd
    BY <1>1, <1>4
  <2>3. \A n \in i .. NameEnd - 1 : n \notin str \cup {} => Excused(n)
    BY <1>1, <1>2, <1>4
  <2> HIDE DEF str
  <2>4. TypeOK' /\ SpelledOut'
    BY <1>2, <1>4, <2>1, <2>2, <2>3, FoundKeeps
  <2>5. QED
    BY <1>4, <2>1, <2>4 DEF Found
<1>6. CASE NameAtEnd
  <2> DEFINE str == {Size} \ {i}
  <2>1. Found(str, {}, Size + 1) /\ NameEnd = Size + 1
    BY <1>1, <1>4, <1>6 DEF NameAtEnd
  <2>2. \A n \in str \cup {} : n \in Nat /\ i < n /\ n < Size + 1
    BY <1>1, <1>2
  <2>3. ASSUME NEW n \in i .. Size + 1 - 1, n \notin str \cup {}
        PROVE  Excused(n)
    <3>1. CASE n = i
      BY <1>2, <3>1
    <3>2. CASE n # i
      <4>1. n \in Nat /\ i \in 1 .. n - 1
        BY <1>1, <3>2
      <4>2. \A k \in i + 1 .. Size : m_pattern[k] \in Letter \cup {Shut}
        BY <1>1, <1>3, <2>1
      <4>3. QED
        BY <1>2, <4>1, <4>2 DEF Excused, InLastName
    <3>3. QED
      BY <3>1, <3>2
  <2> HIDE DEF str
  <2>4. TypeOK' /\ SpelledOut'
    BY <1>1, <1>2, <2>1, <2>2, <2>3, FoundKeeps
  <2>5. QED
    BY <1>1, <1>2, <2>1, <2>4 DEF Found
<1>7. CASE FormatFound
  <2> DEFINE str == i + 1 .. NameEnd - 1
             fmt == NameEnd + 1 .. Close - 1
             next == Close + 1
  <2>1. Found(str, fmt, next) /\ Close <= Size /\ m_pattern[NameEnd] = Open
    BY <1>7 DEF FormatFound, Braced
  <2>2. Close \in NameEnd + 1 .. Size /\ m_pattern[Close] = Shut
    BY <1>2, <2>1, Closes DEF Inv
  <2>3. Close \in Nat /\ NameEnd < Close
    BY <1>4, <2>2
  <2>4. \A n \in str \cup fmt : n \in Nat /\ i < n /\ n < next
    BY <1>1, <1>4, <2>3
  <2>5. Excused(NameEnd) /\ Excused(Close)
    BY <2>1, <2>2 DEF Excused
  <2>6. \A n \in i .. next - 1 : n \notin str \cup fmt => n \in {i, NameEnd, Close}
    BY <1>1, <1>4, <2>3
  <2>7. \A n \in i .. next - 1 : n \notin str \cup fmt => Excused(n)
    BY <1>2, <2>5, <2>6
  <2>8. next \in Nat /\ i < next /\ next <= Size + 1
    BY <1>1, <1>4, <2>1, <2>3
  <2> HIDE DEF str, fmt, next
  <2>9. TypeOK' /\ SpelledOut'
    BY <1>2, <2>1, <2>4, <2>7, <2>8, FoundKeeps
  <2>10. QED
    BY <2>1, <2>8, <2>9 DEF Found
<1>8. QED
  BY <1>5, <1>6, <1>7

(* A brace that is not closed: the error is a piece with no characters.     *)
LEMMA UnclosedKeeps ==
  ASSUME Inv, Unclosed
  PROVE  TypeOK' /\ SpelledOut' /\ i < i' /\ i' <= Size + 1
<1> DEFINE piece == Piece("unclosed", {}, {})
<1>1. Size \in Nat /\ i \in Nat /\ 1 <= i
  BY Indices DEF Inv
<1>2. Size' = Size /\ \A n : Excused(n)' <=> Excused(n)
  BY SamePattern DEF Unclosed
<1>3. piece \in Pieces /\ Span(piece) = {}
  BY DEF Piece, Pieces, Span
<1>4. i <= Size /\ Excused(i) /\ i' = i + 1 /\ text' = text /\ vec' = Append(vec, piece)
  BY DEF Unclosed, Directive, Reads, Excused
<1> HIDE DEF piece
<1>5. /\ Ordered(vec)
      /\ \A p \in Spans(vec), q \in text : p < q
      /\ text \cup Spans(vec) \subseteq 1 .. i - 1
      /\ \A n \in (1 .. i - 1) \ (text \cup Spans(vec)) : Excused(n)
  BY SpelledOutIs DEF Inv
<1>6. vec' \in Seq(Pieces) /\ Ordered(vec') /\ Spans(vec') = Spans(vec)
  BY <1>3, <1>4, <1>5, Appended DEF Inv, TypeOK
<1>7. TypeOK'
  BY <1>1, <1>2, <1>4, <1>6 DEF Inv, TypeOK, Unclosed
<1>8. text' \cup Spans(vec') \subseteq 1 .. i' - 1
  BY <1>1, <1>4, <1>5, <1>6
<1>9. \A n \in (1 .. i' - 1) \ (text' \cup Spans(vec')) : n = i \/ Excused(n)
  BY <1>1, <1>4, <1>5, <1>6
<1>10. SpelledOut'
  BY <1>2, <1>4, <1>5, <1>6, <1>8, <1>9, SpelledOutNext
<1>11. QED
  BY <1>1, <1>4, <1>7, <1>10
-----------------------------------------------------------------------------
(* Errors *)

LEMMA AppendWaits ==
  ASSUME NEW pieces \in Seq(Pieces), NEW piece \in Pieces
  PROVE  Waiting(Append(pieces, piece)) <=> Waiting(pieces) \/ piece.kind = "unclosed"
<1> DEFINE longer == Append(pieces, piece)
<1>1. /\ Len(pieces) \in Nat
      /\ DOMAIN pieces = 1 .. Len(pieces)
      /\ DOMAIN longer = 1 .. Len(pieces) + 1
      /\ \A k \in 1 .. Len(pieces) : longer[k] = pieces[k]
      /\ longer[Len(pieces) + 1] = piece
  OBVIOUS
<1> HIDE DEF longer
<1>2. Waiting(longer) <=> Waiting(pieces) \/ piece.kind = "unclosed"
  BY <1>1 DEF Waiting
<1>3. QED
  BY <1>2 DEF longer

LEMMA FlushWaits ==
  ASSUME TypeOK
  PROVE  Waiting(Flushed) <=> Waiting(vec)
<1> DEFINE piece == Piece("text", text, {})
<1>1. piece \in Pieces /\ piece.kind # "unclosed" /\ vec \in Seq(Pieces)
  BY DEF TypeOK, Piece, Pieces
<1>2. Flushed = vec \/ Flushed = Append(vec, piece)
  BY DEF Flushed
<1> HIDE DEF piece
<1>3. Waiting(Append(vec, piece)) <=> Waiting(vec)
  BY <1>1, AppendWaits
<1>4. CASE Flushed = vec
  BY <1>4
<1>5. CASE Flushed = Append(vec, piece)
  BY <1>3, <1>5
<1>6. QED
  BY <1>2, <1>4, <1>5

(* What an entry becomes.                                                   *)
LEMMA ItemIs ==
  ASSUME NEW piece \in Pieces
  PROVE  /\ Item(piece) \in Items
         /\ Item(piece).kind = "unclosed" <=> piece.kind = "unclosed"
<1>1. Field \subseteq Char
  BY PatternAssumption
<1>2. CASE piece.kind = "field" /\ Known(piece)
  <2>1. PICK n \in piece.str : piece.str = {n} /\ m_pattern[n] \in Field
    BY <1>2 DEF Known
  <2>2. (CHOOSE k \in piece.str : TRUE) = n
    BY <2>1
  <2>3. QED
    BY <1>1, <1>2, <2>1, <2>2 DEF Item, Items
<1>3. CASE ~(piece.kind = "field" /\ Known(piece))
  BY <1>3 DEF Item, Items, Pieces
<1>4. QED
  BY <1>2, <1>3

(* A step inside the loop makes no item, so that only the errors that wait  *)
(* matter.                                                                  *)
LEMMA LoopMarks ==
  ASSUME Inv, Literal \/ DoublePercent \/ NameStops \/ NameAtEnd \/ FormatFound \/ Unclosed
  PROVE  Marked'
<1>1. pc = "parse" /\ pc' = "parse" /\ m_items' = m_items
  BY DEF Literal, DoublePercent, Copy, NameStops, NameAtEnd, FormatFound, Unclosed,
         Directive, Reads, Found
<1>2. m_error <=> Faulty(m_items) \/ Waiting(vec)
  BY <1>1 DEF Inv, Marked
<1>3. (m_error' <=> Faulty(m_items) \/ Waiting(vec')) => Marked'
  BY <1>1 DEF Marked, Faulty, Waiting
<1>4. CASE Literal \/ DoublePercent
  BY <1>2, <1>3, <1>4 DEF Literal, DoublePercent, Copy
<1>5. CASE NameStops \/ NameAtEnd \/ FormatFound
  <2>1. PICK str, fmt, next : Found(str, fmt, next)
    BY <1>5, DirectiveKeeps
  <2> DEFINE piece == Piece("field", str, fmt)
  <2>2. vec' = Append(Flushed, piece) /\ m_error' = m_error
    BY <2>1 DEF Found
  <2>3. vec' \in Seq(Pieces) /\ Flushed \in Seq(Pieces)
    BY <1>5, DirectiveKeeps, FlushKeeps DEF Inv, TypeOK
  <2>4. Len(Flushed) \in Nat /\ vec'[Len(Flushed) + 1] = piece
        /\ Len(Flushed) + 1 \in DOMAIN vec'
    BY <2>2, <2>3
  <2>5. piece \in Pieces
    BY <2>3, <2>4
  <2>6. piece.kind # "unclosed"
    BY DEF Piece
  <2> HIDE DEF piece
  <2>7. Waiting(vec') <=> Waiting(vec)
    BY <2>2, <2>3, <2>5, <2>6, AppendWaits, FlushWaits DEF Inv
  <2>8. QED
    BY <1>2, <1>3, <2>2, <2>7
<1>6. CASE Unclosed
  <2> DEFINE piece == Piece("unclosed", {}, {})
  <2>1. vec' = Append(vec, piece) /\ m_error' = TRUE
    BY <1>6 DEF Unclosed
  <2>2. piece \in Pieces /\ piece.kind = "unclosed" /\ vec \in Seq(Pieces)
    BY DEF Piece, Pieces, Inv, TypeOK
  <2> HIDE DEF piece
  <2>3. Waiting(vec')
    BY <2>1, <2>2, AppendWaits
  <2>4. QED
    BY <1>3, <2>1, <2>3
<1>7. QED
  BY <1>4, <1>5, <1>6

(* The end of parse makes an item of every piece.                           *)
LEMMA ParseEndKeeps ==
  ASSUME Inv, ParseEnd
  PROVE  Inv'
<1> DEFINE made == [k \in DOMAIN Flushed |-> Item(Flushed[k])]
<1>1. /\ pc = "parse" /\ pc' = "ready" /\ vec' = Flushed /\ text' = {}
      /\ m_items' = m_items \o made
      /\ m_error' = (m_error \/ Unknown(Flushed))
      /\ m_pattern' = m_pattern /\ i' = i /\ parses' = parses
  BY DEF ParseEnd, Built
<1>2. Flushed \in Seq(Pieces) /\ Ordered(Flushed) /\ Spans(Flushed) = Copied
  BY FlushKeeps DEF Inv
<1>3. /\ Len(Flushed) \in Nat /\ DOMAIN Flushed = 1 .. Len(Flushed)
      /\ \A k \in DOMAIN Flushed : Flushed[k] \in Pieces
  BY <1>2
<1>4. /\ DOMAIN made = DOMAIN Flushed
      /\ \A k \in DOMAIN Flushed : /\ made[k] \in Items
                                   /\ made[k].kind = Item(Flushed[k]).kind
                                   /\ made[k].kind = "unclosed" <=> Flushed[k].kind = "unclosed"
  BY <1>3, ItemIs
<1>5. made \in Seq(Items) /\ m_items \in Seq(Items)
  BY <1>3, <1>4 DEF Inv, TypeOK
<1>6. Faulty(made) <=> Unknown(Flushed) \/ Waiting(Flushed)
  BY <1>4 DEF Faulty, Unknown, Waiting
<1> HIDE DEF made
<1>7. m_items' \in Seq(Items) /\ (Faulty(m_items') <=> Faulty(m_items) \/ Faulty(made))
  <2> DEFINE all == m_items \o made
  <2>1. /\ all \in Seq(Items) /\ DOMAIN all = 1 .. Len(m_items) + Len(made)
        /\ Len(m_items) \in Nat /\ Len(made) \in Nat
        /\ DOMAIN m_items = 1 .. Len(m_items) /\ DOMAIN made = 1 .. Len(made)
        /\ \A k \in 1 .. Len(m_items) : all[k] = m_items[k]
        /\ \A k \in 1 .. Len(made) : all[Len(m_items) + k] = made[k]
    BY <1>5
  <2>2. \A k \in DOMAIN all : k \in 1 .. Len(m_items)
                                \/ \E l \in 1 .. Len(made) : k = Len(m_items) + l
    <3> SUFFICES ASSUME NEW k \in DOMAIN all, k \notin 1 .. Len(m_items)
                 PROVE  k - Len(m_items) \in 1 .. Len(made)
                          /\ k = Len(m_items) + (k - Len(m_items))
      OBVIOUS
    <3>1. QED
      BY <2>1
  <2> HIDE DEF all
  <2>3. \A l \in 1 .. Len(made) : Len(m_items) + l \in DOMAIN all
    BY <2>1
  <2>4. \A k \in 1 .. Len(m_items) : k \in DOMAIN all
    BY <2>1
  <2>5. Faulty(all) <=> Faulty(m_items) \/ Faulty(made)
    <3>1. ASSUME Faulty(all) PROVE Faulty(m_items) \/ Faulty(made)
      <4>1. PICK k \in DOMAIN all : all[k].kind \in {"unknown", "unclosed"}
        BY <3>1 DEF Faulty
      <4>2. CASE k \in 1 .. Len(m_items)
        BY <2>1, <4>1, <4>2 DEF Faulty
      <4>3. ASSUME NEW l \in 1 .. Len(made), k = Len(m_items) + l
            PROVE  Faulty(made)
        BY <2>1, <4>1, <4>3 DEF Faulty
      <4>4. QED
        BY <2>2, <4>2, <4>3
    <3>2. Faulty(m_items) => Faulty(all)
      BY <2>1, <2>4 DEF Faulty
    <3>3. ASSUME Faulty(made) PROVE Faulty(all)
      <4>1. PICK l \in 1 .. Len(made) : made[l].kind \in {"unknown", "unclosed"}
        BY <2>1, <3>3 DEF Faulty
      <4>2. QED
        BY <2>1, <2>3, <4>1 DEF Faulty
    <3>4. QED
      BY <3>1, <3>2, <3>3
  <2>6. QED
    BY <1>1, <2>1, <2>5 DEF all
<1>8. m_error' <=> Faulty(m_items')
  <2>1. m_error <=> Faulty(m_items) \/ Waiting(vec)
    BY <1>1 DEF Inv, Marked
  <2>2. Waiting(Flushed) <=> Waiting(vec)
    BY FlushWaits DEF Inv
  <2>3. QED
    BY <1>1, <1>6, <1>7, <2>1, <2>2
<1>9. Marked'
  BY <1>1, <1>8 DEF Marked, Faulty
<1>10. Size' = Size /\ \A n : Excused(n)' <=> Excused(n)
  BY <1>1, SamePattern
<1>11. TypeOK'
  BY <1>1, <1>2, <1>7, <1>10 DEF Inv, TypeOK, Unknown
<1>12. SpelledOut'
  <2>1. /\ text \cup Spans(vec) \subseteq 1 .. i - 1
        /\ \A n \in (1 .. i - 1) \ (text \cup Spans(vec)) : Excused(n)
    BY SpelledOutIs DEF Inv
  <2>2. Ordered(vec') /\ Spans(vec') = text \cup Spans(vec)
    BY <1>1, <1>2 DEF Copied, Spans
  <2>3. QED
    BY <1>1, <1>10, <2>1, <2>2, SpelledOutNext
<1>13. QED
  BY <1>9, <1>11, <1>12 DEF Inv

(* The state in which parse begins.                                         *)
LEMMA BeginKeeps ==
  ASSUME m_pattern \in Seq(Char), i = 1, text = {}, vec = <<>>
  PROVE  SpelledOut /\ i \in 1 .. Size + 1 /\ vec \in Seq(Pieces) /\ ~Waiting(vec)
<1>1. Size \in Nat
  BY DEF Size
<1>2. Ordered(vec) /\ Spans(vec) = {}
  BY DEF Ordered, Spans
<1>3. QED
  BY <1>1, <1>2, SpelledOutIs DEF Waiting

LEMMA SetPatternKeeps ==
  ASSUME Inv, SetPattern
  PROVE  Inv'
<1>1. /\ m_pattern' \in NewPattern /\ i' = 1 /\ text' = {} /\ vec' = <<>>
      /\ pc = "ready" /\ pc' = "parse" /\ parses' = parses + 1
      /\ m_items' = m_items /\ m_error' = m_error
  BY DEF SetPattern
<1>2. m_pattern' \in Seq(Char)
  BY <1>1, PatternAssumption
<1>3. Size' \in Nat
  BY <1>2 DEF Size
<1>4. Ordered(vec') /\ Spans(vec') = {} /\ ~Waiting(vec')
  BY <1>1 DEF Ordered, Spans, Waiting
<1>5. SpelledOut'
  BY <1>1, <1>4, SpelledOutNext
<1>6. TypeOK'
  <2>1. i' \in 1 .. Size' + 1 /\ vec' \in Seq(Pieces) /\ text' \in SUBSET Nat
    <3>1. i' \in 1 .. Size' + 1
      <4>1. \A n \in Nat : 1 \in 1 .. n + 1
        OBVIOUS
      <4>2. 1 \in 1 .. Size' + 1
        BY <1>3, <4>1
      <4>3. QED
        BY <1>1, <4>2
    <3>2. vec' \in Seq(Pieces)
      BY <1>1
    <3>3. text' \in SUBSET Nat
      BY <1>1
    <3>4. QED
      BY <3>1, <3>2, <3>3
  <2>2. m_items \in Seq(Items) /\ m_error \in BOOLEAN /\ parses + 1 \in Nat
    BY DEF Inv, TypeOK
  <2>3. QED
    BY <1>1, <1>2, <2>1, <2>2 DEF TypeOK
<1>7. Marked'
  BY <1>1, <1>4 DEF Inv, Marked, Faulty, Waiting
<1>8. QED
  BY <1>5, <1>6, <1>7 DEF Inv
-----------------------------------------------------------------------------
(* The pattern as its author meant it *)

(* The pieces made so far are those of the segments that are behind, and    *)
(* the text that waits is the beginning of the next one.                    *)
Following(R) ==
  LET k == Len(vec) + 1 IN
  /\ Len(vec) <= Len(R) /\ vec = [j \in 1 .. Len(vec) |-> ReadAs(R[j])]
  /\ \/ text = {} /\ i = Begin(R, k)
     \/ /\ k <= Len(R) /\ R[k].kind = "text" /\ R[k].from < i /\ i <= R[k].to + 1
        /\ text = R[k].from .. i - 1

ReadWhole(R) == vec = [j \in 1 .. Len(R) |-> ReadAs(R[j])]

Kept(R) == Means(R) => (pc = "parse" => Following(R)) /\ (pc = "ready" => ReadWhole(R))

(* The items of the first pattern are those of its pieces.                  *)
FirstItems ==
  /\ parses >= 1
  /\ parses = 1 => /\ pc = "parse" => m_items = <<>>
                   /\ pc = "ready" => m_items = [k \in DOMAIN vec |-> Item(vec[k])]

(* What a segment is.                                                       *)
LEMMA Segments ==
  ASSUME NEW R, Means(R), NEW k \in 1 .. Len(R)
  PROVE  /\ R \in Seq(Segment) /\ Len(R) \in Nat /\ DOMAIN R = 1 .. Len(R)
         /\ k \in Nat /\ R[k] \in Segment /\ R[k].from \in Nat /\ R[k].to \in Nat
         /\ R[k].kind \in {"text", "field"}
         /\ R[k].kind = "text" => IsText(R[k])
         /\ R[k].kind = "field" => IsField(R[k])
         /\ R[k].to <= Size /\ Begin(R, k) = R[k].from /\ Begin(R, k + 1) = R[k].to + 1
         /\ k + 1 <= Len(R) => /\ Separate(R[k], R[k + 1]) /\ k + 1 \in 1 .. Len(R)
                               /\ R[k + 1].from = R[k].to + 1
         /\ ~(k + 1 <= Len(R)) => R[k].to + 1 = Size + 1
<1>1. R \in Seq(Segment) /\ Len(R) \in Nat /\ DOMAIN R = 1 .. Len(R) /\ k \in DOMAIN R
  BY DEF Means
<1>2. R[k] \in Segment
  BY <1>1
<1>3. /\ R[k].from \in Nat /\ R[k].to \in Nat /\ R[k].kind \in {"text", "field"}
  BY <1>2 DEF Segment
<1>4. /\ IF R[k].kind = "text" THEN IsText(R[k]) ELSE IsField(R[k])
      /\ R[k].to <= Size /\ R[k].to + 1 = Begin(R, k + 1)
      /\ k < Len(R) => Separate(R[k], R[k + 1])
  BY <1>1 DEF Means
<1>5. Begin(R, k) = R[k].from
  BY <1>1 DEF Begin
<1>6. k + 1 <= Len(R) => k < Len(R) /\ k + 1 \in 1 .. Len(R) /\ R[k + 1].from = Begin(R, k + 1)
  BY <1>1 DEF Begin
<1>7. ~(k + 1 <= Len(R)) => R[k].to + 1 = Size + 1
  BY <1>4 DEF Begin
<1>8. QED
  BY <1>1, <1>2, <1>3, <1>4, <1>5, <1>6, <1>7

LEMMA SamePlaces ==
  ASSUME NEW R, m_pattern' = m_pattern
  PROVE  /\ Means(R)' <=> Means(R)
         /\ \A k : Begin(R, k)' = Begin(R, k)
BY DEF Means, Begin, IsText, IsField, HasFormat, Separate, Size

(* A segment more is behind.                                                *)
LEMMA AppendRead ==
  ASSUME NEW R, NEW n \in Nat, NEW pieces, pieces = [j \in 1 .. n |-> ReadAs(R[j])],
         NEW piece, piece = ReadAs(R[n + 1])
  PROVE  /\ Append(pieces, piece) = [j \in 1 .. n + 1 |-> ReadAs(R[j])]
         /\ Len(pieces) = n /\ Len(Append(pieces, piece)) = n + 1
<1> DEFINE S == {ReadAs(R[j]) : j \in 1 .. n + 1}
           longer == [j \in 1 .. n + 1 |-> ReadAs(R[j])]
<1>1. \A j \in 1 .. n + 1 : ReadAs(R[j]) \in S
  OBVIOUS
<1>2. \A j \in 1 .. n : j \in 1 .. n + 1
  OBVIOUS
<1> HIDE DEF S
<1>3. pieces \in Seq(S) /\ Len(pieces) = n /\ \A j \in 1 .. n : pieces[j] = ReadAs(R[j])
  BY <1>1, <1>2
<1>4. longer \in Seq(S) /\ Len(longer) = n + 1
      /\ \A j \in 1 .. n + 1 : longer[j] = ReadAs(R[j])
  BY <1>1
<1>5. n + 1 \in 1 .. n + 1 /\ piece \in S
  BY <1>1
<1>6. /\ Append(pieces, piece) \in Seq(S) /\ Len(Append(pieces, piece)) = n + 1
      /\ \A j \in 1 .. n : Append(pieces, piece)[j] = pieces[j]
      /\ Append(pieces, piece)[n + 1] = piece
  BY <1>3, <1>5
<1>7. \A j \in 1 .. n + 1 : j \in 1 .. n \/ j = n + 1
  OBVIOUS
<1> HIDE DEF longer
<1>8. \A j \in 1 .. n + 1 : longer[j] = Append(pieces, piece)[j]
  BY <1>3, <1>4, <1>6, <1>7
<1>9. longer = Append(pieces, piece)
  BY <1>4, <1>6, <1>8, SeqEqual
<1>10. QED
  BY <1>3, <1>6, <1>9 DEF longer

(* Where the next round of the loop is: at the first character of a segment *)
(* or inside of a text.                                                     *)
LEMMA Round ==
  ASSUME Inv, NEW R, Means(R), Following(R), i <= Size
  PROVE  \E k \in 1 .. Len(R) :
           \/ /\ R[k].from = i /\ Flushed = [j \in 1 .. k - 1 |-> ReadAs(R[j])]
              /\ text = {} => Len(vec) + 1 = k
              /\ text # {} => k > 1 /\ k - 1 \in 1 .. Len(R) /\ R[k - 1].kind = "text"
           \/ /\ R[k].kind = "text" /\ R[k].from < i /\ i <= R[k].to
              /\ Len(vec) + 1 = k /\ text = R[k].from .. i - 1
<1> DEFINE k == Len(vec) + 1
<1>1. Size \in Nat /\ i \in Nat /\ 1 <= i /\ Len(vec) \in Nat
  BY Indices DEF Inv, TypeOK
<1>2. Len(vec) <= Len(R) /\ vec = [j \in 1 .. Len(vec) |-> ReadAs(R[j])]
  BY DEF Following
<1>3. Len(R) \in Nat
  BY DEF Means
<1>4. CASE text = {} /\ i = Begin(R, k)
  <2>1. k <= Len(R)
    BY <1>1, <1>3, <1>4 DEF Begin
  <2>2. k \in 1 .. Len(R) /\ R[k].from = i /\ k - 1 = Len(vec)
    BY <1>1, <1>3, <1>4, <2>1 DEF Begin
  <2>3. Flushed = vec
    BY <1>4 DEF Flushed
  <2> HIDE DEF k
  <2>4. QED
    BY <1>2, <1>4, <2>2, <2>3 DEF k
<1>5. CASE k <= Len(R) /\ R[k].kind = "text" /\ R[k].from < i /\ i <= R[k].to + 1
           /\ text = R[k].from .. i - 1
  <2>1. k \in 1 .. Len(R)
    BY <1>1, <1>3, <1>5
  <2>2. /\ R[k].from \in Nat /\ R[k].to \in Nat
        /\ Begin(R, k + 1) = R[k].to + 1
        /\ k + 1 <= Len(R) => k + 1 \in 1 .. Len(R) /\ R[k + 1].from = R[k].to + 1
        /\ ~(k + 1 <= Len(R)) => R[k].to = Size
    BY <1>1, <2>1, Segments
  <2>3. CASE i <= R[k].to
    <3> HIDE DEF k
    <3>1. QED
      BY <1>5, <2>1, <2>3 DEF k
  <2>4. CASE i = R[k].to + 1
    <3>1. k + 1 \in 1 .. Len(R) /\ R[k + 1].from = i
      BY <1>1, <2>2, <2>4
    <3>2. text = R[k].from .. R[k].to /\ R[k].from \in text
      BY <1>1, <1>5, <2>2, <2>4
    <3>3. Flushed = Append(vec, ReadAs(R[Len(vec) + 1]))
      BY <1>5, <3>2 DEF Flushed, ReadAs
    <3>4. Flushed = [j \in 1 .. k |-> ReadAs(R[j])]
      BY <1>1, <1>2, <3>3, AppendRead
    <3>5. (k + 1) - 1 = k /\ k + 1 > 1
      BY <1>1
    <3> HIDE DEF k
    <3>6. QED
      BY <1>5, <2>1, <3>1, <3>2, <3>4, <3>5
  <2>5. i <= R[k].to \/ i = R[k].to + 1
    BY <1>1, <1>5, <2>2
  <2>6. QED
    BY <2>3, <2>4, <2>5
<1>6. QED
  BY <1>4, <1>5 DEF Following

(* A character that is no % belongs to a text.                              *)
LEMMA LiteralFollows ==
  ASSUME Inv, NEW R, Means(R), Following(R), Literal
  PROVE  Following(R)'
<1>1. /\ i <= Size /\ m_pattern[i] # Percent /\ vec' = vec /\ m_pattern' = m_pattern
      /\ text' = text \cup {i} /\ i' = i + 1
  BY DEF Literal, Reads, Copy
<1>2. Size \in Nat /\ i \in Nat /\ 1 <= i /\ Len(vec) \in Nat /\ Len(R) \in Nat
  BY Indices DEF Inv, TypeOK, Means
<1>3. PICK k \in 1 .. Len(R) :
           \/ /\ R[k].from = i
              /\ text = {} => Len(vec) + 1 = k
              /\ text # {} => k > 1 /\ k - 1 \in 1 .. Len(R) /\ R[k - 1].kind = "text"
           \/ /\ R[k].kind = "text" /\ R[k].from < i /\ i <= R[k].to
              /\ Len(vec) + 1 = k /\ text = R[k].from .. i - 1
  BY <1>1, Round
<1>4. /\ R[k].from \in Nat /\ R[k].to \in Nat /\ R[k].kind \in {"text", "field"}
      /\ R[k].kind = "text" => IsText(R[k])
      /\ R[k].kind = "field" => IsField(R[k])
  BY Segments
<1>5. SUFFICES /\ k = Len(vec) + 1 /\ k <= Len(R)
               /\ R[k].kind = "text" /\ R[k].from < i' /\ i' <= R[k].to + 1
               /\ text' = R[k].from .. i' - 1
  BY <1>1 DEF Following
<1>6. CASE R[k].from = i
  <2>1. R[k].kind = "text" /\ R[k].from <= R[k].to
    BY <1>1, <1>4, <1>6 DEF IsField, IsText
  <2>2. text = {}
    <3> SUFFICES ASSUME text # {} PROVE FALSE
      OBVIOUS
    <3>1. k - 1 \in 1 .. Len(R) /\ (k - 1) + 1 = k /\ R[k - 1].kind = "text" /\ k <= Len(R)
      BY <1>2, <1>3, <1>6
    <3>2. Separate(R[k - 1], R[k])
      BY <3>1, Segments
    <3>3. QED
      BY <2>1, <3>1, <3>2 DEF Separate
  <2>3. k = Len(vec) + 1
    BY <1>3, <1>6, <1>4, <2>2
  <2>4. QED
    BY <1>1, <1>2, <1>4, <1>6, <2>1, <2>2, <2>3
<1>7. CASE /\ R[k].kind = "text" /\ R[k].from < i /\ i <= R[k].to
           /\ Len(vec) + 1 = k /\ text = R[k].from .. i - 1
  BY <1>1, <1>2, <1>4, <1>7
<1>8. QED
  BY <1>3, <1>6, <1>7

(* A % begins a field.                                                      *)
LEMMA FieldBegins ==
  ASSUME Inv, NEW R, Means(R), Following(R), Reads(TRUE)
  PROVE  \E k \in 1 .. Len(R) :
           /\ R[k].from = i /\ R[k].kind = "field"
           /\ Flushed = [j \in 1 .. k - 1 |-> ReadAs(R[j])]
<1>1. i <= Size /\ m_pattern[i] = Percent /\ i \in Nat
  BY Indices DEF Reads, Inv
<1>2. PICK k \in 1 .. Len(R) :
           \/ R[k].from = i /\ Flushed = [j \in 1 .. k - 1 |-> ReadAs(R[j])]
           \/ R[k].kind = "text" /\ R[k].from < i /\ i <= R[k].to
  BY <1>1, Round
<1>3. /\ R[k].from \in Nat /\ R[k].to \in Nat /\ R[k].kind \in {"text", "field"}
      /\ R[k].kind = "text" => IsText(R[k])
  BY Segments
<1>4. R[k].from <= i /\ i <= R[k].to => R[k].kind # "text"
  BY <1>1, <1>3 DEF IsText
<1>5. R[k].from = i /\ R[k].kind = "text" => i <= R[k].to
  BY <1>3 DEF IsText
<1>6. QED
  BY <1>1, <1>2, <1>3, <1>4, <1>5

(* Where a name and a format end.                                           *)
LEMMA NameEndIs ==
  ASSUME TypeOK, i <= Size, NEW e \in Nat, i + 1 <= e, e <= Size + 1,
         \A n \in i + 1 .. e - 1 : m_pattern[n] \in Letter \cup {Shut},
         e = Size + 1 \/ m_pattern[e] \notin Letter \cup {Shut}
  PROVE  NameEnd = e
<1> DEFINE S == {n \in i + 1 .. Size : m_pattern[n] \notin Letter \cup {Shut}}
<1>1. NameEnd = Least(S, Size + 1)
  BY DEF NameEnd
<1>2. Size \in Nat /\ i \in Nat /\ 1 <= i
  BY Indices
<1>3. \A n \in S : n \in Nat /\ n <= Size /\ e <= n
  BY <1>2
<1>4. e # Size + 1 => e \in S
  BY <1>2
<1>5. S \subseteq Nat
  BY <1>3
<1> HIDE DEF S
<1>6. \/ S = {} /\ NameEnd = Size + 1
      \/ NameEnd \in S /\ \A n \in S : NameEnd <= n
  BY <1>1, <1>5, LeastIs
<1>7. QED
  BY <1>2, <1>3, <1>4, <1>6

LEMMA CloseIs ==
  ASSUME TypeOK, i <= Size, NEW e \in Nat, NameEnd + 1 <= e, e <= Size, m_pattern[e] = Shut,
         \A n \in NameEnd + 1 .. e - 1 : m_pattern[n] # Shut
  PROVE  Close = e
<1> DEFINE S == {n \in NameEnd + 1 .. Size : m_pattern[n] = Shut}
<1>1. Close = Least(S, Size + 1)
  BY DEF Close
<1>2. Size \in Nat /\ i \in Nat /\ 1 <= i
  BY Indices
<1>3. NameEnd \in Nat
  BY <1>2, NameEnds
<1>4. \A n \in S : n \in Nat /\ n <= Size /\ e <= n
  BY <1>2, <1>3
<1>5. S \subseteq Nat /\ e \in S
  BY <1>2, <1>3, <1>4
<1> HIDE DEF S
<1>6. Close \in S /\ \A n \in S : Close <= n
  BY <1>1, <1>5, LeastIs
<1>7. QED
  BY <1>4, <1>5, <1>6

(* The inner loop takes a field as a whole, its name and its format.        *)
LEMMA FieldFound ==
  ASSUME Inv, NEW R, Means(R), NEW k \in 1 .. Len(R), R[k].from = i, R[k].kind = "field",
         i <= Size
  PROVE  /\ ~ Doubled /\ ~ Unclosed
         /\ NameStops \/ NameAtEnd \/ FormatFound =>
              Found({i + 1}, i + 3 .. R[k].to - 1, R[k].to + 1)
         /\ ReadAs(R[k]) = Piece("field", {i + 1}, i + 3 .. R[k].to - 1)
<1>1. Size \in Nat /\ i \in Nat /\ 1 <= i
  BY Indices DEF Inv
<1>2. /\ R[k].to \in Nat /\ IsField(R[k]) /\ R[k].to <= Size
      /\ k + 1 <= Len(R) => /\ Separate(R[k], R[k + 1]) /\ k + 1 \in 1 .. Len(R)
                            /\ R[k + 1].from = R[k].to + 1
      /\ ~(k + 1 <= Len(R)) => R[k].to = Size
  BY <1>1, Segments
<1>3. /\ i < R[k].to /\ m_pattern[i + 1] \in Field
      /\ R[k].to = i + 1 \/ HasFormat(R[k])
  BY <1>2 DEF IsField
<1>4. m_pattern[i + 1] \in Letter /\ m_pattern[i + 1] # Percent
  BY <1>3, PatternAssumption
<1>5. ~ Doubled
  BY <1>4 DEF Doubled
<1>6. ReadAs(R[k]) = Piece("field", {i + 1}, i + 3 .. R[k].to - 1)
  BY DEF ReadAs
<1>7. \A n \in i + 1 .. (i + 2) - 1 : m_pattern[n] \in Letter \cup {Shut}
  BY <1>1, <1>4
<1>8. i + 2 \in Nat /\ i + 1 <= i + 2 /\ i + 2 <= Size + 1
  BY <1>1, <1>2, <1>3
<1>9. CASE R[k].to = i + 1
  <2>1. ASSUME i + 2 <= Size PROVE m_pattern[i + 2] \notin Letter \cup {Open, Shut}
    <3>1. k + 1 \in 1 .. Len(R) /\ R[k + 1].from = i + 2 /\ Separate(R[k], R[k + 1])
      BY <1>1, <1>2, <1>9, <2>1
    <3>2. ~ HasFormat(R[k])
      BY <1>1, <1>9 DEF HasFormat
    <3>3. /\ R[k + 1].kind \in {"text", "field"}
          /\ R[k + 1].kind = "field" => IsField(R[k + 1])
      BY <3>1, Segments
    <3>4. Percent \notin Letter \cup {Open, Shut}
      BY PatternAssumption
    <3>5. QED
      BY <3>1, <3>2, <3>3, <3>4 DEF Separate, IsField
  <2>2. i + 2 = Size + 1 \/ (i + 2 <= Size /\ m_pattern[i + 2] \notin Letter \cup {Open, Shut})
    BY <1>1, <1>8, <2>1
  <2>3. NameEnd = i + 2
    BY <1>7, <1>8, <2>2, NameEndIs DEF Inv
  <2>4. ~ Braced
    BY <1>1, <2>2, <2>3 DEF Braced
  <2>5. i + 3 .. R[k].to - 1 = {} /\ i + 1 .. NameEnd - 1 = {i + 1}
    BY <1>1, <1>9, <2>3
  <2>6. NameStops => Found({i + 1}, {}, i + 2)
    BY <2>3, <2>5 DEF NameStops
  <2>7. NameAtEnd => Found({i + 1}, {}, i + 2)
    <3>1. ASSUME NameAtEnd PROVE Size = i + 1
      BY <1>1, <1>8, <2>3, <3>1 DEF NameAtEnd
    <3>2. Size = i + 1 => {Size} \ {i} = {i + 1} /\ Size + 1 = i + 2
      BY <1>1
    <3>3. ASSUME NameAtEnd PROVE Found({Size} \ {i}, {}, Size + 1)
      BY <3>3 DEF NameAtEnd
    <3>4. QED
      BY <3>1, <3>2, <3>3
  <2>8. ~ FormatFound /\ ~ Unclosed
    BY <2>4 DEF FormatFound, Unclosed
  <2>9. R[k].to + 1 = i + 2
    BY <1>1, <1>9
  <2>10. QED
    BY <1>5, <1>6, <2>5, <2>6, <2>7, <2>8, <2>9
<1>10. CASE HasFormat(R[k])
  <2>1. /\ i + 3 <= R[k].to /\ m_pattern[i + 2] = Open /\ m_pattern[R[k].to] = Shut
        /\ \A n \in i + 3 .. R[k].to - 1 : m_pattern[n] # Shut
    BY <1>10 DEF HasFormat
  <2>2. m_pattern[i + 2] \notin Letter \cup {Shut}
    BY <2>1, PatternAssumption
  <2>3. NameEnd = i + 2
    BY <1>7, <1>8, <2>2, NameEndIs DEF Inv
  <2>4. Braced /\ NameEnd <= Size /\ NameEnd + 1 = i + 3
    BY <1>1, <1>2, <2>1, <2>3 DEF Braced
  <2>5. Close = R[k].to
    BY <1>2, <2>1, <2>4, CloseIs DEF Inv
  <2>6. i + 1 .. NameEnd - 1 = {i + 1}
    BY <1>1, <2>3
  <2>7. FormatFound => Found({i + 1}, i + 3 .. R[k].to - 1, R[k].to + 1)
    BY <2>4, <2>5, <2>6 DEF FormatFound
  <2>8. ~ NameStops /\ ~ NameAtEnd /\ ~ Unclosed
    <3>1. ~ (NameEnd > Size) /\ ~ (Close > Size)
      BY <1>1, <1>2, <2>3, <2>4, <2>5
    <3>2. QED
      BY <2>4, <3>1 DEF NameStops, NameAtEnd, Unclosed
  <2>9. QED
    BY <1>5, <1>6, <2>7, <2>8
<1>11. QED
  BY <1>3, <1>9, <1>10

(* A % brings the parser to the end of its field.                           *)
LEMMA DirectiveFollows ==
  ASSUME Inv, NEW R, Means(R), Following(R),
         DoublePercent \/ NameStops \/ NameAtEnd \/ FormatFound \/ Unclosed
  PROVE  Following(R)'
<1>1. Reads(TRUE) /\ i <= Size
  BY DEF DoublePercent, NameStops, NameAtEnd, FormatFound, Unclosed, Directive, Reads
<1>2. PICK k \in 1 .. Len(R) : /\ R[k].from = i /\ R[k].kind = "field"
                               /\ Flushed = [j \in 1 .. k - 1 |-> ReadAs(R[j])]
  BY <1>1, FieldBegins
<1>3. /\ ~ Doubled /\ ~ Unclosed
      /\ NameStops \/ NameAtEnd \/ FormatFound =>
           Found({i + 1}, i + 3 .. R[k].to - 1, R[k].to + 1)
      /\ ReadAs(R[k]) = Piece("field", {i + 1}, i + 3 .. R[k].to - 1)
  BY <1>1, <1>2, FieldFound
<1>4. Found({i + 1}, i + 3 .. R[k].to - 1, R[k].to + 1)
  BY <1>3 DEF DoublePercent
<1>5. vec' = Append(Flushed, ReadAs(R[k])) /\ text' = {} /\ i' = R[k].to + 1
      /\ m_pattern' = m_pattern
  BY <1>3, <1>4 DEF Found
<1>6. k \in Nat /\ Len(R) \in Nat /\ k <= Len(R) /\ k - 1 \in Nat /\ (k - 1) + 1 = k
  BY DEF Means
<1>7. vec' = [j \in 1 .. k |-> ReadAs(R[j])] /\ Len(vec') = k
  BY <1>2, <1>5, <1>6, AppendRead
<1>8. Begin(R, k + 1)' = R[k].to + 1
  BY <1>5, Segments, SamePlaces
<1>9. QED
  BY <1>5, <1>6, <1>7, <1>8 DEF Following

(* At the end of the pattern no segment is left.                            *)
LEMMA EndFollows ==
  ASSUME Inv, NEW R, Means(R), Following(R), i > Size
  PROVE  Flushed = [j \in 1 .. Len(R) |-> ReadAs(R[j])]
<1> DEFINE k == Len(vec) + 1
<1>1. Size \in Nat /\ i \in Nat /\ i = Size + 1 /\ Len(vec) \in Nat /\ Len(R) \in Nat
  BY Indices DEF Inv, TypeOK, Means
<1>2. Len(vec) <= Len(R) /\ vec = [j \in 1 .. Len(vec) |-> ReadAs(R[j])]
  BY DEF Following
<1>3. ASSUME k <= Len(R)
      PROVE  /\ R[k].from \in Nat /\ R[k].to \in Nat /\ R[k].to <= Size /\ Begin(R, k) = R[k].from
             /\ R[k].kind \in {"text", "field"}
             /\ R[k].kind = "text" => IsText(R[k])
             /\ R[k].kind = "field" => IsField(R[k])
             /\ k + 1 <= Len(R) => /\ k + 1 \in 1 .. Len(R)
                                   /\ R[k + 1].from = R[k].to + 1
  <2>1. k \in 1 .. Len(R)
    BY <1>1, <1>3
  <2>2. QED
    BY <2>1, Segments
<1>4. CASE text = {} /\ i = Begin(R, k)
  <2>1. ~(k <= Len(R))
    BY <1>1, <1>3, <1>4 DEF IsText, IsField
  <2>2. Len(vec) = Len(R) /\ Flushed = vec
    BY <1>1, <1>2, <1>4, <2>1 DEF Flushed
  <2>3. QED
    BY <1>2, <2>2
<1>5. CASE k <= Len(R) /\ R[k].kind = "text" /\ R[k].from < i /\ i <= R[k].to + 1
           /\ text = R[k].from .. i - 1
  <2>1. R[k].to = Size /\ text = R[k].from .. R[k].to /\ R[k].from \in text
    BY <1>1, <1>3, <1>5
  <2>2. ASSUME k + 1 <= Len(R) PROVE FALSE
    <3>1. k + 1 \in 1 .. Len(R) /\ R[k + 1].from = Size + 1
      BY <1>3, <1>5, <2>1, <2>2
    <3>2. /\ R[k + 1].kind \in {"text", "field"} /\ R[k + 1].to \in Nat
          /\ R[k + 1].kind = "text" => IsText(R[k + 1])
          /\ R[k + 1].kind = "field" => IsField(R[k + 1])
          /\ R[k + 1].to <= Size
      BY <3>1, Segments
    <3>3. R[k + 1].from <= R[k + 1].to
      BY <1>1, <3>1, <3>2 DEF IsText, IsField
    <3>4. QED
      BY <1>1, <3>1, <3>2, <3>3
  <2>3. Len(R) = k
    BY <1>1, <1>5, <2>2
  <2>4. Flushed = Append(vec, ReadAs(R[Len(vec) + 1]))
    BY <1>5, <2>1 DEF Flushed, ReadAs
  <2>5. QED
    BY <1>1, <1>2, <2>3, <2>4, AppendRead
<1>6. QED
  BY <1>4, <1>5 DEF Following

(* Whatever reading of the pattern there is, every step follows it.         *)
LEMMA StepFollows ==
  ASSUME Inv, NEW R, Kept(R), [Next]_vars
  PROVE  Kept(R)'
<1>1. CASE SetPattern
  <2>1. pc' = "parse" /\ vec' = <<>> /\ text' = {} /\ i' = 1
    BY <1>1 DEF SetPattern
  <2>2. ASSUME Means(R)' PROVE Following(R)'
    <3>1. Begin(R, 1)' = 1 /\ Len(R) \in Nat
      BY <2>2 DEF Means
    <3>2. Len(vec') = 0 /\ vec' = [j \in 1 .. 0 |-> ReadAs(R[j])]
      BY <2>1
    <3>3. QED
      BY <2>1, <3>1, <3>2 DEF Following
  <2>3. QED
    BY <2>1, <2>2 DEF Kept
<1>2. CASE Parse
  <2>1. pc = "parse" /\ m_pattern' = m_pattern
    BY <1>2 DEF Parse, Literal, DoublePercent, NameStops, NameAtEnd, FormatFound, Unclosed,
                ParseEnd, Directive, Reads, Copy, Found
  <2>2. SUFFICES ASSUME Means(R)
                 PROVE  (pc' = "parse" => Following(R)') /\ (pc' = "ready" => ReadWhole(R)')
    BY <2>1, SamePlaces DEF Kept
  <2>3. Following(R)
    BY <2>1, <2>2 DEF Kept
  <2>4. CASE Literal
    BY <2>1, <2>2, <2>3, <2>4, LiteralFollows DEF Literal, Copy
  <2>5. CASE DoublePercent \/ NameStops \/ NameAtEnd \/ FormatFound \/ Unclosed
    <3>1. Following(R)'
      BY <2>2, <2>3, <2>5, DirectiveFollows
    <3>2. pc' = "parse"
      BY <2>1, <2>5 DEF DoublePercent, NameStops, NameAtEnd, FormatFound, Unclosed, Copy, Found
    <3>3. QED
      BY <3>1, <3>2
  <2>6. CASE ParseEnd
    <3>1. i > Size /\ vec' = Flushed /\ pc' = "ready"
      BY <2>6 DEF ParseEnd
    <3>2. Flushed = [j \in 1 .. Len(R) |-> ReadAs(R[j])]
      BY <2>2, <2>3, <3>1, EndFollows
    <3>3. QED
      BY <3>1, <3>2 DEF ReadWhole
  <2>7. QED
    BY <1>2, <2>4, <2>5, <2>6 DEF Parse
<1>3. CASE UNCHANGED vars
  <2>1. (Means(R)' <=> Means(R)) /\ \A k : Begin(R, k)' = Begin(R, k)
    BY <1>3, SamePlaces
  <2>2. Following(R)' <=> Following(R)
    BY <1>3, <2>1 DEF Following
  <2>3. QED
    BY <1>3, <2>1, <2>2 DEF Kept, ReadWhole
<1>4. CASE Finished
  BY <1>3, <1>4 DEF Finished
<1>5. QED
  BY <1>1, <1>2, <1>3, <1>4 DEF Next

LEMMA StepItems ==
  ASSUME Inv, FirstItems, [Next]_vars
  PROVE  FirstItems'
<1>1. parses \in Nat /\ parses >= 1
  BY DEF Inv, TypeOK, FirstItems
<1>2. CASE SetPattern
  <2>1. parses' = parses + 1
    BY <1>2 DEF SetPattern
  <2>2. QED
    BY <1>1, <2>1 DEF FirstItems
<1>3. CASE Literal \/ DoublePercent \/ NameStops \/ NameAtEnd \/ FormatFound \/ Unclosed
  <2>1. pc = "parse" /\ pc' = "parse" /\ m_items' = m_items /\ parses' = parses
    BY <1>3 DEF Literal, DoublePercent, NameStops, NameAtEnd, FormatFound, Unclosed,
                Directive, Reads, Copy, Found
  <2>2. QED
    BY <2>1 DEF FirstItems
<1>4. CASE ParseEnd
  <2> DEFINE made == [k \in DOMAIN Flushed |-> Item(Flushed[k])]
  <2>1. /\ pc = "parse" /\ pc' = "ready" /\ vec' = Flushed /\ m_items' = m_items \o made
        /\ parses' = parses /\ m_pattern' = m_pattern
    BY <1>4 DEF ParseEnd, Built
  <2>2. Flushed \in Seq(Pieces)
    BY FlushKeeps DEF Inv
  <2>3. /\ Len(Flushed) \in Nat /\ DOMAIN Flushed = 1 .. Len(Flushed)
        /\ \A k \in DOMAIN Flushed : Flushed[k] \in Pieces
    BY <2>2
  <2>4. made \in Seq(Items)
    BY <2>3, ItemIs
  <2>5. [k \in DOMAIN vec' |-> Item(vec[k])'] = made
    <3>1. \A k \in DOMAIN Flushed : Item(vec[k])' = Item(Flushed[k])
      BY <2>1 DEF Item, Known
    <3>2. QED
      BY <2>1, <3>1
  <2> HIDE DEF made
  <2>6. m_items = <<>> => m_items' = made
    BY <2>1, <2>4, ConcatEmptySeq
  <2>7. QED
    BY <1>1, <2>1, <2>5, <2>6 DEF FirstItems
<1>5. CASE UNCHANGED vars
  BY <1>5 DEF FirstItems, Item, Known
<1>6. CASE Finished
  BY <1>5, <1>6 DEF Finished
<1>7. QED
  BY <1>2, <1>3, <1>4, <1>5, <1>6 DEF Next, Parse

(* A line shows what its items stand for.                                   *)
LEMMA ShownIs ==
  ASSUME TypeOK, NEW R, Means(R), ReadWhole(R), NEW k \in DOMAIN R
  PROVE  /\ R[k].kind = "text" => Item(vec[k]).kind = "text"
         /\ R[k].kind # "text" => /\ Item(vec[k]).kind = "field"
                                  /\ Item(vec[k]).letter = m_pattern[R[k].from + 1]
<1>1. k \in 1 .. Len(R) /\ vec[k] = ReadAs(R[k])
  BY DEF ReadWhole, Means
<1>2. /\ R[k].kind \in {"text", "field"} /\ R[k].from \in Nat
      /\ R[k].kind = "field" => IsField(R[k])
  BY <1>1, Segments
<1>3. CASE R[k].kind = "text"
  BY <1>1, <1>3 DEF ReadAs, Piece, Item
<1>4. CASE R[k].kind = "field"
  <2> DEFINE piece == vec[k]
             place == R[k].from + 1
  <2>1. piece.kind = "field" /\ piece.str = {place} /\ m_pattern[place] \in Field
    BY <1>1, <1>2, <1>4 DEF ReadAs, Piece, IsField
  <2>2. Known(piece) /\ (CHOOSE n \in piece.str : TRUE) = place
    BY <2>1 DEF Known
  <2> HIDE DEF piece, place
  <2>3. Item(piece).kind = "field" /\ Item(piece).letter = m_pattern[place]
    BY <2>1, <2>2 DEF Item
  <2>4. QED
    BY <1>4, <2>3 DEF piece, place
<1>5. QED
  BY <1>2, <1>3, <1>4

LEMMA MeaningShown ==
  ASSUME NEW letter \in DOMAIN Meaning
  PROVE  Shown(letter, "level") = Meaning[letter]
<1>1. letter \in {"m", "p", "t", "n", "d", "f", "l", "T"}
  BY DEF Meaning
<1>2. QED
  BY <1>1 DEF Shown, Meaning, Event
-----------------------------------------------------------------------------
(* Theorems *)

LEMMA Initially == Init => Inv
<1> SUFFICES ASSUME Init PROVE Inv
  OBVIOUS
<1>1. m_pattern \in Seq(Char)
  BY PatternAssumption DEF Init
<1>2. SpelledOut /\ i \in 1 .. Size + 1 /\ vec \in Seq(Pieces) /\ ~Waiting(vec)
  BY <1>1, BeginKeeps DEF Init
<1>3. TypeOK
  <2>1. text = {} /\ m_items = <<>> /\ m_error = FALSE /\ pc = "parse" /\ parses = 1
    BY DEF Init
  <2>2. m_items \in Seq(Items)
    BY <2>1
  <2>3. text \in SUBSET Nat /\ parses \in Nat
    BY <2>1
  <2>4. QED
    BY <1>1, <1>2, <2>1, <2>2, <2>3 DEF TypeOK
<1>4. Marked
  BY <1>2 DEF Init, Marked, Faulty
<1>5. QED
  BY <1>2, <1>3, <1>4 DEF Inv

LEMMA Stutters ==
  ASSUME Inv, UNCHANGED vars
  PROVE  Inv'
BY DEF Inv, TypeOK, SpelledOut, Marked, Size, Copied, InLastName, Faulty, Waiting

(* Every step keeps the invariant, and those inside the loop go forward.    *)
LEMMA StepKeeps ==
  ASSUME Inv, [Next]_vars
  PROVE  Inv' /\ (pc = "parse" /\ pc' = "parse" => UNCHANGED vars \/ (i < i' /\ i' <= Size + 1))
<1>1. CASE Literal \/ DoublePercent
  <2>1. Copy /\ i <= Size /\ Size \in Nat /\ i \in Nat
    BY <1>1, Indices DEF Literal, DoublePercent, Reads, Inv
  <2>2. TypeOK' /\ SpelledOut' /\ Marked'
    BY <1>1, <2>1, CopyKeeps, LoopMarks
  <2>3. i < i' /\ i' <= Size + 1
    BY <2>1 DEF Copy
  <2>4. QED
    BY <2>2, <2>3 DEF Inv
<1>2. CASE NameStops \/ NameAtEnd \/ FormatFound
  BY <1>2, DirectiveKeeps, LoopMarks DEF Inv
<1>3. CASE Unclosed
  BY <1>3, UnclosedKeeps, LoopMarks DEF Inv
<1>4. CASE ParseEnd
  <2>1. pc' # "parse"
    BY <1>4 DEF ParseEnd
  <2>2. QED
    BY <1>4, <2>1, ParseEndKeeps
<1>5. CASE SetPattern
  <2>1. pc # "parse"
    BY <1>5 DEF SetPattern
  <2>2. QED
    BY <1>5, <2>1, SetPatternKeeps
<1>6. CASE UNCHANGED vars
  BY <1>6, Stutters
<1>7. CASE Finished
  BY <1>7, <1>6 DEF Finished
<1>8. QED
  BY <1>1, <1>2, <1>3, <1>4, <1>5, <1>6, <1>7 DEF Next, Parse

LEMMA Invariance == Spec => []Inv
<1>1. Inv /\ [Next]_vars => Inv'
  BY StepKeeps
<1>2. QED
  BY <1>1, Initially, PTL DEF Spec

(* A line has the parts of its pattern in their order: for every pattern,   *)
(* and at every point of parse (log.cpp 229-324), what is in no piece are   *)
(* the characters of directives and the loss at the pattern's end.          *)
THEOREM NothingLost == Spec => []SpelledOut
<1>1. Inv => SpelledOut
  BY DEF Inv
<1>2. QED
  BY <1>1, Invariance, PTL

(* isError() answers what the lines will show, after any number of patterns *)
(* given to one formatter (log.cpp 283, 336; log.hpp 131-134).              *)
THEOREM ErrorsMarked == Spec => []ErrorMarked
<1>1. Inv => ErrorMarked
  BY DEF Inv, Marked, ErrorMarked, Faulty
<1>2. QED
  BY <1>1, Invariance, PTL

(* The loop of parse passes a character in every round and never the end of *)
(* the pattern, so that it ends for every pattern (log.cpp 233-321).        *)
THEOREM LoopAdvances == Spec => ParseAdvances
<1>1. Inv /\ [Next]_vars => [pc = "parse" /\ pc' = "parse" => i < i' /\ i' <= Size + 1]_vars
  BY StepKeeps
<1>2. QED
  BY <1>1, Invariance, PTL DEF Spec, ParseAdvances

(* The invariant for every reading, of any length.                          *)
AllKept == FirstItems /\ \A R : Kept(R)

(* A pattern made of fields and of texts without percent signs that do not  *)
(* run into each other (Separate) is read as these, however long it is and  *)
(* whichever pattern of its formatter it is (log.cpp 229-324), and a line   *)
(* of the first one shows for each field but %r what the comment at log.cpp *)
(* 290-300 says.                                                            *)
ReadsAny == pc = "ready" => \A reading : Means(reading) => AsMeant(reading)

THEOREM ReadAsMeant == Spec => []ReadsAny
<1>1. Init => AllKept
  <2> SUFFICES ASSUME Init PROVE AllKept
    OBVIOUS
  <2>1. FirstItems
    BY DEF Init, FirstItems
  <2>2. ASSUME NEW R, Means(R) PROVE Following(R)
    <3>1. Begin(R, 1) = 1 /\ Len(R) \in Nat
      BY <2>2 DEF Means
    <3>2. vec = <<>> /\ text = {} /\ i = 1
      BY DEF Init
    <3>3. Len(vec) = 0 /\ vec = [j \in 1 .. 0 |-> ReadAs(R[j])]
      BY <3>2
    <3>4. QED
      BY <3>1, <3>2, <3>3 DEF Following
  <2>3. pc = "parse"
    BY DEF Init
  <2>4. QED
    BY <2>1, <2>2, <2>3 DEF AllKept, Kept
<1>2. Inv /\ AllKept /\ [Next]_vars => AllKept'
  <2> SUFFICES ASSUME Inv, AllKept, [Next]_vars PROVE AllKept'
    OBVIOUS
  <2>1. FirstItems'
    BY StepItems DEF AllKept
  <2>2. ASSUME NEW R PROVE Kept(R)'
    <3>1. Kept(R)
      BY DEF AllKept
    <3>2. QED
      BY <3>1, StepFollows
  <2>3. QED
    BY <2>1, <2>2 DEF AllKept
<1>3. Inv /\ AllKept => ReadsAny
  <2> SUFFICES ASSUME Inv, AllKept, pc = "ready", NEW R, Means(R) PROVE AsMeant(R)
    BY DEF ReadsAny
  <2>1. ReadWhole(R) /\ R \in Seq(Segment) /\ DOMAIN R = 1 .. Len(R)
    BY DEF AllKept, Kept, Means
  <2>2. vec = [k \in DOMAIN R |-> ReadAs(R[k])] /\ DOMAIN vec = DOMAIN R
    BY <2>1 DEF ReadWhole
  <2>3. ASSUME parses = 1 PROVE ShownAs(R)
    <3>1. DOMAIN m_items = DOMAIN R /\ \A k \in DOMAIN R : m_items[k] = Item(vec[k])
      BY <2>2, <2>3 DEF AllKept, FirstItems
    <3>2. DOMAIN Line("level") = DOMAIN R
      BY <3>1 DEF Line
    <3>3. ASSUME NEW k \in DOMAIN R
          PROVE  Line("level")[k] = IF R[k].kind = "text" THEN "text"
                                    ELSE Shown(m_pattern[R[k].from + 1], "level")
      <4>1. Line("level")[k] = IF m_items[k].kind = "text" THEN "text"
                               ELSE Shown(m_items[k].letter, "level")
        BY <3>1 DEF Line
      <4>2. /\ R[k].kind = "text" => Item(vec[k]).kind = "text"
            /\ R[k].kind # "text" => /\ Item(vec[k]).kind = "field"
                                     /\ Item(vec[k]).letter = m_pattern[R[k].from + 1]
        BY <2>1, <3>3, ShownIs DEF Inv
      <4>3. QED
        BY <3>1, <4>1, <4>2
    <3>4. QED
      BY <3>2, <3>3, MeaningShown DEF ShownAs
  <2>4. QED
    BY <2>2, <2>3 DEF AsMeant
<1>4. QED
  BY <1>1, <1>2, <1>3, Invariance, PTL DEF Spec

(* The same of the readings Meant gives for the patterns: fields and texts *)
(* without percent signs that do not run into each other.                  *)
THEOREM PatternsReadAsMeant == Spec => []ReadsMeant
<1>1. ReadsAny => ReadsMeant
  BY DEF ReadsAny, ReadsMeant
<1>2. QED
  BY <1>1, ReadAsMeant, PTL
=============================================================================
