------------------------------ MODULE Splitter ------------------------------
(***************************************************************************)
(* The tolerant statement splitter (split.rs) over a text that grows by    *)
(* one character at a time.  A character is one of the classes the lexer   *)
(* tells apart; the ignore marker is one character, for it never straddles *)
(* two constructs.  A text is a sequence, its positions start at 1, and a  *)
(* position's line is one more than the newlines before it.                *)
(*                                                                         *)
(* The three scanners of the file walk the same constructs, so the walk is *)
(* one definition, Lex, and they are what is read off it.                  *)
(***************************************************************************)
EXTENDS Collections, FiniteSets

CONSTANTS
    Alphabets   \* what the texts are made of, and bound: [chars, length]

Newline == "newline"
Marker == "marker"
DoubleQuote == "double quote"
Backslash == "backslash"

\* "v" is whitespace to str::trim alone, as a vertical tab is; "x" and "e" are
\* letters, "1" a digit.
Char ==
    { "-", "/", "*", ";", "'", "$", "e", "x", "1", " ", "v",
      Newline, Marker, DoubleQuote, Backslash }

ASSUME SplitterAssumption == Alphabets \subseteq [chars : SUBSET Char, length : Nat]

VARIABLE text

-----------------------------------------------------------------------------
(* Characters and positions. *)

\* The marker's letters are identifier bytes, its colon is not.
IdentByte(c) == c \in {"e", "x", "1"}

EndsIdent(c) == IdentByte(c) \/ c = Marker

AsciiWhitespace(c) == c \in {" ", Newline}

Trimmed(c) == AsciiWhitespace(c) \/ c = "v"

Past(t) == Len(t) + 1

At(t, i, c) == i <= Len(t) /\ t[i] = c

Starts(t, i, word) ==
    i + Len(word) <= Past(t) /\ SubSeq(t, i, i + Len(word) - 1) = word

Least(S) == CHOOSE i \in S : \A j \in S : i <= j

LineOf(t, i) == 1 + Cardinality({j \in 1..(i - 1) : t[j] = Newline})

-----------------------------------------------------------------------------
(* The skip functions: where the construct that begins at i ends. *)

\* Stops at the newline.
LineCommentEnd(t, i) ==
    Least({Past(t)} \cup {j \in i..Len(t) : t[j] = Newline})

\* Block comments nest.
BlockCommentEnd(t, i) ==
    LET end[j \in 1..Past(t)] ==
            [depth \in Nat |->
                IF j > Len(t) \/ depth = 0 THEN j
                ELSE IF Starts(t, j, <<"/", "*">>) THEN end[j + 2][depth + 1]
                ELSE IF Starts(t, j, <<"*", "/">>) THEN end[j + 2][depth - 1]
                ELSE end[j + 1][depth]]
    IN  end[i + 2][1]

\* Fault: the e may end an identifier.
AnyEString(t, i) == i > 1 /\ t[i - 1] = "e"

\* An E'...' string: the e is not the end of an identifier.
EString(t, i) == i > 1 /\ t[i - 1] = "e" /\ (i > 2 => ~EndsIdent(t[i - 2]))

\* A doubled quote stays inside; an escape takes the next character along.
QuotedEnd(t, i, escapes) ==
    LET quote == t[i]
        end[j \in 1..(Past(t) + 1)] ==
            IF j > Len(t) THEN Past(t)
            ELSE IF t[j] = Backslash /\ escapes THEN end[j + 2]
            ELSE IF t[j] # quote THEN end[j + 1]
            ELSE IF At(t, j + 1, quote) THEN end[j + 2]
            ELSE j + 1
    IN  end[i + 1]

\* dollar_tag_end: just past the tag that opens at i, or 0 when none does.
DollarTagEnd(t, i) ==
    LET j == Least({Past(t)} \cup {k \in (i + 1)..Len(t) : ~IdentByte(t[k])})
    IN  IF At(t, i + 1, "1") \/ ~At(t, j, "$") THEN 0 ELSE j + 1

\* Where the tag [i, tag_end) recurs, if it does.
Closings(t, i, tag_end) ==
    {j \in tag_end..Len(t) : Starts(t, j, SubSeq(t, i, tag_end - 1))}

\* Fault: a body that is not closed is not a body.
ClosedDollarEnd(t, i) ==
    LET tag_end == DollarTagEnd(t, i)
    IN  IF tag_end = 0 \/ Closings(t, i, tag_end) = {} THEN i + 1
        ELSE Least(Closings(t, i, tag_end)) + (tag_end - i)

\* An unterminated body swallows the rest; what opens no tag is plain content.
DollarEnd(t, i) ==
    LET tag_end == DollarTagEnd(t, i)
    IN  IF tag_end = 0 THEN i + 1
        ELSE IF Closings(t, i, tag_end) = {} THEN Past(t)
        ELSE Least(Closings(t, i, tag_end)) + (tag_end - i)

\* The construct at i: what it is, and where it ends.
Construct(t, i) ==
    LET is(kind, end) == [kind |-> kind, from |-> i, to |-> end]
    IN  CASE Starts(t, i, <<"-", "-">>) -> is("comment", LineCommentEnd(t, i))
          [] Starts(t, i, <<"/", "*">>) -> is("comment", BlockCommentEnd(t, i))
          [] t[i] = ";" -> is("semicolon", i + 1)
          [] AsciiWhitespace(t[i]) -> is("space", i + 1)
          [] t[i] = "'" -> is("content", QuotedEnd(t, i, EString(t, i)))
          [] t[i] = DoubleQuote -> is("content", QuotedEnd(t, i, FALSE))
          [] t[i] = "$" -> is("content", DollarEnd(t, i))
          [] OTHER -> is("content", i + 1)

Lex(t) ==
    LET rest[i \in 1..Past(t)] ==
            LET then(c) == << c >> \o rest[c.to]
            IN  IF i > Len(t) THEN << >> ELSE then(Construct(t, i))
    IN  rest[1]

-----------------------------------------------------------------------------
(* split: the stretches between semicolons, from their first content on. *)

Trim(t) ==
    LET kept == {i \in DOMAIN t : ~Trimmed(t[i])}
    IN  IF kept = {} THEN << >>
        ELSE SubSeq(t, Least(kept), CHOOSE i \in kept : \A j \in kept : i >= j)

PushTrimmed(out, trimmed, line) ==
    IF trimmed = << >> THEN out ELSE Append(out, [text |-> trimmed, line |-> line])

\* push_stmt, when content has started.
Push(out, t, start, end) ==
    IF start = 0 THEN out
    ELSE PushTrimmed(out, Trim(SubSeq(t, start, end - 1)), LineOf(t, start))

\* The statements the constructs end with a semicolon, and where the open one
\* started (0: nowhere yet).
Cuts(t, constructs) ==
    LET step(before, c) ==
            CASE c.kind = "semicolon" ->
                     [out |-> Push(before.out, t, before.start, c.from), start |-> 0]
              [] c.kind = "content" /\ before.start = 0 -> [before EXCEPT !.start = c.from]
              [] OTHER -> before
        after[n \in 0..Len(constructs)] ==
            IF n = 0 THEN [out |-> << >>, start |-> 0]
            ELSE step(after[n - 1], constructs[n])
    IN  after[Len(constructs)]

Terminated(t) == Cuts(t, Lex(t)).out

Close(t, cut) == Push(cut.out, t, cut.start, Past(t))

Split(t) == Close(t, Cuts(t, Lex(t)))

-----------------------------------------------------------------------------
(* Ignore markers (comment_marker_lines, and lib.rs analyze_sources_with). *)

\* The lines of a set of positions, in order.
LinesOf(t, positions) ==
    [n \in 1..Cardinality(positions) |->
        LineOf(t, CHOOSE i \in positions : Cardinality({j \in positions : j < i}) = n - 1)]

\* The markers inside comments.
CommentMarkers(t, constructs) ==
    {i \in DOMAIN t :
        /\ t[i] = Marker
        /\ \E c \in Elements(constructs) : c.kind = "comment" /\ i \in c.from..(c.to - 1)}

CommentMarkerLines(t) == LinesOf(t, CommentMarkers(t, Lex(t)))

\* Fault: both lines count from 1.
AbsoluteOff(line, relative) == [n \in DOMAIN relative |-> line + relative[n]]

\* The lines, in the file, of lines of a statement.
Absolute(line, relative) == [n \in DOMAIN relative |-> line + relative[n] - 1]

\* The lines of the markers attached to the statements.
AttachedLines(statements) ==
    LET upto[n \in 0..Len(statements)] ==
            IF n = 0 THEN << >>
            ELSE upto[n - 1] \o Absolute(statements[n].line, CommentMarkerLines(statements[n].text))
    IN  upto[Len(statements)]

Times(lines, line) == Cardinality({n \in DOMAIN lines : lines[n] = line})

\* How often a line stays in `stranded`: each attached marker takes one away.
Stranded(written, attached, line) ==
    LET left == Times(written, line) - Times(attached, line)
    IN  IF left > 0 THEN left ELSE 0

-----------------------------------------------------------------------------
(* dollar_quoted_body: the first body of a DO statement. *)

NoBody == "no body"

BodyFrom(t, i, tag_end) ==
    IF Closings(t, i, tag_end) = {} THEN NoBody
    ELSE SubSeq(t, tag_end, Least(Closings(t, i, tag_end)) - 1)

FirstBody(t, opens) ==
    IF opens = {} THEN NoBody
    ELSE BodyFrom(t, Least(opens), DollarTagEnd(t, Least(opens)))

\* Fault: a dollar sign inside quotes or comments will do.
AnyDollarBody(t) == FirstBody(t, {i \in DOMAIN t : t[i] = "$" /\ DollarTagEnd(t, i) # 0})

DollarQuotedBody(t) ==
    FirstBody(t, {i \in {c.from : c \in Elements(Lex(t))} :
                     t[i] = "$" /\ DollarTagEnd(t, i) # 0})

-----------------------------------------------------------------------------

TextInit == text = << >>

Write(alphabet) ==
    /\ Elements(text) \subseteq alphabet.chars
    /\ Len(text) < alphabet.length
    /\ \E c \in alphabet.chars : text' = Append(text, c)

TextNext == \E alphabet \in Alphabets : Write(alphabet)

TextSpec == TextInit /\ [][TextNext]_text
=============================================================================
