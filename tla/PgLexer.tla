------------------------------ MODULE PgLexer -------------------------------
(***************************************************************************)
(* PostgreSQL's own lexer, reduced to what decides where a statement ends: *)
(* the reference of the splitter.  An identifier may hold dollar signs     *)
(* after its first character, an E string goes on after a newline, and a   *)
(* text with something unterminated, or a number that runs into a name, is *)
(* not lexed at all.                                                       *)
(***************************************************************************)
EXTENDS Splitter

IdentStart(c) == c \in {"e", "x", Marker}

IdentEnd(t, i) ==
    Least({Past(t)} \cup {j \in i..Len(t) : ~(IdentStart(t[j]) \/ t[j] \in {"1", "$"})})

\* Where a token ends that the lexer refuses.
Refused == 0

\* Where a quoted string that has ended at j is taken up again: after whitespace
\* with a newline in it.
Resumes(t, j) ==
    {k \in (j + 1)..Len(t) :
        /\ t[k] = "'"
        /\ \A n \in j..(k - 1) : Trimmed(t[n])
        /\ \E n \in j..(k - 1) : t[n] = Newline}

StringEnd(t, i, escapes) ==
    LET quote == t[i]
        end[j \in 1..(Past(t) + 1)] ==
            IF j > Len(t) THEN Refused
            ELSE IF t[j] = Backslash /\ escapes THEN end[j + 2]
            ELSE IF t[j] # quote THEN end[j + 1]
            ELSE IF At(t, j + 1, quote) THEN end[j + 2]
            ELSE IF quote = "'" /\ Resumes(t, j + 1) # {} THEN end[Least(Resumes(t, j + 1)) + 1]
            ELSE j + 1
    IN  end[i + 1]

CommentEnd(t, i) ==
    LET end[j \in 1..Past(t)] ==
            [depth \in Nat |->
                IF depth = 0 THEN j
                ELSE IF j > Len(t) THEN Refused
                ELSE IF Starts(t, j, <<"/", "*">>) THEN end[j + 2][depth + 1]
                ELSE IF Starts(t, j, <<"*", "/">>) THEN end[j + 2][depth - 1]
                ELSE end[j + 1][depth]]
    IN  end[i + 2][1]

PgDollarEnd(t, i) ==
    LET tag_end == DollarTagEnd(t, i)
    IN  IF tag_end = 0 THEN i + 1
        ELSE IF Closings(t, i, tag_end) = {} THEN Refused
        ELSE Least(Closings(t, i, tag_end)) + (tag_end - i)

OpensEString(t, i) == t[i] = "e" /\ At(t, i + 1, "'")

TokenEnd(t, i) ==
    CASE Starts(t, i, <<"-", "-">>) -> LineCommentEnd(t, i)
      [] Starts(t, i, <<"/", "*">>) -> CommentEnd(t, i)
      [] OpensEString(t, i) -> StringEnd(t, i + 1, TRUE)
      [] IdentStart(t[i]) /\ ~OpensEString(t, i) -> IdentEnd(t, i)
      [] t[i] = "1" /\ i < Len(t) /\ IdentStart(t[i + 1]) -> Refused
      [] t[i] \in {"'", DoubleQuote} -> StringEnd(t, i, FALSE)
      [] t[i] = "$" -> PgDollarEnd(t, i)
      [] OTHER -> i + 1

\* The positions where tokens start; Refused among them when the text does not lex.
Tokens(t) ==
    LET from[i \in 0..Past(t)] ==
            IF i = Refused THEN {Refused}
            ELSE IF i > Len(t) THEN {}
            ELSE {i} \cup from[TokenEnd(t, i)]
    IN  from[1]

Lexes(t) == Refused \notin Tokens(t)

Semicolons(t) == {i \in Tokens(t) : t[i] = ";"}

DollarInIdentifier(t) ==
    \E i \in Tokens(t) : IdentStart(t[i]) /\ "$" \in Elements(SubSeq(t, i, IdentEnd(t, i) - 1))

SplitterSemicolons(t) == {c.from : c \in {d \in Elements(Lex(t)) : d.kind = "semicolon"}}

\* Where there are escapes no string is taken up again on another line: an E string that
\* is keeps its escapes in Postgres alone (split.rs:86).
EscapesOnOneLine(t) ==
    Backslash \in Elements(t) => \A i \in DOMAIN t : t[i] = "'" => Resumes(t, i + 1) = {}

-----------------------------------------------------------------------------
(* Properties. *)

\* "Understands PG quoting (dollar quotes, E-strings, doubled quotes, nested block
\* comments) just enough to find top-level semicolons" (split.rs:1): in a text
\* Postgres can lex, the splitter cuts at exactly the semicolons Postgres sees, unless
\* an identifier holds a dollar sign, which the splitter takes for a quote (split.rs:170).
CutsWherePostgresDoes ==
    Lexes(text) /\ ~DollarInIdentifier(text) => SplitterSemicolons(text) = Semicolons(text)

\* No vertical tab, which str::trim takes for whitespace and the splitter (split.rs:45,
\* is_ascii_whitespace) does not.
KnownWhitespace == \A alphabet \in Alphabets : "v" \notin alphabet.chars

\* A dollar-quoted constant and its body.
Encloses(t, c, body) ==
    LET tag == SubSeq(t, c.from, DollarTagEnd(t, c.from) - 1)
    IN  t[c.from] = "$" /\ SubSeq(t, c.from, c.to - 1) = tag \o body \o tag

\* A statement handed on by itself is lexed as it was in the file, for the parser, the
\* sniff and the marker scan all see it out of its file: split again it is one statement,
\* itself, from line 1; and the body a DO block is scanned for is what the splitter kept
\* together, not cut by a semicolon of its own and not found in a string or a comment.
StandsAlone ==
    \A raw \in Elements(Split(text)) :
        LET whole(body) ==
                body # NoBody => \E c \in Elements(Lex(raw.text)) : Encloses(raw.text, c, body)
        IN  Split(raw.text) = << [raw EXCEPT !.line = 1] >> /\ whole(DollarQuotedBody(raw.text))

Extends(longer, shorter) ==
    \A n \in DOMAIN shorter : n \in DOMAIN longer /\ longer[n] = shorter[n]

\* Text that comes after a terminated statement cannot change it: what a file adds
\* at its end never moves the cuts already made.
TerminatedIsFinal ==
    [][Extends(Terminated(text'), Terminated(text))]_text

\* "Markers written in the file but attached to no statement [...] would otherwise
\* vanish silently; they get a note" (lib.rs:99): every marker in a comment either
\* exempts the statement it is in or is reported as stranded, at its line, and none
\* does both.
MarkersAccounted ==
    LET accounted(written, attached) ==
            \A line \in 1..LineOf(text, Past(text)) :
                Times(attached, line) + Stranded(written, attached, line) = Times(written, line)
    IN  accounted(CommentMarkerLines(text), AttachedLines(Split(text)))
=============================================================================
