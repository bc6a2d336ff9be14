------------------------------- MODULE Sniff --------------------------------
(***************************************************************************)
(* Whose analysis is incomplete (extract.rs): sniff finds the table of a   *)
(* statement no parser could read from its first words.  A statement's     *)
(* beginning is [verb, modifiers, if, only, comment, name]; a token is     *)
(* [word, quoted], its word a sequence of parts as in Identifiers, with    *)
(* Dot at the end when it stops at one.                                    *)
(***************************************************************************)
EXTENDS Identifiers, FiniteSets

CONSTANTS
    SniffedNames,   \* the names of their tables
    OnlyAfterIf,    \* whether ONLY may follow IF EXISTS
    Comments,       \* whether a comment may stand before the name
    LongHeadings    \* whether the name may end past the last token looked at

ASSUME SniffAssumption == {OnlyAfterIf, Comments, LongHeadings} \subseteq BOOLEAN

MaxTokens == 8

Dot == "."

Modifiers ==
    { << >>, << "unlogged" >>, << "temporary" >>, << "temp" >>,
      << "global", "temporary" >>, << "local", "temp" >> }

Alter ==
    [ verb : {"alter"}, modifiers : {<< >>}, if : BOOLEAN, only : BOOLEAN,
      comment : BOOLEAN, name : SniffedNames ]

Create ==
    [ verb : {"create"}, modifiers : Modifiers, if : BOOLEAN, only : {FALSE},
      comment : BOOLEAN, name : SniffedNames ]

\* A name the sniff can tell: its schema is not quoted, no part of it holds a dot,
\* and it is none of the words that may stand before it.
Sniffable(name) ==
    /\ Len(name) \in {1, 2}
    /\ \A i \in 1..Len(name) :
          /\ name[i].text \in Seq(Elements(name[i].text)) \ {<< >>}
          /\ Dot \notin Elements(name[i].text)
          /\ name[i].quoted \in BOOLEAN
    /\ Len(name) = 2 => ~name[1].quoted
    /\ Len(name) = 1 => name[1].text \notin {<< "only" >>, << "if" >>}

-----------------------------------------------------------------------------
(* sniff_tokens. *)

Word(word) == [word |-> << word >>, quoted |-> FALSE]

Token(ident) == [word |-> ident.text, quoted |-> ident.quoted]

\* A run of unquoted characters is one token, dots included.
NameTokens(name) ==
    IF Len(name) = 1 THEN << Token(name[1]) >>
    ELSE LET schema == name[1]
             table == name[2]
         IN  CASE ~schema.quoted /\ ~table.quoted ->
                      << [word |-> schema.text \o table.text, quoted |-> FALSE] >>
               [] ~schema.quoted /\ table.quoted ->
                      << [word |-> Append(schema.text, Dot), quoted |-> FALSE], Token(table) >>
               [] schema.quoted /\ ~table.quoted ->
                      << Token(schema), [word |-> << Dot >> \o table.text, quoted |-> FALSE] >>
               [] OTHER -> << Token(schema), Word(Dot), Token(table) >>

Words(seq) == [i \in DOMAIN seq |-> Word(seq[i])]

Optional(present, seq) == IF present THEN Words(seq) ELSE << >>

\* The words of a comment are tokens like any other.
AllTokens(s) ==
    Words(<< s.verb >> \o s.modifiers \o << "table" >>)
    \o Optional(s.if, IF s.verb = "alter" THEN << "if", "exists" >>
                      ELSE << "if", "not", "exists" >>)
    \o Optional(s.only, << "only" >>)
    \o Optional(s.comment, << "remark" >>)
    \o NameTokens(s.name)

Headings ==
    {s \in Alter \cup Create :
        /\ s.comment => Comments
        /\ s.if /\ s.only => OnlyAfterIf
        /\ Len(AllTokens(s)) > MaxTokens => LongHeadings}

SniffTokens(s) ==
    LET tokens == AllTokens(s)
    IN  SubSeq(tokens, 1, IF Len(tokens) < MaxTokens THEN Len(tokens) ELSE MaxTokens)

-----------------------------------------------------------------------------
(* sniff. *)

Nothing == [kind |-> "nothing"]

Is(tokens, i, word) == i <= Len(tokens) /\ tokens[i].word = << word >>

SniffKey(token) == IF token.quoted THEN token.word ELSE Lowered(token.word)

\* Fault: a qualified name stops at its schema.
SchemaKeyAt(kind, tokens, i) ==
    IF i > Len(tokens) THEN Nothing
    ELSE [kind |-> kind, key |-> SniffKey(tokens[i])]

\* The key of the name at i; a schema's dot takes the next token along.
KeyAt(kind, tokens, i) ==
    IF i > Len(tokens) THEN Nothing
    ELSE IF tokens[i].quoted \/ LastOf(tokens[i].word) # Dot
    THEN [kind |-> kind, key |-> SniffKey(tokens[i])]
    ELSE IF i = Len(tokens) THEN Nothing
    ELSE [ kind |-> kind,
           key |-> SniffKey([tokens[i] EXCEPT !.word = SubSeq(@, 1, Len(@) - 1)])
                       \o tokens[i + 1].word ]

\* ONLY is looked for first, and IF EXISTS after it.
AlterNameAt(tokens) ==
    LET i == IF Is(tokens, 3, "only") THEN 4 ELSE 3
    IN  IF Is(tokens, i, "if") THEN i + 2 ELSE i

ModifierWords == {<< w >> : w \in {"global", "local", "temporary", "temp", "unlogged"}}

\* The first word after CREATE that is no modifier.
TableAt(tokens) ==
    CHOOSE i \in 2..(Len(tokens) + 1) :
        /\ i > Len(tokens) \/ tokens[i].word \notin ModifierWords
        /\ \A j \in 2..(i - 1) : tokens[j].word \in ModifierWords

SniffOf(tokens) ==
    IF Is(tokens, 1, "alter")
    THEN IF Is(tokens, 2, "table") THEN KeyAt("alter", tokens, AlterNameAt(tokens)) ELSE Nothing
    ELSE LET i == TableAt(tokens)
         IN  IF ~Is(tokens, i, "table") THEN Nothing
             ELSE KeyAt("create", tokens, IF Is(tokens, i + 1, "if") THEN i + 4 ELSE i + 1)
=============================================================================
