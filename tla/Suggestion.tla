----------------------------- MODULE Suggestion -----------------------------
(***************************************************************************)
(* The reordered CREATE TABLE of --suggest (render.rs), for a table whose  *)
(* names either parser front end has kept the spelling of, and what        *)
(* PostgreSQL would make of it.  An identifier is that of Identifiers; its *)
(* text is a sequence of characters.  A type stands for all of what a      *)
(* column declares but its name.                                           *)
(***************************************************************************)
EXTENDS Identifiers, FiniteSets

CONSTANTS
    Backends,       \* the front ends that may read the table's statements
    ColumnNames,    \* identifiers columns are given
    TableNames,     \* identifiers the table is given
    Types,
    Reserved,       \* keywords PostgreSQL takes for no name unless quoted
    MaxColumns      \* bound: columns of the table

VARIABLES
    backend,
    table,      \* [key, display]
    columns     \* of [key, display, type], as folded

vars == <<backend, table, columns>>

-----------------------------------------------------------------------------
(* Spellings. *)

Quote == "q"        \* the double quote

Digit == {"1"}

LowercaseOrDigit == {"a", "t", "u"} \cup Digit

\* Every quote doubled, and one at each end.
Quoted(txt) ==
    LET doubled[n \in 0..Len(txt)] ==
            IF n = 0 THEN << >>
            ELSE doubled[n - 1] \o IF txt[n] = Quote THEN << Quote, Quote >> ELSE << txt[n] >>
    IN  << Quote >> \o doubled[Len(txt)] \o << Quote >>

Spelled(ident) == IF ident.quoted THEN Quoted(ident.text) ELSE ident.text

\* What map_column keeps for display: without the quotes, folded by libpg_query only.
ColumnDisplay(ident) ==
    IF backend = "sqlparser" THEN ident.text ELSE IdentKey(ident)

\* What table_name and rangevar_name keep: sqlparser spells the name as it was.
TableDisplay(ident) ==
    IF backend = "sqlparser" THEN Spelled(ident) ELSE IdentKey(ident)

-----------------------------------------------------------------------------
(* The table's statements. *)

Column(ident, type) ==
    [key |-> IdentKey(ident), display |-> ColumnDisplay(ident), type |-> type]

Names == {columns[i].key : i \in DOMAIN columns}

AddColumn(ident, type) ==
    /\ Len(columns) < MaxColumns
    /\ IdentKey(ident) \notin Names
    /\ columns' = Append(columns, Column(ident, type))
    /\ UNCHANGED <<backend, table>>

DropColumn(i) ==
    /\ columns' = SubSeq(columns, 1, i - 1) \o SubSeq(columns, i + 1, Len(columns))
    /\ UNCHANGED <<backend, table>>

\* The new name's key becomes the display, too.
RenameColumn(i, new) ==
    /\ IdentKey(new) \notin Names
    /\ columns' = [columns EXCEPT ![i].key = IdentKey(new), ![i].display = IdentKey(new)]
    /\ UNCHANGED <<backend, table>>

RenameTable(new) ==
    /\ table' = [key |-> IdentKey(new), display |-> TableDisplay(new)]
    /\ UNCHANGED <<backend, columns>>

Init ==
    /\ backend \in Backends
    /\ \E ident \in TableNames : table = [key |-> IdentKey(ident), display |-> TableDisplay(ident)]
    /\ columns = << >>

Next ==
    \/ \E ident \in ColumnNames, type \in Types : AddColumn(ident, type)
    \/ \E i \in DOMAIN columns : DropColumn(i)
    \/ \E i \in DOMAIN columns, new \in ColumnNames : RenameColumn(i, new)
    \/ \E new \in TableNames : RenameTable(new)

Spec == Init /\ [][Next]_vars

-----------------------------------------------------------------------------
(* render_suggestion. *)

Plain(txt) ==
    /\ txt # << >> /\ txt[1] \notin Digit
    /\ Elements(txt) \subseteq LowercaseOrDigit

\* Fault: a digit in front is plain enough.
QuoteUnlessWord(txt) ==
    IF txt # << >> /\ Elements(txt) \subseteq LowercaseOrDigit THEN txt ELSE Quoted(txt)

MaybeQuote(txt) == IF Plain(txt) THEN txt ELSE Quoted(txt)

\* by_name: of columns that share a display the last one's report is found.
ReportOf(display) ==
    LET shared == {i \in DOMAIN columns : columns[i].display = display}
    IN  columns[CHOOSE i \in shared : \A j \in shared : j <= i]

\* The lines of the skeleton in the order suggested.
Suggested(order) ==
    [i \in DOMAIN order |->
        LET display == columns[order[i]].display
        IN  [name |-> MaybeQuote(display), type |-> ReportOf(display).type]]

-----------------------------------------------------------------------------
(* PostgreSQL reads it. *)

Unreadable == << "unreadable" >>

\* The text between the quotes, which must be one identifier to the end.
Unquoted(txt) ==
    LET inner == SubSeq(txt, 2, Len(txt) - 1)
        ends == Len(txt) > 2 /\ txt[Len(txt)] = Quote
        skips[n \in 0..Len(inner)] ==   \* the second quotes of pairs
            IF n = 0 THEN {}
            ELSE IF inner[n] = Quote /\ n > 1 /\ inner[n - 1] = Quote /\ n - 1 \notin skips[n - 1]
            THEN skips[n - 1] \cup {n} ELSE skips[n - 1]
        paired == \A n \in DOMAIN inner :
                      inner[n] = Quote => n \in skips[Len(inner)] \/ n + 1 \in skips[Len(inner)]
        kept[n \in 0..Len(inner)] ==
            IF n = 0 THEN << >>
            ELSE IF n \in skips[Len(inner)] THEN kept[n - 1] ELSE Append(kept[n - 1], inner[n])
    IN  IF ends /\ paired THEN kept[Len(inner)] ELSE Unreadable

ReadName(txt) ==
    IF txt[1] = Quote THEN Unquoted(txt)
    ELSE IF txt[1] \in Digit \/ Quote \in Elements(txt) \/ Lowered(txt) \in Reserved
    THEN Unreadable
    ELSE Lowered(txt)

\* A name that needs no quotes.
Writable(txt) ==
    txt[1] \notin Digit /\ Quote \notin Elements(txt) /\ Lowered(txt) \notin Reserved

\* The names the suggestion spells right: columns that are no keywords and, for sqlparser,
\* not in mixed case; tables that are written without quotes or, for libpg_query, could be.
Suggestible ==
    /\ Backends \subseteq {"sqlparser", "pg-exact"}
    /\ \A ident \in ColumnNames \cup TableNames :
          ident.quoted \in BOOLEAN /\ ident.text \in Seq(Elements(ident.text)) \ {<< >>}
    /\ \A ident \in ColumnNames :
          /\ "sqlparser" \in Backends => ident.text = IdentKey(ident)
          /\ Plain(IdentKey(ident)) => IdentKey(ident) \notin Reserved
    /\ \A ident \in TableNames :
          /\ ~ident.quoted => Writable(ident.text)
          /\ ident.quoted /\ "pg-exact" \in Backends =>
                Writable(ident.text) /\ Lowered(ident.text) = ident.text

Permutation(n) ==
    {order \in [1..n -> 1..n] : \A i, j \in 1..n : order[i] = order[j] => i = j}

-----------------------------------------------------------------------------
(* Properties. *)

\* "rowdiet suggestion (column order only ...)" (render.rs:221): whatever statements gave
\* the names and however the columns are ordered, the statement that is printed declares
\* the table the series made, each of its columns under its own name and type.
SuggestionIsTheTable ==
    /\ ReadName(table.display) = table.key
    /\ \A order \in Permutation(Len(columns)) :
           LET lines == Suggested(order)
           IN  \A i \in DOMAIN order :
                   /\ ReadName(lines[i].name) = columns[order[i]].key
                   /\ lines[i].type = columns[order[i]].type
=============================================================================
