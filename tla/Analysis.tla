------------------------------ MODULE Analysis ------------------------------
(***************************************************************************)
(* The analysis pipeline (lib.rs analyze_sources_with) around the Folder:  *)
(* statements go to the replay in order, and the body of a DO block is     *)
(* scanned fragment by fragment for the DDL it may execute.                *)
(*                                                                         *)
(* The text of a fragment is abstracted to what the parser makes of it:    *)
(* one outcome per anchor (a word-boundary CREATE, ALTER or DROP), each    *)
(* the operations parsed from there to the fragment's end or NotParsed,    *)
(* and the EXECUTE template's outcome under each of the two substitutions. *)
(* `line` numbers the replay's calls: those of one block share an origin in*)
(* the code, and nothing here depends on it.                               *)
(***************************************************************************)
EXTENDS Folder

CONSTANTS
    DynamicToken,       \* a name a format placeholder stands in
    NotParsed,          \* a parse that fails
    NoTemplate,         \* no EXECUTE literal in the fragment
    MaxParseAttempts,   \* MAX_PARSE_ATTEMPTS, 32 in the code
    Bodies,             \* the DO bodies of the series, as sequences of fragments
    TypeOps,            \* the type DDL of the series
    GuardedRedefinition \* whether a DO block may hold type DDL that Postgres, the
                        \* name being taken, does not execute

\* DdlOp, reduced to what dispatch_do_op and dispatch_dynamic_op look at.
TypeOp ==
    [op : {"domain"}, name : TypeName, base : NewTypes]
        \cup [op : {"drop_types"}, names : (SUBSET TypeName) \ {{}}]
        \cup [op : {"rename_type"}, old : TypeName, new : TypeName]

TableOp(names) ==
    [op : {"create"}, table : names, partition_of : names \cup {NoName}]
        \cup [op : {"alter"}, table : names]
        \cup [op : {"drop"}, tables : Seq(names) \ {<< >>}]
        \cup [op : {"irrelevant"}]

Parse(names) == Seq(TypeOps \cup TableOp(names)) \cup {NotParsed}

\* `affects`: the tables the fragment alters, creates or drops when it runs.
Fragment ==
    [ anchors : Seq(Parse(Table)),
      template : {NoTemplate} \cup [ident : Parse(Table \cup {DynamicToken}),
                                    number : Parse(Table \cup {DynamicToken})],
      affects : SUBSET Table ]

ASSUME AnalysisAssumption ==
    /\ DynamicToken \notin Table
    /\ MaxParseAttempts \in Nat \ {0}
    /\ TypeOps \subseteq TypeOp
    /\ Bodies \subseteq Seq(Fragment)
    /\ GuardedRedefinition \in BOOLEAN

VARIABLES
    scanning,       \* whether a DO block is being scanned
    fragments,      \* the fragments of its body still to scan
    attempts,       \* parse attempts made on the first of them
    ops,            \* the operations found, still to dispatch
    dynamic,        \* whether they come from an EXECUTE template
    unanalyzable,   \* DDL-like fragments and operations given up on
    types,          \* the user-defined types in Postgres, as the catalog would hold them
    touched         \* what DDL in scanned blocks may have changed: a table, by name
                    \* and creating statement, or a name with no modeled table (0),
                    \* and the number of notes there were before

scan == <<scanning, fragments, attempts, ops, dynamic, unanalyzable>>
allvars == <<vars, scan, types, touched>>

AnalysisInit ==
    /\ Init
    /\ scanning = FALSE
    /\ fragments = << >>
    /\ attempts = 0
    /\ ops = << >>
    /\ dynamic = FALSE
    /\ unanalyzable = 0
    /\ types = EmptyMap
    /\ touched = {}

-----------------------------------------------------------------------------
(* Type DDL, in the replay and in Postgres. *)

\* Fault: a definition does not replace an earlier one.
ReplayedOnce(op) ==
    \/ op.op = "domain" /\ (IF op.name \in DOMAIN session THEN UNCHANGED session
                            ELSE CreateDomain(op.name, op.base))
    \/ op.op = "drop_types" /\ DropTypes(op.names)
    \/ op.op = "rename_type" /\ RenameTypeTo(op.old, op.new)

Replayed(op) ==
    \/ op.op = "domain" /\ CreateDomain(op.name, op.base)
    \/ op.op = "drop_types" /\ DropTypes(op.names)
    \/ op.op = "rename_type" /\ RenameTypeTo(op.old, op.new)

\* The type names the series may define.
DefinedNames ==
    {op.name : op \in {o \in TypeOps : o.op = "domain"}}
        \cup {op.new : op \in {o \in TypeOps : o.op = "rename_type"}}

\* The base of a domain is a type there is, or one that comes from elsewhere.
BaseExists(op) == op.base.key \in DOMAIN types \cup (TypeName \ DefinedNames)

\* Postgres executes the operation: it never replaces a type.
Accepted(op) ==
    CASE op.op = "domain" -> op.name \notin DOMAIN types /\ BaseExists(op)
      [] op.op = "drop_types" -> TRUE
      [] op.op = "rename_type" -> op.old \in DOMAIN types /\ op.new \notin DOMAIN types

\* A drop that cascades takes domains over the type along; whose base is what is
\* not tracked, so any may go.
Executed(op) ==
    CASE op.op = "domain" -> {DefineDomain(types, op.name, op.base)}
      [] op.op = "drop_types" ->
            {[k \in kept |-> types[k]] : kept \in SUBSET (DOMAIN types \ op.names)}
      [] op.op = "rename_type" -> {RenameType(types, op.old, op.new)}

\* The idempotency idiom: what is guarded is done now, or was done before.
Repeats(op) ==
    \/ Accepted(op)
    \/ op.op = "domain" /\ BaseExists(op) /\ types \in Executed(op)

FoldTypeOp(op) ==
    /\ NewStatement
    /\ Replayed(op)
    /\ UNCHANGED <<order, tables, ghosts, notes, unknown_types_noted>>

-----------------------------------------------------------------------------
(* Statements outside DO blocks. *)

TypeStatement(op) ==
    /\ Accepted(op)
    /\ FoldTypeOp(op)
    /\ types' \in Executed(op)

TableStatement ==
    /\ \/ \E t \in Table, create \in Creates, ignore_marker \in BOOLEAN :
              CreateTable(t, create, ignore_marker)
       \/ \E t \in Table : AlterOperation(t)
       \/ \E t \in Table : Rename(t)
       \/ \E names \in DropLists, if_exists \in BOOLEAN : DropTables(names, if_exists)
       \/ \E t \in Table, sniffs \in {"alter", "create", "nothing"} : Skipped(sniffs, t)
       \/ UnusedIgnoreMarker
    /\ UNCHANGED types

Statement ==
    /\ ~scanning
    /\ TableStatement \/ \E op \in TypeOps : TypeStatement(op)
    /\ UNCHANGED <<scan, touched>>

-----------------------------------------------------------------------------
(* A DO statement: waived by a marker in it or in its body, or scanned. *)

ScanDoBlock(body) ==
    /\ ~scanning
    /\ scanning' = TRUE
    /\ fragments' = body
    /\ UNCHANGED <<vars, attempts, ops, dynamic, unanalyzable, types, touched>>

\* The dollar quote is missing or not closed.
NoDollarBody ==
    /\ ~scanning
    /\ DoBlockNote
    /\ UNCHANGED <<scan, types, touched>>

\* The first fragment is done with, and what it may execute is on the record.
Leave(found, from_template) ==
    /\ fragments' = Tail(fragments)
    /\ attempts' = 0
    /\ ops' = found
    /\ dynamic' = from_template
    /\ touched' = touched \cup
           { [ name |-> t, since |-> Len(notes),
               origin |-> IF t \in DOMAIN tables THEN tables[t].origin ELSE 0 ] :
                 t \in Head(fragments).affects }
    /\ UNCHANGED <<vars, scanning, types>>

GiveUp == Leave(<< >>, FALSE) /\ unanalyzable' = unanalyzable + 1

Found(found, from_template) == Leave(found, from_template) /\ UNCHANGED unanalyzable

AtFragment == scanning /\ ops = << >> /\ fragments # << >>

Anchors == Head(fragments).anchors

NoDdl == AtFragment /\ Anchors = << >> /\ Found(<< >>, FALSE)

TryAnchor ==
    /\ AtFragment
    /\ attempts < Len(Anchors)
    /\ attempts < MaxParseAttempts
    /\ LET parsed == Anchors[attempts + 1]
       IN  IF parsed = NotParsed
           THEN /\ attempts' = attempts + 1
                /\ UNCHANGED <<vars, scanning, fragments, ops, dynamic, unanalyzable,
                               types, touched>>
           ELSE Found(parsed, FALSE)

\* Fault: the tail past the cap holds no DDL.
ForgetTail ==
    /\ AtFragment
    /\ attempts < Len(Anchors)
    /\ attempts = MaxParseAttempts
    /\ Found(<< >>, FALSE)

\* Too many anchors: the tail is not looked at.
PastTheCap ==
    /\ AtFragment
    /\ attempts < Len(Anchors)
    /\ attempts = MaxParseAttempts
    /\ GiveUp

TryTemplate ==
    /\ AtFragment
    /\ Anchors # << >> /\ attempts = Len(Anchors)
    /\ LET template == Head(fragments).template
       IN  IF template = NoTemplate THEN GiveUp
           ELSE IF template.ident # NotParsed THEN Found(template.ident, TRUE)
           ELSE IF template.number # NotParsed THEN Found(template.number, TRUE)
           ELSE GiveUp

-----------------------------------------------------------------------------
(* dispatch_do_op and dispatch_dynamic_op, on the first operation. *)

Concrete(name) == name # DynamicToken

\* A partition of a modeled parent repeats its layout.
Inert(op) ==
    \/ op.op = "irrelevant"
    \/ /\ op.op = "create"
       /\ op.partition_of # NoName /\ Concrete(op.partition_of)
       /\ op.partition_of \in DOMAIN tables

Classifiable(op) ==
    \/ op.op = "create" /\ op.partition_of = NoName /\ Concrete(op.table)
    \/ op.op = "alter" /\ Concrete(op.table)
    \/ op.op = "drop" /\ \A name \in Elements(op.tables) : Concrete(name)

Dispatching == scanning /\ ops # << >>

\* Type DDL is folded.  Whether control reaches it, and Postgres then takes it,
\* cannot be known.
DispatchType ==
    /\ Dispatching
    /\ ~dynamic
    /\ LET op == Head(ops)
       IN  /\ op \in TypeOp
           /\ GuardedRedefinition \/ Repeats(op)
           /\ FoldTypeOp(op)
           /\ UNCHANGED types \/ (Accepted(op) /\ types' \in Executed(op))
    /\ ops' = Tail(ops)
    /\ UNCHANGED <<scanning, fragments, attempts, dynamic, unanalyzable, touched>>

DispatchTable ==
    /\ Dispatching
    /\ LET op == Head(ops)
       IN  /\ op.op \in {"create", "alter"}
           /\ dynamic => Classifiable(op)
           /\ ConditionalTableDdl(op.table)
    /\ ops' = Tail(ops)
    /\ UNCHANGED <<scanning, fragments, attempts, dynamic, unanalyzable, types, touched>>

\* Table by table.
DispatchDrop ==
    /\ Dispatching
    /\ LET op == Head(ops)
       IN  /\ op.op = "drop"
           /\ dynamic => Classifiable(op)
           /\ ConditionalTableDdl(Head(op.tables))
           /\ ops' = IF Len(op.tables) = 1 THEN Tail(ops)
                     ELSE [ops EXCEPT ![1].tables = Tail(@)]
    /\ UNCHANGED <<scanning, fragments, attempts, dynamic, unanalyzable, types, touched>>

PassOver ==
    /\ Dispatching
    /\ LET op == Head(ops)
       IN  \/ op.op = "irrelevant" /\ UNCHANGED unanalyzable
           \/ dynamic /\ Inert(op) /\ UNCHANGED unanalyzable
           \/ /\ dynamic /\ ~Inert(op) /\ ~Classifiable(op)
              /\ unanalyzable' = unanalyzable + 1
    /\ ops' = Tail(ops)
    /\ UNCHANGED <<vars, scanning, fragments, attempts, dynamic, types, touched>>

\* Fault: a note per fragment given up on.
EndBlockNoteEach ==
    /\ scanning /\ ops = << >> /\ fragments = << >>
    /\ IF unanalyzable > 0
       THEN /\ NewStatement
            /\ notes' = notes \o [i \in 1..unanalyzable |-> Note("DoBlockDdl", NoName)]
            /\ UNCHANGED <<session, order, tables, ghosts, unknown_types_noted>>
       ELSE UNCHANGED vars
    /\ scanning' = FALSE
    /\ unanalyzable' = 0
    /\ UNCHANGED <<fragments, attempts, ops, dynamic, types, touched>>

\* The summary note, if anything was given up on.
EndBlock ==
    /\ scanning /\ ops = << >> /\ fragments = << >>
    /\ IF unanalyzable > 0 THEN DoBlockNote ELSE UNCHANGED vars
    /\ scanning' = FALSE
    /\ unanalyzable' = 0
    /\ UNCHANGED <<fragments, attempts, ops, dynamic, types, touched>>

Dispatch == DispatchType \/ DispatchTable \/ DispatchDrop \/ PassOver

DoBlock ==
    \/ \E body \in Bodies : ScanDoBlock(body)
    \/ NoDollarBody
    \/ NoDdl
    \/ TryAnchor
    \/ PastTheCap
    \/ TryTemplate
    \/ Dispatch
    \/ EndBlock

AnalysisNext == Statement \/ DoBlock

AnalysisSpec == AnalysisInit /\ [][AnalysisNext]_allvars

-----------------------------------------------------------------------------
(* Properties. *)

\* What the pipeline does to the replay is, call for call, a replay: the Folder's
\* theorems hold of every analysis.
Replay == INSTANCE Folder WITH
    line <- line, open <- open, session <- session, order <- order, tables <- tables,
    ghosts <- ghosts, notes <- notes, unknown_types_noted <- unknown_types_noted

ImplementsReplay == Replay!Spec

\* What a fragment affects is among what the operations found in it are about.  In a
\* template a placeholder may stand for any table, and a partition of a named parent
\* is passed over.  A concatenation is not truthful (ConcatenatedBodies of MCAnalysis).
Tells(op, t, from_template) ==
    \/ op.op = "drop" /\ {t, DynamicToken} \cap Elements(op.tables) # {}
    \/ op.op = "alter" /\ op.table \in {t, DynamicToken}
    \/ /\ op.op = "create" /\ op.table \in {t, DynamicToken}
       /\ from_template => op.partition_of \in {NoName, DynamicToken}

TellsAll(parsed, affects, from_template) ==
    parsed # NotParsed =>
        \A t \in affects : \E op \in Elements(parsed) : Tells(op, t, from_template)

Substituted(template) ==
    IF template.ident # NotParsed THEN template.ident ELSE template.number

Truthful(fragment) ==
    /\ fragment.anchors = << >> => fragment.affects = {}
    /\ \A i \in DOMAIN fragment.anchors :
           TellsAll(fragment.anchors[i], fragment.affects, FALSE)
    /\ fragment.template # NoTemplate =>
           TellsAll(Substituted(fragment.template), fragment.affects, TRUE)

NotedSince(change, about) ==
    \E i \in (change.since + 1)..Len(notes) :
        notes[i].kind = "DoBlockDdl" /\ notes[i].about = about

\* "Table DDL is surfaced as a conditional-execution note (never folded), and
\* DDL-looking fragments that resist parsing [...] produce one loud summary note"
\* (lib.rs:174): once a block is scanned, every table its DDL may have changed or
\* created is named in a note of its own, or the summary note is out.
TouchedIsLoud ==
    ~scanning => \A change \in touched :
        NotedSince(change, NoName) \/ NotedSince(change, change.name)

\* Whatever a scanned block may have done to a table (and it is the same table
\* still), the replay does not call it complete unless the summary note is out.
TouchedIsFlagged ==
    ~scanning => \A t \in DOMAIN tables, change \in touched :
        change.origin = tables[t].origin =>
            tables[t].incomplete \/ NotedSince(change, NoName)

\* "Layout-safe -- a column using the type implies it exists" (lib.rs:174): a type
\* that exists in Postgres and that the catalog claims to know has the storage the
\* catalog says, whichever DO blocks were folded as if they had run.
FoldedTypesLayoutSafe ==
    \A name \in DOMAIN types :
        LET resolved == Resolve(session, [key |-> name, short |-> FALSE, array |-> FALSE])
        IN  resolved.known => resolved.kind = types[name].kind
=============================================================================
