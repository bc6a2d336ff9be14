------------------------------- MODULE Folder -------------------------------
(***************************************************************************)
(* The replay state machine of fold.rs: DDL operations are folded, in      *)
(* version order, over an in-memory schema model, and everything the model *)
(* cannot absorb becomes a note.                                           *)
(*                                                                         *)
(* A step is one operation (apply_one), one skipped statement (skipped), or*)
(* one of the calls the DO-block scan makes.  `line` is the origin of the  *)
(* statement the operation belongs to; the sub-commands of one ALTER TABLE *)
(* are operations of one statement, at most two here.  A map is a function *)
(* on its keys and a Vec a sequence.                                       *)
(***************************************************************************)
EXTENDS Catalog, FiniteSets

CONSTANTS
    Table,          \* table fold keys
    Column,         \* column keys
    NoName,         \* the absent name (Option::None)
    Creates,        \* CREATE TABLE statements the series may hold
    Raws,           \* column definitions ADD COLUMN may carry
    NewTypes,       \* type references SET DATA TYPE, domains and ranges may name
    DropLists,      \* name lists of DROP TABLE statements
    RenameClash,    \* whether a column rename may land on an existing column,
                    \* which Postgres rejects and the replay does not
    MaxStatements   \* bound: statements in the series

RawColumn == [key : Column, type : TypeRef, not_null : BOOLEAN]

\* DdlOp::CreateTable without its name.
CreateStatement ==
    [ columns : Seq(RawColumn), pk_columns : SUBSET Column,
      if_not_exists : BOOLEAN, is_ctas : BOOLEAN, incomplete_columns : BOOLEAN,
      temporary : BOOLEAN, partition_of : Table \cup {NoName},
      like_source : Table \cup {NoName} ]

ASSUME WorkloadAssumption ==
    /\ NoName \notin Table
    /\ NoName \notin TypeName
    /\ Creates \subseteq CreateStatement
    /\ Raws \subseteq RawColumn
    /\ NewTypes \subseteq TypeRef
    /\ DropLists \subseteq Seq(Table)
    /\ RenameClash \in BOOLEAN
    /\ MaxStatements \in Nat

VARIABLES
    line,                   \* origin of the current statement; 0 before the first
    open,                   \* the table an ALTER TABLE with a second sub-command addresses
    session,                \* Catalog::session
    order,                  \* Folder::order, the keys in creation order
    tables,                 \* Folder::tables
    ghosts,                 \* Folder::ghosts, created but not analyzed
    notes,                  \* Folder::notes
    unknown_types_noted     \* Folder::unknown_types_noted

vars == <<line, open, session, order, tables, ghosts, notes, unknown_types_noted>>

-----------------------------------------------------------------------------
(* Types of the state. *)

FoldedColumn ==
    [ key : Column, type : TypeName, kind : ColumnKind, known_type : BOOLEAN,
      not_null : BOOLEAN ]

FoldedTable ==
    [ origin : Nat, altered_in : Seq(Nat), ignored : BOOLEAN,
      incomplete : BOOLEAN, columns : Seq(FoldedColumn), dropped_count : Nat ]

NoteKind ==
    { "SkippedStatement", "AlterUnknownTable", "AlterSkippedTable", "CtasSkipped",
      "IncompleteColumns", "DroppedColumn", "UnknownType", "Redefined",
      "DuplicateColumn", "UnknownColumn", "TempTableSkipped", "DoBlockDdl",
      "UnusedIgnoreMarker" }

\* `about` is the name the note's text is about.
NoteRecord == [at : Nat, kind : NoteKind, about : Table \cup TypeName \cup {NoName}]

TypeOK ==
    /\ line \in 0..MaxStatements
    /\ open \in Table \cup {NoName}
    /\ DOMAIN session \subseteq TypeName
    /\ \A key \in DOMAIN session : session[key] \in SessionEntry
    /\ order \in Seq(Table)
    /\ DOMAIN tables \subseteq Table
    /\ \A key \in DOMAIN tables : tables[key] \in FoldedTable
    /\ ghosts \subseteq Table
    /\ notes \in Seq(NoteRecord)
    /\ unknown_types_noted \subseteq TypeName

-----------------------------------------------------------------------------
(* Helpers. *)

Note(kind, about) == [at |-> line', kind |-> kind, about |-> about]

HasColumn(table, key) == \E c \in Elements(table.columns) : c.key = key

\* iter().find(|c| c.key == key)
FirstColumn(table, key) ==
    CHOOSE i \in DOMAIN table.columns :
        /\ table.columns[i].key = key
        /\ \A j \in 1..(i - 1) : table.columns[j].key # key

\* columns.retain(|c| c.key != key)
WithoutColumn(table, key) ==
    Retain(table.columns, {c \in Elements(table.columns) : c.key = key})

MarkAltered(table) ==
    [table EXCEPT !.altered_in =
        IF @ # << >> /\ @[Len(@)] = line' THEN @ ELSE Append(@, line')]

\* resolve_type: an unresolvable type is noted once per key.
TypeNotes(ref, noted) ==
    IF Resolve(session, ref).known \/ ref.key \in noted
    THEN << >>
    ELSE << Note("UnknownType", ref.key) >>

\* Fault: the note is made and not remembered.
TypesForgotten(ref, noted) == noted

TypesNoted(ref, noted) ==
    IF Resolve(session, ref).known THEN noted ELSE noted \cup {ref.key}

ResolveColumn(raw) ==
    LET resolved == Resolve(session, raw.type)
    IN  [ key |-> raw.key, type |-> raw.type.key, kind |-> resolved.kind,
          known_type |-> resolved.known,
          not_null |-> raw.not_null \/ resolved.implicit_not_null ]

-----------------------------------------------------------------------------
(* Statements. *)

NewStatement ==
    /\ line < MaxStatements
    /\ line' = line + 1
    /\ open' = NoName

\* A sub-command of ALTER TABLE t: the statement's first, or its second.
AlterTable(t) ==
    \/ line < MaxStatements /\ line' = line + 1 /\ open' = t
    \/ open = t /\ line' = line /\ open' = NoName

Init ==
    /\ line = 0
    /\ open = NoName
    /\ session = EmptyMap
    /\ order = << >>
    /\ tables = EmptyMap
    /\ ghosts = {}
    /\ notes = << >>
    /\ unknown_types_noted = {}

-----------------------------------------------------------------------------
(* CREATE TABLE. *)

\* Fault: a source that cannot be had only sets the flag.
InheritInSilence(name, create) ==
    LET from == IF create.partition_of # NoName THEN create.partition_of
                ELSE create.like_source
    IN  [ columns |-> IF from \in DOMAIN tables THEN tables[from].columns ELSE << >>,
          dropped |-> 0, incomplete |-> from \notin DOMAIN tables, notes |-> << >> ]

\* What PARTITION OF or LIKE contributes before the statement's own columns:
\* the columns of `from`, or a note when they cannot be had.
Inherit(name, create) ==
    LET from == IF create.partition_of # NoName THEN create.partition_of
                ELSE create.like_source
        expands == /\ from \in DOMAIN tables
                   /\ create.partition_of # NoName \/ create.columns = << >>
    IN  IF from = NoName
        THEN [columns |-> << >>, dropped |-> 0, incomplete |-> FALSE, notes |-> << >>]
        ELSE IF expands
        THEN [ columns |-> tables[from].columns, dropped |-> tables[from].dropped_count,
               incomplete |-> tables[from].incomplete, notes |-> << >> ]
        ELSE [ columns |-> << >>, dropped |-> 0, incomplete |-> TRUE,
               notes |-> << Note("IncompleteColumns", name) >> ]

\* One column of the statement: it is resolved (and its type noted) even when its
\* name repeats one already there, which is noted and not pushed.
DeclareColumn(name, create, before, raw) ==
    LET column == [ResolveColumn(raw) EXCEPT !.not_null = @ \/ raw.key \in create.pk_columns]
        repeated == HasColumn(before, raw.key)
    IN  [ columns |-> IF repeated THEN before.columns ELSE Append(before.columns, column),
          noted |-> TypesNoted(raw.type, before.noted),
          notes |-> before.notes \o TypeNotes(raw.type, before.noted)
                    \o IF repeated THEN << Note("DuplicateColumn", name) >> ELSE << >>,
          duplicate |-> before.duplicate \/ repeated ]

\* The loop over the statement's columns, after what was inherited.
DeclareColumns(name, create, inherited) ==
    LET acc[i \in 0..Len(create.columns)] ==
            IF i = 0
            THEN [ columns |-> inherited, noted |-> unknown_types_noted,
                   notes |-> << >>, duplicate |-> FALSE ]
            ELSE DeclareColumn(name, create, acc[i - 1], create.columns[i])
    IN  acc[Len(create.columns)]

\* Fault: a temporary table is held back like a CTAS.
HoldBackTemporary(name, create) ==
    /\ create.temporary
    /\ notes' = Append(notes, Note("TempTableSkipped", name))
    /\ ghosts' = ghosts \cup {name}
    /\ UNCHANGED <<session, order, tables, unknown_types_noted>>

SkipTemporary(name, create) ==
    /\ create.temporary
    /\ notes' = Append(notes, Note("TempTableSkipped", name))
    /\ UNCHANGED <<session, order, tables, ghosts, unknown_types_noted>>

SkipCtas(name, create) ==
    /\ ~create.temporary
    /\ create.is_ctas
    /\ notes' = Append(notes, Note("CtasSkipped", name))
    /\ ghosts' = ghosts \cup {name}
    /\ UNCHANGED <<session, order, tables, unknown_types_noted>>

KeepExisting(name, create) ==
    /\ ~create.temporary /\ ~create.is_ctas
    /\ name \in DOMAIN tables
    /\ create.if_not_exists
    /\ UNCHANGED <<session, order, tables, ghosts, notes, unknown_types_noted>>

\* Fault: a redefinition keeps its old place in the order.
EstablishInPlace(name, create, ignore_marker) ==
    /\ ~create.temporary /\ ~create.is_ctas
    /\ ~(name \in DOMAIN tables /\ create.if_not_exists)
    /\ LET declared == DeclareColumns(name, create, << >>)
       IN  /\ tables' = Put(tables, name,
                  [ origin |-> line', altered_in |-> << >>, ignored |-> ignore_marker,
                    incomplete |-> create.incomplete_columns \/ declared.duplicate,
                    columns |-> declared.columns, dropped_count |-> 0 ])
           /\ notes' = notes \o declared.notes
           /\ unknown_types_noted' = declared.noted
    /\ order' = IF name \in DOMAIN tables THEN order ELSE Append(order, name)
    /\ ghosts' = ghosts \ {name}
    /\ UNCHANGED session

\* A redefinition leaves its old place in the order and is pushed at the end.
Establish(name, create, ignore_marker) ==
    /\ ~create.temporary /\ ~create.is_ctas
    /\ ~(name \in DOMAIN tables /\ create.if_not_exists)
    /\ LET inherited == Inherit(name, create)
           declared == DeclareColumns(name, create, inherited.columns)
       IN  /\ tables' = Put(tables, name,
                  [ origin |-> line', altered_in |-> << >>, ignored |-> ignore_marker,
                    incomplete |-> \/ create.incomplete_columns
                                   \/ inherited.incomplete
                                   \/ declared.duplicate,
                    columns |-> declared.columns, dropped_count |-> inherited.dropped ])
           /\ notes' =
                  notes
                  \o (IF name \in DOMAIN tables THEN << Note("Redefined", name) >> ELSE << >>)
                  \o (IF create.incomplete_columns
                      THEN << Note("IncompleteColumns", name) >> ELSE << >>)
                  \o inherited.notes
                  \o declared.notes
           /\ unknown_types_noted' = declared.noted
    /\ order' = Append(IF name \in DOMAIN tables THEN Retain(order, {name}) ELSE order,
                       name)
    /\ ghosts' = ghosts \ {name}
    /\ UNCHANGED session

CreateTable(name, create, ignore_marker) ==
    /\ NewStatement
    /\ \/ SkipTemporary(name, create)
       \/ SkipCtas(name, create)
       \/ KeepExisting(name, create)
       \/ Establish(name, create, ignore_marker)

-----------------------------------------------------------------------------
(* ALTER TABLE.  Every operation first requires the table (require_table). *)

Unanalyzable(t) ==
    /\ t \notin DOMAIN tables
    /\ notes' = Append(notes, Note(IF t \in ghosts THEN "AlterSkippedTable"
                                   ELSE "AlterUnknownTable", t))
    /\ UNCHANGED <<session, order, tables, ghosts, unknown_types_noted>>

AddColumn(t, raw, if_not_exists) ==
    /\ t \in DOMAIN tables
    /\ \/ /\ HasColumn(tables[t], raw.key)
          /\ notes' = IF if_not_exists THEN notes
                      ELSE Append(notes, Note("DuplicateColumn", t))
          /\ UNCHANGED <<tables, unknown_types_noted>>
       \/ /\ ~HasColumn(tables[t], raw.key)
          /\ tables' = [tables EXCEPT ![t] =
                 MarkAltered([tables[t] EXCEPT
                     !.columns = Append(tables[t].columns, ResolveColumn(raw))])]
          /\ notes' = notes \o TypeNotes(raw.type, unknown_types_noted)
          /\ unknown_types_noted' = TypesNoted(raw.type, unknown_types_noted)
    /\ UNCHANGED <<session, order, ghosts>>

\* Faults: the slot is taken back; the slots are counted down.
ReclaimColumns(t, column, if_exists) ==
    /\ t \in DOMAIN tables
    /\ HasColumn(tables[t], column)
    /\ tables' = [tables EXCEPT ![t] =
           MarkAltered([tables[t] EXCEPT !.columns = WithoutColumn(tables[t], column)])]
    /\ notes' = Append(notes, Note("DroppedColumn", t))
    /\ UNCHANGED <<session, order, ghosts, unknown_types_noted>>

CountDownColumns(t, column, if_exists) ==
    /\ t \in DOMAIN tables
    /\ HasColumn(tables[t], column)
    /\ tables' = [tables EXCEPT ![t].dropped_count = @ - 1]
    /\ notes' = Append(notes, Note("DroppedColumn", t))
    /\ UNCHANGED <<session, order, ghosts, unknown_types_noted>>

\* Postgres keeps a dropped attribute's slot.  Its grammar names one column per
\* DROP COLUMN; several are several sub-commands.
DropColumns(t, column, if_exists) ==
    /\ t \in DOMAIN tables
    /\ \/ /\ HasColumn(tables[t], column)
          /\ tables' = [tables EXCEPT ![t] =
                 MarkAltered([tables[t] EXCEPT
                     !.columns = WithoutColumn(tables[t], column),
                     !.dropped_count = tables[t].dropped_count + 1])]
          /\ notes' = Append(notes, Note("DroppedColumn", t))
       \/ /\ ~HasColumn(tables[t], column)
          /\ notes' = IF if_exists THEN notes ELSE Append(notes, Note("UnknownColumn", t))
          /\ UNCHANGED tables
    /\ UNCHANGED <<session, order, ghosts, unknown_types_noted>>

\* An edit of the first column of that name, or a note that there is none.
EditColumn(t, column, Edit(_)) ==
    IF HasColumn(tables[t], column)
    THEN LET columns == tables[t].columns
             i == FirstColumn(tables[t], column)
             edited == [columns EXCEPT ![i] = Edit(columns[i])]
         IN  tables' = [tables EXCEPT ![t] =
                 MarkAltered([tables[t] EXCEPT !.columns = edited])]
    ELSE UNCHANGED tables

ColumnNotes(t, column) ==
    IF HasColumn(tables[t], column) THEN << >> ELSE << Note("UnknownColumn", t) >>

RenameColumn(t, old, new) ==
    /\ t \in DOMAIN tables
    /\ EditColumn(t, old, LAMBDA c : [c EXCEPT !.key = new])
    /\ notes' = notes \o ColumnNotes(t, old)
    /\ UNCHANGED <<session, order, ghosts, unknown_types_noted>>

SetColumnType(t, column, ref) ==
    /\ t \in DOMAIN tables
    /\ LET resolved == Resolve(session, ref)
       IN  EditColumn(t, column, LAMBDA c : [c EXCEPT !.kind = resolved.kind,
                                                       !.known_type = resolved.known,
                                                       !.type = ref.key])
    /\ notes' = notes \o TypeNotes(ref, unknown_types_noted) \o ColumnNotes(t, column)
    /\ unknown_types_noted' = TypesNoted(ref, unknown_types_noted)
    /\ UNCHANGED <<session, order, ghosts>>

SetNotNull(t, column, value) ==
    /\ t \in DOMAIN tables
    /\ EditColumn(t, column, LAMBDA c : [c EXCEPT !.not_null = value])
    /\ notes' = notes \o ColumnNotes(t, column)
    /\ UNCHANGED <<session, order, ghosts, unknown_types_noted>>

\* Faults: the replaced table stays listed; the flag is lost with the old name.
RenameOverListed(t, new) ==
    /\ t \in DOMAIN tables
    /\ tables' = Put(Remove(tables, t), new, MarkAltered(tables[t]))
    /\ order' = [i \in DOMAIN order |-> IF order[i] = t THEN new ELSE order[i]]
    /\ UNCHANGED <<session, ghosts, notes, unknown_types_noted>>

RenameAnew(t, new) ==
    /\ t \in DOMAIN tables
    /\ new \notin DOMAIN tables
    /\ tables' = Put(Remove(tables, t), new, [tables[t] EXCEPT !.incomplete = FALSE])
    /\ order' = [i \in DOMAIN order |-> IF order[i] = t THEN new ELSE order[i]]
    /\ UNCHANGED <<session, ghosts, notes, unknown_types_noted>>

\* The renamed table keeps its place; a table already of that name is replaced.
RenameTable(t, new) ==
    LET replaced == IF new # t /\ new \in DOMAIN tables THEN {new} ELSE {}
        remaining == Retain(order, replaced)
    IN  /\ t \in DOMAIN tables
        /\ tables' = Put(Remove(tables, t), new, MarkAltered(tables[t]))
        /\ order' = [i \in DOMAIN remaining |->
                         IF remaining[i] = t THEN new ELSE remaining[i]]
        /\ notes' = IF replaced = {} THEN notes ELSE Append(notes, Note("Redefined", t))
        /\ UNCHANGED <<session, ghosts, unknown_types_noted>>

DropTables(names, if_exists) ==
    LET known == DOMAIN tables \cup ghosts
        missing == IF if_exists THEN << >> ELSE Retain(names, known)
    IN  /\ NewStatement
        /\ tables' = [key \in DOMAIN tables \ Elements(names) |-> tables[key]]
        /\ order' = Retain(order, Elements(names))
        /\ ghosts' = ghosts \ Elements(names)
        /\ notes' = notes \o [i \in DOMAIN missing |-> Note("AlterUnknownTable", missing[i])]
        /\ UNCHANGED <<session, unknown_types_noted>>

-----------------------------------------------------------------------------
(* Type DDL only edits the catalog's session layer. *)

CreateEnum(name) == session' = DefineEnum(session, name)

CreateComposite(name) == session' = DefineComposite(session, name)

CreateRange(name, subtypes) == session' = DefineRange(session, name, subtypes)

CreateBase(name) == session' = DefineShell(session, name)

CreateDomain(name, base) == session' = DefineDomain(session, name, base)

\* drop_type of each name.
DropTypes(names) == session' = [k \in DOMAIN session \ names |-> session[k]]

RenameTypeTo(old, new) == session' = RenameType(session, old, new)

TypeDdl ==
    /\ NewStatement
    /\ \/ \E name \in TypeName :
              \/ CreateEnum(name)
              \/ CreateComposite(name)
              \/ CreateBase(name)
              \/ CreateRange(name, {})
              \/ \E ref \in NewTypes : CreateRange(name, {ref}) \/ CreateDomain(name, ref)
       \/ \E names \in SUBSET TypeName : names # {} /\ DropTypes(names)
       \/ \E old, new \in TypeName : RenameTypeTo(old, new)
    /\ UNCHANGED <<order, tables, ghosts, notes, unknown_types_noted>>

-----------------------------------------------------------------------------
(* What is not parsed, and what a DO block may execute. *)

\* Fault: the table the statement alters is not flagged.
SkippedUnflagged(sniffs, key) ==
    /\ NewStatement
    /\ ghosts' = IF sniffs = "create" THEN ghosts \cup {key} ELSE ghosts
    /\ notes' = Append(notes, Note("SkippedStatement",
                                   IF sniffs = "nothing" THEN NoName ELSE key))
    /\ UNCHANGED <<session, order, tables, unknown_types_noted>>

\* skipped: `sniffs` is the sniffed effect, "alter", "create" or "nothing".
Skipped(sniffs, key) ==
    /\ NewStatement
    /\ tables' = IF sniffs = "alter" /\ key \in DOMAIN tables
                 THEN [tables EXCEPT ![key].incomplete = TRUE]
                 ELSE tables
    /\ ghosts' = IF sniffs = "create" THEN ghosts \cup {key} ELSE ghosts
    /\ notes' = Append(notes, Note("SkippedStatement",
                                   IF sniffs = "nothing" THEN NoName ELSE key))
    /\ UNCHANGED <<session, order, unknown_types_noted>>

\* Fault: the table is only named in the note.
ConditionalUnflagged(t) ==
    /\ NewStatement
    /\ notes' = Append(notes, Note("DoBlockDdl", t))
    /\ UNCHANGED <<session, order, tables, ghosts, unknown_types_noted>>

ConditionalTableDdl(t) ==
    /\ NewStatement
    /\ tables' = IF t \in DOMAIN tables
                 THEN [tables EXCEPT ![t].incomplete = TRUE]
                 ELSE tables
    /\ notes' = Append(notes, Note("DoBlockDdl", t))
    /\ UNCHANGED <<session, order, ghosts, unknown_types_noted>>

DoBlockNote ==
    /\ NewStatement
    /\ notes' = Append(notes, Note("DoBlockDdl", NoName))
    /\ UNCHANGED <<session, order, tables, ghosts, unknown_types_noted>>

\* Every stranded marker of a source is noted after its statements.
UnusedIgnoreMarker ==
    /\ NewStatement
    /\ notes' = Append(notes, Note("UnusedIgnoreMarker", NoName))
    /\ UNCHANGED <<session, order, tables, ghosts, unknown_types_noted>>

-----------------------------------------------------------------------------

AlterOperation(t) ==
    /\ AlterTable(t)
    /\ \/ Unanalyzable(t)
       \/ \E raw \in Raws, if_not_exists \in BOOLEAN : AddColumn(t, raw, if_not_exists)
       \/ \E column \in Column, if_exists \in BOOLEAN : DropColumns(t, column, if_exists)
       \/ \E column \in Column, ref \in NewTypes : SetColumnType(t, column, ref)
       \/ \E column \in Column, value \in BOOLEAN : SetNotNull(t, column, value)

\* A rename is a statement of its own in Postgres.
Rename(t) ==
    /\ NewStatement
    /\ \/ Unanalyzable(t)
       \/ \E old, new \in Column :
             /\ t \in DOMAIN tables => RenameClash \/ ~HasColumn(tables[t], new)
             /\ RenameColumn(t, old, new)
       \/ \E new \in Table : RenameTable(t, new)

Next ==
    \/ \E t \in Table, create \in Creates, ignore_marker \in BOOLEAN :
           CreateTable(t, create, ignore_marker)
    \/ \E t \in Table : AlterOperation(t)
    \/ \E t \in Table : Rename(t)
    \/ \E names \in DropLists, if_exists \in BOOLEAN : DropTables(names, if_exists)
    \/ TypeDdl
    \/ \E t \in Table, sniffs \in {"alter", "create", "nothing"} : Skipped(sniffs, t)
    \/ \E t \in Table : ConditionalTableDdl(t)
    \/ DoBlockNote
    \/ UnusedIgnoreMarker

Spec == Init /\ [][Next]_vars

-----------------------------------------------------------------------------
(* Properties. *)

\* `order` names every modeled table exactly once.  finish() takes each listed
\* key out of `tables` and discards what is left, so a key listed twice or not at
\* all would lose a table (or a report's place) without a trace.
OrderMatchesTables ==
    /\ Elements(order) = DOMAIN tables
    /\ \A i, j \in DOMAIN order : order[i] = order[j] => i = j

\* The order of a series is kept.  The report lists tables in creation order (a redefinition
\* moves its table to the end, a rename moves nothing: finish, rename_table), and the
\* statements that changed a table in replay order, once each, all after its creation
\* (mark_altered).
HistoryInOrder ==
    /\ \A i, j \in DOMAIN order :
           i < j => tables[order[i]].origin < tables[order[j]].origin
    /\ \A key \in DOMAIN tables :
           LET altered == tables[key].altered_in
           IN  /\ \A i \in DOMAIN altered : tables[key].origin < altered[i]
               /\ \A i, j \in DOMAIN altered : i < j => altered[i] < altered[j]

\* A table is flagged incomplete only together with a note that says why: the
\* flag alone, inherited or set, is never the only trace of a degradation.
IncompleteExplained ==
    \A key \in DOMAIN tables :
        tables[key].incomplete =>
            \E note \in Elements(notes) :
                note.kind \in {"SkippedStatement", "IncompleteColumns",
                               "DuplicateColumn", "DoBlockDdl"}

\* A name is held back as a ghost only after a note about that very name.
GhostsExplained ==
    \A ghost \in ghosts :
        \E note \in Elements(notes) :
            /\ note.kind \in {"CtasSkipped", "SkippedStatement"}
            /\ note.about = ghost

\* A column whose storage is a guess has its type noted, whichever path brought
\* it in (CREATE, ADD COLUMN, SET TYPE, a copied table), and no type is noted
\* twice over the whole series (resolve_type).
GuessesNotedOnce ==
    /\ \A key \in DOMAIN tables : \A c \in Elements(tables[key].columns) :
           ~c.known_type =>
               \E note \in Elements(notes) : note.kind = "UnknownType" /\ note.about = c.type
    /\ \A i, j \in DOMAIN notes :
           /\ notes[i].kind = "UnknownType"
           /\ notes[j].kind = "UnknownType"
           /\ notes[i].about = notes[j].about
           => i = j

\* A table is identified by its creating statement: renames change its key, a
\* redefinition makes it another table.
SameTable(table, later) == table.origin = later.origin

Natts(table) == Len(table.columns) + table.dropped_count

\* No step takes an attribute number back: live columns and dropped slots of a
\* table never add up to less than before, and dropped slots never decrease.
\* The null bitmap of every later row is sized by that sum (report.rs build).
AttributesNeverReclaimed ==
    [][\A key \in DOMAIN tables, later \in DOMAIN tables' :
           SameTable(tables[key], tables'[later]) =>
               /\ Natts(tables'[later]) >= Natts(tables[key])
               /\ tables'[later].dropped_count >= tables[key].dropped_count]_vars

\* No operation, a rename included, clears the incomplete flag of a table: only
\* a new CREATE or a DROP ends a partial model.
IncompleteSticks ==
    [][\A key \in DOMAIN tables, later \in DOMAIN tables' :
           /\ tables[key].incomplete
           /\ SameTable(tables[key], tables'[later])
           => tables'[later].incomplete]_vars
=============================================================================
