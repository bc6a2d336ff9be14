------------------------------ MODULE PgReplay ------------------------------
(***************************************************************************)
(* One migration series replayed twice: by Postgres (`relations`) and by   *)
(* the Folder.  Every step is one statement Postgres accepts.  What the    *)
(* parser skips or a DO block executes is still executed by Postgres, with *)
(* an effect the replay does not see.                                      *)
(***************************************************************************)
EXTENDS Folder

VARIABLES
    relations,  \* the relations in Postgres
    departed    \* history: tables a statement gave columns in Postgres that the
                \* replay is not told of

Pg == INSTANCE Postgres

pgvars == <<vars, relations, departed>>

PgInit == Init /\ relations = EmptyMap /\ departed = {}

Departs(names) == departed' = departed \cup names

-----------------------------------------------------------------------------
(* The columns a CREATE TABLE gives its relation in Postgres. *)

Declared(create) ==
    Pg!Attributes([i \in DOMAIN create.columns |-> create.columns[i].key])

DistinctNames(attrs) ==
    \A i, j \in DOMAIN Pg!Live(attrs) : Pg!Live(attrs)[i] = Pg!Live(attrs)[j] => i = j

\* A query or an INHERITS clause may contribute any column in front.
UnknownColumns == {<< >>} \cup {<< Pg!Attribute(column) >> : column \in Column}

\* PARTITION OF and LIKE both copy the live columns only (MergeAttributes and
\* transformTableLikeClause pass over dropped attributes).
CopiedAttrs(source) == Pg!Attributes(Pg!Live(relations[source].attrs))

CreatedAttrs(create) ==
    IF create.partition_of # NoName
    THEN IF Pg!Alterable(create.partition_of) /\ create.columns = << >>
         THEN {CopiedAttrs(create.partition_of)} ELSE {}
    ELSE IF create.like_source # NoName
    THEN IF Pg!Exists(create.like_source)
         THEN {CopiedAttrs(create.like_source) \o Declared(create)} ELSE {}
    ELSE IF create.is_ctas \/ create.incomplete_columns
    THEN {unknown \o Declared(create) : unknown \in UnknownColumns}
    ELSE {Declared(create)}

\* The replay copies the dropped slots of its model of the source too.
CopiesMore(create) ==
    LET source == IF create.partition_of # NoName THEN create.partition_of
                  ELSE create.like_source
    IN  source # NoName /\ (source \in departed \/ Pg!DroppedSlots(relations[source].attrs) > 0)

\* A table that Postgres keeps and the replay has no model of becomes, to the
\* replay, the one the statement spells out.
SeriesCreate(t, create) ==
    /\ ~create.temporary
    /\ \E ignore_marker \in {FALSE} : CreateTable(t, create, ignore_marker)
    /\ \/ /\ create.if_not_exists
          /\ Pg!KeepExisting(t)
          /\ Departs({t} \ DOMAIN tables)
       \/ \E attrs \in CreatedAttrs(create) :
             /\ DistinctNames(attrs) /\ Pg!Create(t, attrs, create.partition_of)
             /\ Departs({name \in {t} : CopiesMore(create)})

-----------------------------------------------------------------------------
(* ALTER, DROP and RENAME.  A change of a table reaches its partitions in  *)
(* Postgres, never in the replay.                                          *)

\* The two replays of one ALTER TABLE sub-command.
Altered(t, FolderStep, PgStep) ==
    /\ AlterTable(t)
    /\ Unanalyzable(t) \/ FolderStep
    /\ PgStep
    /\ Departs(Pg!Partitions(t))

SeriesAlter(t) ==
    \/ \E raw \in Raws, ine \in BOOLEAN :
          Altered(t, AddColumn(t, raw, ine), Pg!AddColumn(t, raw.key, ine))
    \/ \E column \in Column, if_exists \in BOOLEAN :
          Altered(t, DropColumns(t, column, if_exists), Pg!DropColumn(t, column, if_exists))

SeriesRename(t) ==
    /\ NewStatement
    /\ \/ \E old, new \in Column :
             /\ Unanalyzable(t) \/ RenameColumn(t, old, new)
             /\ Pg!RenameColumn(t, old, new)
             /\ Departs(Pg!Partitions(t))
       \/ \E new \in Table :
             /\ Unanalyzable(t) \/ RenameTable(t, new)
             /\ Pg!RenameTable(t, new)
             /\ departed' = (departed \ {t}) \cup {name \in {new} : t \in departed}

SeriesDrop(names, if_exists) ==
    /\ DropTables(names, if_exists)
    /\ Pg!DropTables(Elements(names), if_exists)
    /\ departed' = (departed \cup UNION {Pg!Partitions(t) : t \in Elements(names)})
                       \ Elements(names)

-----------------------------------------------------------------------------
(* Statements the replay cannot read. *)

\* Anything one statement about t may do in Postgres.
PgUnseen(t) ==
    \/ UNCHANGED <<relations, departed>>
    \/ (\E attrs \in UnknownColumns : Pg!Create(t, attrs, NoName)) /\ UNCHANGED departed
    \/ /\ Departs(Pg!Partitions(t))
       /\ \/ \E column \in Column : Pg!AddColumn(t, column, FALSE)
          \/ \E column \in Column : Pg!DropColumn(t, column, FALSE)
          \/ \E old, new \in Column : Pg!RenameColumn(t, old, new)
          \/ Pg!DropTables({t}, FALSE)

\* The sniff names what the statement is about, or nothing at all.
SeriesSkipped(t) ==
    \/ Skipped("alter", t) /\ PgUnseen(t)
    \/ /\ Skipped("create", t)
       /\ Pg!KeepExisting(t) \/ \E attrs \in UnknownColumns : Pg!Create(t, attrs, NoName)
       /\ UNCHANGED departed
    \/ Skipped("nothing", t) /\ PgUnseen(t)

\* A DO block: DDL of a table it names, or DDL the scan cannot attribute.
SeriesDoBlock(t) == (ConditionalTableDdl(t) \/ DoBlockNote) /\ PgUnseen(t)

PgNext ==
    \/ \E t \in Table, create \in Creates : SeriesCreate(t, create)
    \/ \E t \in Table : SeriesAlter(t)
    \/ \E t \in Table : SeriesRename(t)
    \/ \E names \in DropLists, if_exists \in BOOLEAN : SeriesDrop(names, if_exists)
    \/ \E t \in Table : SeriesSkipped(t)
    \/ \E t \in Table : SeriesDoBlock(t)

PgSpec == PgInit /\ [][PgNext]_pgvars

-----------------------------------------------------------------------------
(* Properties. *)

Keys(table) == [i \in DOMAIN table.columns |-> table.columns[i].key]

Agrees(t) ==
    /\ Pg!Exists(t)
    /\ Keys(tables[t]) = Pg!Live(relations[t].attrs)
    /\ tables[t].dropped_count = Pg!DroppedSlots(relations[t].attrs)

\* A note that says some statement could not even be attributed to a table.
Unattributed ==
    \E note \in Elements(notes) :
        note.kind \in {"SkippedStatement", "DoBlockDdl"} /\ note.about = NoName

\* "A linter must never be silently wrong" (README.md:60): as long as every
\* unreadable statement could be attributed to a table, a table the replay calls
\* complete exists in Postgres with exactly the modeled columns, in the modeled
\* physical order, and with the modeled number of dropped slots.  Nothing is said
\* of the partitions of a table that was altered or dropped later, of a table that
\* CREATE TABLE IF NOT EXISTS found in Postgres but not in the replay, nor of a copy
\* of a table with dropped slots: those are the ones the replay does get wrong.
NeverSilentlyWrong ==
    ~Unattributed => \A t \in DOMAIN tables \ departed : tables[t].incomplete \/ Agrees(t)
=============================================================================
