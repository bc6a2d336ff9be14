------------------------------ MODULE Backends ------------------------------
(***************************************************************************)
(* The two parser front ends (extract.rs over sqlparser, extract_pgq.rs    *)
(* over libpg_query) as translations of one abstract statement to the      *)
(* common vocabulary, DdlOp, spellings left out; and a migration series    *)
(* whose tables each of them follows by key, and whose unreadable          *)
(* statements are sniffed.  What those do to tables is PgReplay's subject. *)
(***************************************************************************)
EXTENDS Sniff

CONSTANTS
    Statements,      \* the statements a series is made of
    RenameQualified, \* whether a table in a schema may be renamed
    MaxTables        \* bound: tables created in a series

ASSUME BackendsAssumption ==
    /\ RenameQualified \in BOOLEAN /\ MaxTables \in Nat
    /\ \A s \in Statements : s.kind # "unreadable"

VARIABLES
    statement,  \* the last statement
    relations,  \* Postgres: the schema and name of each table, by creation number
    tracked,    \* the tables each backend's keys stand for
    created     \* history: the number of tables created

vars == <<statement, relations, tracked, created>>

Backend == {"sqlparser", "pg-exact"}

None == << >>

NoLength == 0

-----------------------------------------------------------------------------
(* Types.  A declared type is a keyword or a name, with a length or not. *)

CharText == << "char" >>

\* scalar_key and custom_key: the modifiers of a named type are dropped.
ScalarKey(type) ==
    CASE type.keyword = "char" ->
             [ key |-> << "bpchar" >>,
               char_len |-> IF type.length = NoLength THEN 1 ELSE type.length ]
      [] type.keyword = "varchar" -> [key |-> << "varchar" >>, char_len |-> type.length]
      [] type.keyword = "int" -> [key |-> << "int4" >>, char_len |-> NoLength]
      [] OTHER ->
             [ key |-> IF LastOf(type.name).quoted /\ LastOf(type.name).text = CharText
                       THEN << "pgchar" >> ELSE TypeKey(type.name),
               char_len |-> NoLength ]

\* extract.rs map_type: an array is keyed by its element.
SqlparserType(type) ==
    LET scalar == ScalarKey(type)
    IN  [ key |-> scalar.key, dims |-> type.dims,
          char_len |-> IF type.dims > 0 THEN NoLength ELSE scalar.char_len ]

\* libpg_query delivers keywords as names in pg_catalog, folded.
Arrives(type) ==
    LET catalog(name) == << << "pg_catalog" >>, << name >> >>
    IN  CASE type.keyword = "char" -> catalog("bpchar")
          [] type.keyword = "varchar" -> catalog("varchar")
          [] type.keyword = "int" -> catalog("int4")
          [] OTHER -> Keys(type.name)

\* extract_pgq.rs map_type.
PgqType(type) ==
    LET names == Arrives(type)
        last == LastOf(names)
        defaulted == last = << "bpchar" >> /\ Len(names) > 1 /\ type.length = NoLength
    IN  [ key |-> IF last = CharText THEN << "pgchar" >> ELSE last,
          dims |-> type.dims,
          char_len |->
              IF type.dims > 0 \/ last \notin {<< "varchar" >>, << "bpchar" >>} THEN NoLength
              ELSE IF defaulted THEN 1 ELSE type.length ]

MapType(backend, type) ==
    IF backend = "sqlparser" THEN SqlparserType(type) ELSE PgqType(type)

-----------------------------------------------------------------------------
(* Columns and tables. *)

\* A generated column with an expression may be null; an identity may not.
ForcesNotNull(constraint) == constraint \in {"not null", "primary key", "identity"}

MapColumn(backend, column) ==
    [ key |-> IdentKey(column.name), type_ref |-> MapType(backend, column.type),
      not_null |-> ForcesNotNull(column.constraint) ]

MapColumns(backend, columns) ==
    [i \in DOMAIN columns |-> MapColumn(backend, columns[i])]

Source(create, form) == IF create.form = form THEN TableKey(create.source) ELSE None

\* Fault: a partition's parent is in the list of inherited tables, too.
IncompletePartition(backend, create) ==
    create.form = "inherits" \/ (backend = "pg-exact" /\ create.form = "partition")

\* libpg_query lists a partition's parent with the inherited tables.
Incomplete(backend, create) ==
    LET inherited == create.form \in {"inherits", "partition"}
        partbound == create.form = "partition"
    IN  IF backend = "sqlparser" THEN create.form = "inherits" ELSE inherited /\ ~partbound

\* map_create_table of both, and map_ctas.
MapCreateTable(backend, create) ==
    [ op |-> "CreateTable", name |-> TableKey(create.name),
      columns |-> MapColumns(backend, create.columns), pk_columns |-> Keys(create.pk),
      if_not_exists |-> create.if_not_exists, temporary |-> create.temporary,
      is_ctas |-> create.form = "query",
      incomplete_columns |-> Incomplete(backend, create),
      partition_of |-> Source(create, "partition"), like_source |-> Source(create, "like") ]

-----------------------------------------------------------------------------
(* ALTER and the rest. *)

Irrelevant == [op |-> "Irrelevant"]

SetNotNull(table, column, value) ==
    [op |-> "SetNotNull", table |-> table, column |-> column, value |-> value]

\* One sub-command: map_alter_op and map_alter_column, map_alter_cmd.
MapAlterOp(backend, table, cmd) ==
    CASE cmd.do = "add column" ->
             << [ op |-> "AddColumn", table |-> table,
                  column |-> MapColumn(backend, cmd.column),
                  if_not_exists |-> cmd.if_not_exists ] >>
      [] cmd.do = "drop column" ->
             << [ op |-> "DropColumns", table |-> table,
                  columns |-> << IdentKey(cmd.column) >>, if_exists |-> cmd.if_exists ] >>
      [] cmd.do = "set type" ->
             << [ op |-> "SetColumnType", table |-> table,
                  column |-> IdentKey(cmd.column), type_ref |-> MapType(backend, cmd.type) ] >>
      [] cmd.do = "set not null" -> << SetNotNull(table, IdentKey(cmd.column), TRUE) >>
      [] cmd.do = "drop not null" -> << SetNotNull(table, IdentKey(cmd.column), FALSE) >>
      [] cmd.do = "add primary key" ->
             [i \in DOMAIN cmd.columns |-> SetNotNull(table, IdentKey(cmd.columns[i]), TRUE)]
      [] OTHER -> << Irrelevant >>

MapAlterTable(backend, s) ==
    LET upto[n \in 0..Len(s.commands)] ==
            IF n = 0 THEN << >>
            ELSE upto[n - 1] \o MapAlterOp(backend, TableKey(s.name), s.commands[n])
    IN  upto[Len(s.commands)]

MapRenameColumn(s) ==
    << [ op |-> "RenameColumn", table |-> TableKey(s.name),
         old |-> IdentKey(s.old), new |-> IdentKey(s.new) ] >>

\* The new name has no schema of its own.
MapRenameTable(s) ==
    << [op |-> "RenameTable", table |-> TableKey(s.name), new |-> IdentKey(s.new)] >>

\* extract_pgq.rs reads the old name with dropped_name, which joins its parts.
MapRenameType(backend, s) ==
    << [ op |-> "RenameType", new |-> IdentKey(s.new),
         name |-> IF backend = "sqlparser" THEN TypeKey(s.name) ELSE TableKey(s.name) ] >>

\* `subtype` is a sequence of one type, or empty.
MapCreateType(backend, s) ==
    LET name == TypeKey(s.name)
    IN  << CASE s.as = "enum" -> [op |-> "CreateEnum", name |-> name]
             [] s.as = "composite" -> [op |-> "CreateComposite", name |-> name]
             [] s.as = "range" ->
                    [ op |-> "CreateRange", name |-> name,
                      subtype |-> [i \in DOMAIN s.subtype |-> MapType(backend, s.subtype[i])] ]
             [] s.as = "domain" ->
                    [op |-> "CreateDomain", name |-> name, base |-> MapType(backend, s.base)]
             [] OTHER -> [op |-> "CreateBase", name |-> name] >>

DropTables(s, names) ==
    [op |-> "DropTables", names |-> TableKeys(names), if_exists |-> s.if_exists]

DropTypes(s) == [op |-> "DropTypes", names |-> [i \in DOMAIN s.names |-> TypeKey(s.names[i])]]

\* Fault: only the first table of the list is dropped.
MapDropFirst(backend, s) ==
    << IF s.object = "table" THEN DropTables(s, << s.names[1] >>) ELSE DropTypes(s) >>

\* DROP of a table, a type or a domain.  sqlparser reads DROP DOMAIN as a statement of
\* its own, which map_statement of extract.rs leaves aside.
MapDrop(backend, s) ==
    << CASE s.object = "table" -> DropTables(s, s.names)
         [] s.object = "type" \/ (s.object = "domain" /\ backend = "pg-exact") -> DropTypes(s)
         [] OTHER -> Irrelevant >>

\* map_statement of both.
MapStatement(backend, s) ==
    CASE s.kind = "create table" -> << MapCreateTable(backend, s) >>
      [] s.kind = "alter table" -> MapAlterTable(backend, s)
      [] s.kind = "rename column" -> MapRenameColumn(s)
      [] s.kind = "rename table" -> MapRenameTable(s)
      [] s.kind = "rename type" -> MapRenameType(backend, s)
      [] s.kind = "create type" -> MapCreateType(backend, s)
      [] s.kind = "drop" -> MapDrop(backend, s)
      [] OTHER -> << Irrelevant >>

-----------------------------------------------------------------------------
(* A series, in Postgres and by key. *)

Public == << "public" >>

\* Which relation a name means: an unquoted part is folded, and what names no
\* schema is in the search path's.
Identity(name) ==
    IF Len(name) = 1 THEN << Public, IdentKey(name[1]) >>
    ELSE << IdentKey(name[1]), IdentKey(name[2]) >>

Existing(identity) == {id \in DOMAIN relations : relations[id] = identity}

RunsCreate(s) ==
    LET identity == Identity(s.name)
    IN  IF Existing(identity) = {}
        THEN /\ created < MaxTables
             /\ created' = created + 1
             /\ relations' = Put(relations, created', identity)
        ELSE s.if_not_exists /\ UNCHANGED <<relations, created>>

\* RENAME TO leaves the table in its schema.
RunsRename(s) ==
    LET new == << Identity(s.name)[1], IdentKey(s.new) >>
    IN  /\ RenameQualified \/ Len(s.name) = 1
        /\ Existing(Identity(s.name)) # {} /\ Existing(new) = {}
        /\ \E id \in Existing(Identity(s.name)) : relations' = [relations EXCEPT ![id] = new]
        /\ UNCHANGED created

RunsDrop(s) ==
    LET gone == {Identity(name) : name \in Elements(s.names)}
    IN  /\ s.if_exists \/ \A identity \in gone : Existing(identity) # {}
        /\ relations' =
               [id \in {i \in DOMAIN relations : relations[i] \notin gone} |-> relations[id]]
        /\ UNCHANGED created

\* Postgres accepts the statement.
Runs(s) ==
    CASE s.kind = "create table" -> RunsCreate(s)
      [] s.kind = "rename table" -> RunsRename(s)
      [] s.kind = "drop" /\ s.object = "table" -> RunsDrop(s)
      [] OTHER -> UNCHANGED <<relations, created>>

\* What the replay does with an op to the tables it has by key.
Follow(keys, op, id) ==
    CASE op.op = "CreateTable" ->
             IF op.if_not_exists /\ op.name \in DOMAIN keys THEN keys
             ELSE Put(keys, op.name, id)
      [] op.op = "RenameTable" ->
             IF op.table \in DOMAIN keys
             THEN Put(Remove(keys, op.table), op.new, keys[op.table]) ELSE keys
      [] op.op = "DropTables" ->
             [key \in DOMAIN keys \ Elements(op.names) |-> keys[key]]
      [] OTHER -> keys

Execute(s) ==
    /\ Runs(s)
    /\ statement' = s
    /\ tracked' = [backend \in Backend |->
                      Follow(tracked[backend], MapStatement(backend, s)[1], created')]

Init ==
    /\ statement = [kind |-> "other"]
    /\ relations = EmptyMap
    /\ tracked = [backend \in Backend |-> EmptyMap]
    /\ created = 0

\* Neither parser can read the statement.
Unreadable(heading) ==
    /\ statement' = [kind |-> "unreadable", heading |-> heading]
    /\ UNCHANGED <<relations, tracked, created>>

Next ==
    \/ \E s \in Statements : Execute(s)
    \/ \E heading \in Headings : Unreadable(heading)

Spec == Init /\ [][Next]_vars

-----------------------------------------------------------------------------
(* What is said of the statements of a series. *)

\* A named type is none of the keywords for text: `char` is one when it is not
\* quoted, and the front ends differ in the length of a named varchar or bpchar.
NamedPlainly(type) ==
    LET last == LastOf(type.name)
        key == IdentKey(last)
    IN  /\ type.name \in Seq(Elements(type.name)) \ {<< >>}
        /\ key = CharText => last.quoted
        /\ key \in {<< "varchar" >>, << "bpchar" >>} => type.length = NoLength
        /\ key = << "bpchar" >> => Len(type.name) = 1

PlainType(type) == type.keyword \in {"char", "varchar", "int"} \/ NamedPlainly(type)

PlainCommand(cmd) ==
    /\ cmd.do = "add column" => PlainType(cmd.column.type)
    /\ cmd.do = "set type" => PlainType(cmd.type)
    /\ cmd.do = "add primary key" => cmd.columns \in Seq(Elements(cmd.columns)) \ {<< >>}

\* The front ends differ in ALTER TYPE RENAME of a type in a schema, and in DROP DOMAIN.
Plain(s) ==
    CASE s.kind = "create table" -> \A column \in Elements(s.columns) : PlainType(column.type)
      [] s.kind = "alter table" ->
             /\ s.commands \in Seq(Elements(s.commands)) \ {<< >>}
             /\ \A cmd \in Elements(s.commands) : PlainCommand(cmd)
      [] s.kind = "rename type" -> Len(s.name) = 1
      [] s.kind = "drop" -> s.object # "domain"
      [] s.kind = "create type" /\ s.as = "range" ->
             \A type \in Elements(s.subtype) : PlainType(type)
      [] s.kind = "create type" /\ s.as = "domain" -> PlainType(s.base)
      [] OTHER -> TRUE

OfKind(kind) == {s \in Statements : s.kind = kind}

\* The names of tables a series uses.
SeriesNames ==
    {s.name : s \in OfKind("create table") \cup OfKind("rename table")}
        \cup {<< s.new >> : s \in OfKind("rename table")}
        \cup UNION {Elements(s.names) : s \in {d \in OfKind("drop") : d.object = "table"}}

\* "search_path is out of scope -- qualify consistently" (extract.rs:424): two
\* spellings have one key exactly if they mean one table.
QualifiedConsistently ==
    \A n \in SeriesNames, m \in SeriesNames :
        TableKey(n) = TableKey(m) <=> Identity(n) = Identity(m)

-----------------------------------------------------------------------------
(* Properties. *)

\* "Both parsers must produce the same DdlOps (modulo display text) [...] over
\* everything both can parse" (rowdiet-core/src/tests.rs:229).
BackendsAgree ==
    statement.kind # "unreadable" =>
        MapStatement("sqlparser", statement) = MapStatement("pg-exact", statement)

Names == {s.name : s \in OfKind("create table")}

\* "Tables keep their qualification" as their identity (extract.rs:16): however a name
\* is spelled, after any series its key stands for the table Postgres would find by
\* it, and for none when there is none.
NamesTrack ==
    \A backend \in Backend, name \in Names :
        LET meant == Existing(Identity(name))
            keys == tracked[backend]
        IN  meant = (IF TableKey(name) \in DOMAIN keys THEN {keys[TableKey(name)]} ELSE {})

\* "The fold key of the table an unparseable statement targets" (extract.rs:600): what
\* the sniff names is the key both front ends keep the table under, so the table
\* that is flagged is the one the statement is about.
SniffsTheTarget ==
    statement.kind = "unreadable" =>
        LET heading == statement.heading
        IN  SniffOf(SniffTokens(heading)) = [kind |-> heading.verb, key |-> TableKey(heading.name)]
=============================================================================
