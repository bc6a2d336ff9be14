------------------------------ MODULE Postgres ------------------------------
(***************************************************************************)
(* What the database the migrations are written for makes of a series: the *)
(* external reference of the replay, reduced to what the sources of rowdiet*)
(* say of it.  A relation is its attributes in physical order, dropped ones*)
(* included ("Postgres keeps dropped attributes (attisdropped)"), and the  *)
(* table it is a partition of.  An operation's guard is Postgres accepting *)
(* the statement; a rejected statement never enters a migration series.    *)
(* Partitions of partitions are left out.                                  *)
(***************************************************************************)
EXTENDS Collections, FiniteSets

CONSTANTS
    Table,      \* relation names
    Column,     \* column names
    NoName      \* the parent of a relation that is no partition

VARIABLE relations

Attribute(column) == [name |-> column, dropped |-> FALSE]

Attributes(columns) == [i \in DOMAIN columns |-> Attribute(columns[i])]

\* The names of the live columns, in physical order.
Live(attrs) ==
    LET live == Retain(attrs, {attr \in Elements(attrs) : attr.dropped})
    IN  [i \in DOMAIN live |-> live[i].name]

DroppedSlots(attrs) == Cardinality({i \in DOMAIN attrs : attrs[i].dropped})

Exists(t) == t \in DOMAIN relations

Partitions(t) == {child \in DOMAIN relations : relations[child].parent = t}

\* ALTER TABLE of a partitioned table reaches its partitions; a partition's own
\* columns cannot be altered.
Alterable(t) == Exists(t) /\ relations[t].parent = NoName

IsLive(t, column) == column \in Elements(Live(relations[t].attrs))

\* Apply Edit to the attributes of t and of its partitions.
AlterFamily(t, Edit(_)) ==
    relations' = [r \in DOMAIN relations |->
                     IF r = t \/ relations[r].parent = t
                     THEN [relations[r] EXCEPT !.attrs = Edit(@)]
                     ELSE relations[r]]

Create(t, attrs, parent) ==
    /\ ~Exists(t)
    /\ relations' = Put(relations, t, [attrs |-> attrs, parent |-> parent])

KeepExisting(t) == Exists(t) /\ UNCHANGED relations

AddColumn(t, column, if_not_exists) ==
    /\ Alterable(t)
    /\ IF IsLive(t, column)
       THEN if_not_exists /\ UNCHANGED relations
       ELSE AlterFamily(t, LAMBDA attrs : Append(attrs, Attribute(column)))

\* Set the attributes of one name; a dropped slot keeps the name it had.
EditNamed(attrs, column, edited) ==
    [i \in DOMAIN attrs |->
        IF attrs[i] = Attribute(column) THEN edited ELSE attrs[i]]

DropColumn(t, column, if_exists) ==
    /\ Alterable(t)
    /\ IF IsLive(t, column)
       THEN AlterFamily(t, LAMBDA attrs :
                EditNamed(attrs, column, [name |-> column, dropped |-> TRUE]))
       ELSE if_exists /\ UNCHANGED relations

RenameColumn(t, old, new) ==
    /\ Alterable(t)
    /\ IsLive(t, old) /\ ~IsLive(t, new)
    /\ AlterFamily(t, LAMBDA attrs : EditNamed(attrs, old, Attribute(new)))

RenameTable(t, new) ==
    /\ Exists(t) /\ ~Exists(new)
    /\ relations' =
           [r \in (DOMAIN relations \ {t}) \cup {new} |->
               LET was == relations[IF r = new THEN t ELSE r]
               IN  [was EXCEPT !.parent = IF @ = t THEN new ELSE @]]

\* Dropping a partitioned table drops its partitions.
DropTables(names, if_exists) ==
    LET gone == names \cup UNION {Partitions(t) : t \in names}
    IN  /\ if_exists \/ names \subseteq DOMAIN relations
        /\ relations' = [r \in DOMAIN relations \ gone |-> relations[r]]
=============================================================================
