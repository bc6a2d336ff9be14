------------------------------ MODULE Baseline ------------------------------
(***************************************************************************)
(* The baseline gate (baseline.rs) and the CLI's maintenance of the file   *)
(* (maintain_baseline), while the migration series the analysis is made of *)
(* grows.  A layout signature names the storage classes in order, so it is *)
(* the sequence of them; the avoidable bytes are those of the report       *)
(* (TableReport), which dropped columns do not move.                       *)
(***************************************************************************)
EXTENDS TableReport

CONSTANTS
    Table,          \* fold keys
    Display,        \* each table's display spelling, also a name --accept takes
    Layouts,        \* layouts a table is created with or rewritten to
    Kinds,          \* storage classes ADD COLUMN may append
    NoteKinds,      \* kinds of the notes an analysis may carry
    Limits,         \* values --fail-over may have
    NoLimit,        \* no --fail-over
    NoFile,         \* no baseline file
    Allowances,     \* values an entry may be tightened to by hand
    MaxColumns      \* bound on the columns of a table

\* What a baseline file holds: the fail-over, and the accepted debt of some tables.
AcceptedDebt == [bytes : Nat, layout : Seq(ColumnKind)]

BaselineContents ==
    [fail_over : Nat, tables : UNION {[names -> AcceptedDebt] : names \in SUBSET Table}]

ASSUME BaselineAssumption ==
    /\ DOMAIN Display = Table
    /\ NoFile \notin BaselineContents
    /\ Layouts \subseteq Seq(ColumnKind)
    /\ \A layout \in Layouts : Len(layout) <= MaxColumns
    /\ Kinds \subseteq ColumnKind
    /\ Limits \subseteq Nat /\ NoLimit \notin Nat
    /\ Allowances \subseteq Nat
    /\ MaxColumns \in Nat

VARIABLES
    tables,     \* Analysis::tables, in creation order
    notes,      \* kinds of Analysis::notes
    file,       \* the baseline file: NoFile or a Baseline
    accepted    \* history: the entries maintenance last recorded

vars == <<tables, notes, file, accepted>>

\* Every layout the workload can grow, and its report.
Growths ==
    UNION {{layout \o ext : ext \in UNION {[1..n -> Kinds] : n \in 0..(MaxColumns - Len(layout))}} :
              layout \in Layouts}

Reports ==
    [layout \in Growths |-> [incomplete \in BOOLEAN |-> Build(layout, 0, incomplete)]]

\* What the gate reads of a TableReport.
Row(name, layout, ignored, incomplete) ==
    LET report == Reports[layout][incomplete]
    IN  [ name |-> name, ignored |-> ignored, incomplete |-> incomplete,
          avoidable |-> report.avoidable, layout_signature |-> report.layout_signature ]

Analyzed == {tables[i].name : i \in DOMAIN tables}

GatedTables == {table \in Elements(tables) : ~table.ignored}

-----------------------------------------------------------------------------
(* The gate: evaluate and table_verdict.  `cli` is the --fail-over. *)

HasEntry(name) == file # NoFile /\ name \in DOMAIN file.tables

DefaultLimit(cli) ==
    IF cli # NoLimit \/ file = NoFile THEN cli ELSE file.fail_over

Exceeds(avoidable, limit) == limit # NoLimit /\ avoidable > limit

\* Faults: a prefix of the text, whose last class may be cut short ("vi" of "vip");
\* no prefix rule.
TextRelation(baselined, current) ==
    LET n == Len(baselined)
    IN  CASE baselined = current -> "Match"
          [] /\ baselined # << >> /\ baselined # current
             /\ Len(current) >= n
             /\ SubSeq(current, 1, n - 1) = SubSeq(baselined, 1, n - 1)
             /\ current[n].form = baselined[n].form /\ current[n].align = baselined[n].align
             -> "Grown"
          [] OTHER -> "Different"

WholeRelation(baselined, current) ==
    IF baselined = current THEN "Match" ELSE "Different"

\* relation: a prefix ends at a comma, a column's boundary.
Relation(baselined, current) ==
    IF baselined = current
    THEN "Match"
    ELSE IF /\ baselined # << >>
            /\ Len(current) > Len(baselined)
            /\ SubSeq(current, 1, Len(baselined)) = baselined
    THEN "Grown"
    ELSE "Different"

RelationOf(table) ==
    Relation(file.tables[table.name].layout, table.layout_signature)

\* The verdict of a table with an entry; `over` is over the default limit.
EntryVerdict(table, over) ==
    LET allowed == file.tables[table.name].bytes
        related == RelationOf(table)
    IN  IF related = "Different"
        THEN IF over THEN "modified_since_baseline" ELSE "pass"
        ELSE IF table.avoidable < allowed THEN "ratchet_opportunity"
        ELSE IF table.avoidable = allowed THEN "pass"
        ELSE IF related = "Match" THEN "regression"
        ELSE "grown_since_baseline"

TableVerdict(table, cli) ==
    LET over == Exceeds(table.avoidable, DefaultLimit(cli))
    IN  IF table.incomplete THEN "incomplete"
        ELSE IF HasEntry(table.name) THEN EntryVerdict(table, over)
        ELSE IF over THEN "new_violation"
        ELSE "pass"

Failing(verdict) ==
    verdict \in {"new_violation", "regression", "grown_since_baseline",
                 "modified_since_baseline"}

Expired(table, cli) ==
    /\ ~table.incomplete
    /\ HasEntry(table.name)
    /\ RelationOf(table) = "Different"
    /\ ~Exceeds(table.avoidable, DefaultLimit(cli))

\* Counts are kept as whether there is any.
Evaluate(cli, fail_on_degraded) ==
    LET skipped == "SkippedStatement" \in notes
        incomplete == \E table \in GatedTables : table.incomplete
        empty == "EmptyScan" \in notes
        degraded == skipped \/ incomplete \/ empty
        gated == {table.name : table \in GatedTables}
    IN  [ exceeded |->
              \/ \E table \in GatedTables : Failing(TableVerdict(table, cli))
              \/ fail_on_degraded /\ degraded,
          degraded |-> degraded,
          orphaned |-> IF file = NoFile THEN {} ELSE DOMAIN file.tables \ gated,
          expired |-> {table.name : table \in {row \in GatedTables : Expired(row, cli)}} ]

\* Analysis::degraded, through NoteKind::is_degradation.
IsDegradation(kind) == kind \in {"SkippedStatement", "EmptyScan"}

AnalysisDegraded ==
    \/ \E kind \in notes : IsDegradation(kind)
    \/ \E table \in GatedTables : table.incomplete

-----------------------------------------------------------------------------
(* Maintenance of the file. *)

Entry(table) == [bytes |-> table.avoidable, layout |-> table.layout_signature]

\* Fault: ignored tables are recorded too.
BuildFromAll(limit) ==
    LET indebted == {table \in Elements(tables) : table.avoidable > limit}
    IN  [ fail_over |-> limit,
          tables |-> [name \in {table.name : table \in indebted} |->
                         Entry(CHOOSE table \in indebted : table.name = name)] ]

BuildFrom(limit) ==
    LET indebted == {table \in GatedTables : table.avoidable > limit}
    IN  [ fail_over |-> limit,
          tables |-> [name \in {table.name : table \in indebted} |->
                         Entry(CHOOSE table \in indebted : table.name = name)] ]

\* The gated table --accept means: the first of that fold key or display.
Candidates(name) ==
    {i \in DOMAIN tables :
        ~tables[i].ignored /\ name \in {tables[i].name, Display[tables[i].name]}}

Meant(name) ==
    tables[CHOOSE i \in Candidates(name) : \A j \in Candidates(name) : i <= j]

AcceptOne(baseline, table) ==
    [baseline EXCEPT !.tables =
        IF table.avoidable > baseline.fail_over
        THEN Put(@, table.name, Entry(table))
        ELSE Remove(@, table.name)]

AcceptTables(baseline, names) ==
    LET acc[i \in 0..Len(names)] ==
            IF i = 0 THEN baseline ELSE AcceptOne(acc[i - 1], Meant(names[i]))
    IN  acc[Len(names)]

\* The history after a write that recorded `names`.
Recorded(names, baseline) ==
    [name \in DOMAIN accepted \cup (names \cap DOMAIN baseline.tables) |->
        IF name \in names \cap DOMAIN baseline.tables
        THEN baseline.tables[name] ELSE accepted[name]]

\* --update-baseline; without a limit from anywhere it is an error.
UpdateBaseline(cli) ==
    LET limit == DefaultLimit(cli)
    IN  /\ limit # NoLimit
        /\ file' = BuildFrom(limit)
        /\ accepted' = Recorded(Table, file')
        /\ UNCHANGED <<tables, notes>>

\* --accept; a name that means no gated table is an error, and nothing is written.
Accept(names) ==
    /\ file # NoFile
    /\ \A i \in DOMAIN names : Candidates(names[i]) # {}
    /\ file' = AcceptTables(file, names)
    /\ accepted' = Recorded({Meant(names[i]).name : i \in DOMAIN names}, file')
    /\ UNCHANGED <<tables, notes>>

\* A reviewer edits one allowance down ("hand-tightened entries").
TightenByHand(name, bytes) ==
    /\ HasEntry(name)
    /\ bytes < file.tables[name].bytes
    /\ file' = [file EXCEPT !.tables[name].bytes = bytes]
    /\ UNCHANGED <<tables, notes, accepted>>

-----------------------------------------------------------------------------
(* The series grows: the next analysis. *)

CreateTable(name, layout, ignored, incomplete) ==
    /\ name \notin Analyzed
    /\ tables' = Append(tables, Row(name, layout, ignored, incomplete))
    /\ UNCHANGED <<notes, file, accepted>>

DropTable(i) ==
    /\ tables' = SubSeq(tables, 1, i - 1) \o SubSeq(tables, i + 1, Len(tables))
    /\ UNCHANGED <<notes, file, accepted>>

ChangeTable(i, layout, incomplete) ==
    /\ tables' = [tables EXCEPT ![i] = Row(@.name, layout, @.ignored, incomplete)]
    /\ UNCHANGED <<notes, file, accepted>>

AppendColumn(i, kind) ==
    /\ Len(tables[i].layout_signature) < MaxColumns
    /\ ChangeTable(i, Append(tables[i].layout_signature, kind), tables[i].incomplete)

Rewrite(i, layout) == ChangeTable(i, layout, tables[i].incomplete)

\* A statement about the table becomes unreadable, or readable again.
SetIncomplete(i, incomplete) == ChangeTable(i, tables[i].layout_signature, incomplete)

AnalyzeWith(kinds) == notes' = kinds /\ UNCHANGED <<tables, file, accepted>>

-----------------------------------------------------------------------------

Init ==
    /\ tables = << >>
    /\ notes = {}
    /\ file = NoFile
    /\ accepted = EmptyMap

NameLists ==
    LET names == Table \cup {Display[name] : name \in Table}
    IN  {<< name >> : name \in names} \cup {<< m, n >> : m, n \in names}

Next ==
    \/ \E name \in Table, layout \in Layouts, ignored, incomplete \in BOOLEAN :
           CreateTable(name, layout, ignored, incomplete)
    \/ \E i \in DOMAIN tables : DropTable(i)
    \/ \E i \in DOMAIN tables, kind \in Kinds : AppendColumn(i, kind)
    \/ \E i \in DOMAIN tables, layout \in Layouts : Rewrite(i, layout)
    \/ \E i \in DOMAIN tables, incomplete \in BOOLEAN : SetIncomplete(i, incomplete)
    \/ \E kinds \in SUBSET NoteKinds : AnalyzeWith(kinds)
    \/ \E cli \in Limits \cup {NoLimit} : UpdateBaseline(cli)
    \/ \E names \in NameLists : Accept(names)
    \/ \E name \in Table, bytes \in Allowances : TightenByHand(name, bytes)

Spec == Init /\ [][Next]_vars

-----------------------------------------------------------------------------
(* Properties. *)

VerdictOf(name, cli) ==
    TableVerdict(CHOOSE table \in GatedTables : table.name = name, cli)

SpellsNoOther(name) ==
    \A table \in GatedTables : Display[table.name] = name => table.name = name

Begins(layout, prefix) ==
    Len(prefix) <= Len(layout) /\ SubSeq(layout, 1, Len(prefix)) = prefix

\* A budget of bytes is no license to spend it elsewhere: a table that passes over
\* the file's fail-over has a layout that was accepted, or that extends an accepted
\* one, with at least its bytes, whatever it was rewritten to in between.
DebtWasAccepted ==
    file # NoFile =>
        \A table \in GatedTables :
            /\ table.avoidable > file.fail_over
            /\ ~Failing(TableVerdict(table, NoLimit))
            => /\ table.name \in DOMAIN accepted
               /\ table.avoidable <= accepted[table.name].bytes
               /\ Begins(table.layout_signature, accepted[table.name].layout)

\* Maintenance leaves nothing to maintain.  Right after --update-baseline the gate is
\* green at the recorded fail-over, and "orphans and expired entries vanish by
\* construction" (baseline.rs:278).  Tables accepted by fold keys that spell no other table
\* pass at the file's fail-over, and twice in a row changes nothing more.
MaintenanceSettles ==
    [][/\ \A cli \in Limits \cup {NoLimit} :
              UpdateBaseline(cli) =>
                  LET outcome == Evaluate(NoLimit, FALSE)'
                  IN  ~outcome.exceeded /\ outcome.orphaned = {} /\ outcome.expired = {}
       /\ \A names \in NameLists :
              Accept(names) =>
                  /\ file' = AcceptTables(file, names)'
                  /\ \A table \in GatedTables :
                         table.name \in Elements(names) /\ SpellsNoOther(table.name) =>
                             ~Failing(VerdictOf(table.name, NoLimit)')]_vars

\* "an append keeps the allowance alive" (README.md): a column appended to a
\* baselined table that passes fails it only by making the avoidable bytes grow.
AppendKeepsAllowance ==
    [][\A i \in DOMAIN tables, kind \in Kinds :
           /\ AppendColumn(i, kind)
           /\ HasEntry(tables[i].name)
           /\ RelationOf(tables[i]) # "Different"
           /\ ~Failing(TableVerdict(tables[i], NoLimit))
           /\ tables'[i].avoidable <= tables[i].avoidable
           => ~Failing(TableVerdict(tables[i], NoLimit)')]_vars

-----------------------------------------------------------------------------
(* What the documents say and the code does otherwise. *)

\* A table nobody could fully model is "neither a pass nor a violation"
\* (baseline.rs:49): no maintenance takes it for one that meets the fail-over.
IncompleteKeepsEntry ==
    [][tables' = tables =>
           \A table \in GatedTables :
               table.incomplete /\ HasEntry(table.name) => HasEntry(table.name)']_vars
=============================================================================
