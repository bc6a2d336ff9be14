# Verification of rowdiet

rowdiet lints PostgreSQL migrations for alignment padding: it parses the DDL of
a migration series, replays it over an in-memory schema, computes each table's
row layout as written and as suggested, and gates a build on the difference.
This directory specifies that program in TLA+, checks it with TLC on small
instances, and proves theorems about it with TLAPS for every instance.

Source paths below are relative to `src/`; `core` is
`crates/rowdiet-core/src`, `cli` is `crates/rowdiet/src`.

## 1. Inventory

| Component | State it keeps | Operations | Modelled in |
|---|---|---|---|
| Analysis pipeline (`core/lib.rs`) | the `Folder`; markers of a source not yet attached | for each source in order: split, attach markers, extract, `apply` or `skipped`; scan DO blocks; `finish`, `report::build` | `Analysis`; markers in `Splitter` |
| Statement splitter (`core/split.rs`) | a byte cursor, quote and comment state | `split`, `comment_marker_lines`, `dollar_quoted_body` | `Splitter` against `PgLexer` |
| Parser front ends (`core/extract*.rs`) | none | statement to `DdlOp`s, twice; `sniff` | `Identifiers`, `Backends`, `Sniff` |
| Replay (`core/fold.rs`) | `tables`, `order`, `ghosts`, `notes`, `unknown_types_noted`, the catalog | one handler per `DdlOp`, `skipped`, the DO-block and marker notes, `finish` | `Folder`, `PgReplay` |
| Type catalog (`core/catalog.rs`) | the `session` layer over user and vendored types | `resolve`, `define_*`, `drop_type`, `rename_type` | `Catalog` |
| Layout (`core/layout.rs`) | none | `walk`, footprints, `suggested_order`, `refine_fixed_block` | `ColumnKinds`, `Layout` |
| Report (`core/report.rs`) | none | `build`, `stats`, `Analysis::degraded` | `TableReport`, `Report` |
| Baseline (`core/baseline.rs`) and its file (`cli/lib.rs`) | the file: `fail_over`, one entry per indebted table | `evaluate`, `build_from`, `accept_tables`; load, edit and write | `Baseline`, `BaselineFile` |
| Directory reading (`cli/lib.rs`, `core/fs.rs`) | chunks, reader threads, results | `read_files`, `read_source` | `ReadFiles`, `GatherFiles` |
| File collection, version order (`core/fs.rs`, `core/version.rs`) | none | directory walk, `parse_version`, `compare`, `sort_key` | `VersionOrder`, `CollectFiles` |
| Renderers (`cli/render.rs`) | `AnnotationBudget` | text with `--suggest`, annotations, step summary; JSON | `Annotations`, `Renderings`, `Suggestion`; JSON is not modelled |
| wasm ABI (`crates/rowdiet-wasm`) | the buffers it has handed out | `rowdiet_alloc`, `rowdiet_lint`, `rowdiet_free` | `WasmAbi` |
| CLI arguments and sources (`cli/lib.rs`) | none | `build_config`, `gather_sources`, `append_step_summary` | no |

How they interact. The CLI collects and reads the files (threads, joined in
order), hands the sources to `analyze_sources_with`, which drives the Folder one
operation at a time; the Folder asks and edits the catalog. `finish` yields the
tables in creation order; `build` turns each into a report through the layout
operators. The gate reads reports and notes next to the baseline file, which
outlives the process and is rewritten by the maintenance commands while the
series keeps growing. Within a process everything is sequential except the
reader threads; processes may overlap on the baseline file. In the browser a
host calls the same pipeline through buffers it allocates and frees.

What is hard here, and what makes each part correct:

- *Replay.* Long series of legal operations: renames over existing tables,
  redefinitions, copies of tables that lost columns, operations on tables that
  are only half known. Correct means: the bookkeeping (`order`, dropped slots,
  history, incomplete flags) stays consistent; whatever is left out leaves a
  note; a table reported as complete is the table Postgres has.
- *Types.* A guess must be visible once, and a definition seen later must not
  change what was resolved before.
- *Layout and report.* The suggestion is a reordering, costs nothing, is optimal
  where it claims exact numbers, and does not depend on dropped columns. The
  order comes out of a sort, a search over classes with limits, and two guards.
- *Gate.* An allowance sticks to a layout. Rewrites, appends, acceptances,
  hand edits and relaxed limits in any order must not let a table pass with bytes
  nobody accepted.
- *Reader threads.* Any interleaving and any set of failures must give the answer
  of a single pass in file order, and must give one.
- *Baseline file.* It is rewritten in place, without a lock: runs that overlap, are
  killed or meet a failing disk must not gate by a part of a baseline.
- *Splitter and DO scan.* A cut in the wrong place moves every later one; a block
  may or may not run, and what it may do must be noted, never folded.
- *Front ends.* Two translations of one statement must agree, and the key they
  give a table must stay the table Postgres means, through schemas and renames.
- *Order of files.* The comparison must be a total order and put versions in order.
- *Outputs.* Beyond the runner's cap nothing may vanish silently; three renderers
  must agree on what fails; a suggested statement must declare the same table.
- *wasm.* Every buffer is freed once, with the length it was made with.

PROJECT.json lists these hazards with their lines and the properties aimed at them.

## 2. Modules and how they correspond to the code

- `Collections`: the few `BTreeMap` and `Vec` operations the code uses (`Put`,
  `Remove`, `Retain`). Recursion is by recursive functions throughout, so that the
  modules can be proved about.
- `ColumnKinds`, `Catalog`: `ColumnKind`, the vendored type table, the lookup
  through session, user and vendored layers, every type definition. A type name is
  a string key; spelling aliases are resolved by the parsers before the catalog.
- `Folder`: the replay. A step is one `DdlOp` (`apply_one`), one skipped
  statement, or one call of the DO-block or marker scan. `line` is the origin of
  the current statement; `open` lets one ALTER TABLE carry a second sub-command
  with the same origin, which is what `mark_altered` looks at. Notes are
  `[at, kind, about]`; texts and display spellings are left out. `CreateTable` is
  split in the code's own early returns: `SkipTemporary`, `SkipCtas`,
  `KeepExisting`, `Establish`. `finish` needs no action: `order` and `tables` are
  what it reads, and the invariants are about them.
- `Analysis` extends `Folder`: a statement is one step, a DO block many (`scanning`
  holds Postgres's statements off): the body found, each fragment scanned anchor by
  anchor with the attempt count, the EXECUTE template under both substitutions, then
  each operation found dispatched. A fragment is what parsing it from each anchor
  gives, an input. `types` and `touched` are history: what Postgres may have made of
  the block. Postgres defines a domain over a type there is, and a drop may cascade to any
  other types.
- `Splitter`: texts over classes of characters, one longer at each step. The file's
  scanners walk the same constructs, so there is one walk, `Lex`, from which
  statements, comment markers and dollar bodies are read off; `Stranded` is the
  marker bookkeeping of `analyze_sources_with`. `PgLexer` (external) lexes the text as
  PostgreSQL's scanner does, that of version 17: a number that runs into a name is refused.
- `Identifiers`, `Backends`: both `map_statement`s as operators over one abstract
  statement, and each backend's `tracked` keys beside the tables Postgres has.
  `Sniff`: the words `sniff` walks over, against the key of the table that is named.
- `Postgres` (external) and `PgReplay`: what the database does with the same
  statements, as far as the sources say it, next to the Folder. Every joint step is
  a statement Postgres accepts; statements the parser skips and DO blocks have any
  effect in Postgres and only their note (and flag) in the Folder. A partition
  or a LIKE copy has the live columns of its source (`CopiedAttrs`); the replay
  copies the dropped slots as well. `departed` is history: the tables to which a statement
  gave columns or slots in Postgres that it does not give them in the replay (section 4).
- `Layout`: `walk` as a recursive function over positions; the sort as a
  rank; the memoized class search as the function it caches, a function of the columns left
  and then of the offset they start at.
- `TableReport`, `Report`: `build` as an operator; `Report` grows, shrinks and
  retypes a table, so every column sequence up to the bound is a state.
- `Baseline`: `evaluate`, `table_verdict`, `relation`, `build_from`,
  `accept_tables`, and the maintenance commands as actions between which the
  series changes. A signature is the sequence of kinds it spells. `accepted` is
  a history variable: what maintenance last recorded for each name.
- `BaselineFile`: `maintain_baseline` and the gate's load as steps of runs of the
  program (`exists`, `load`, `read`, `edit` or `gate`, `open`, `write`). The file is a
  sequence of pieces of text, an opening, entries with or without a comma, a closing and
  the newline after it; `read` and `write` take one at a time, wherever the file's end is
  by then, and `IsJson` and `Parsed` read whatever sequence results. Runs are killed and
  writes fail between two pieces or within one, which over an older text may leave any
  piece. An entry is only whether a table has one; what it says is `Baseline`'s.
- `VersionOrder`: `parse_version`, `compare`, `sort_key` over the
  characters of names. `CollectFiles`: `walk` and the sort over a tree of files,
  directories and links.
- `Suggestion`: displays from declaration and renames through both front ends to
  `render_suggestion`, read back as PostgreSQL reads names. `Renderings` extends
  `Baseline`: what each output says of a gate outcome.
- `WasmAbi`: the module's allocations beside the buffers a host (external) holds.
- `GatherFiles`, `ReadFiles`: the one-step promise of `read_files`, and the
  chunks, scoped threads and in-order joins that implement it.
- `Annotations`: `AnnotationBudget`, the order of tables and notes, the
  suppression notice, and the runner's cap (external).
- `MCFolder`, `MCPgReplay`, `MCAnalysis`, `MCBackends`, `MCReport`,
  `MCBaseline`, `MCRenderings`, `MCBaselineFile`: the small workloads TLC runs. `MCFront`
  puts the texts of the splitter beside the statements of `MCBackends`.
- `Inputs` and `Outputs` put small parts that share no state side by side, one of them at
  work in a behavior: two names, `CollectFiles` and `ReadFiles`; `Annotations`,
  `Suggestion` and `WasmAbi`. `MCInputs` and `MCOutputs` are their workloads.
- `CollectionsProofs` (sequences, maps, loops), `FolderProofs` (catalog and replay),
  `ClientProofs` (what uses the replay: `Analysis` and `PgReplay`), `LayoutProofs`,
  `ReportProofs`, `BaselineProofs` (gate and renderings), `FrontProofs` (front ends,
  sniff and splitter) and `EdgesProofs` (the baseline file, and the parts of `Inputs` and
  `Outputs`) hold the theorems. Each extends the modules it is about, so that what is proved is what TLC runs.

Operators commented `Fault:` are deliberate bugs: each is a plausible mistake in
the definition that follows it. No specification uses them; PROJECT.json pairs each with
the property that notices when it takes that definition's place.

## 3. What the runs check

`tlc -workers 2 -config <run>.cfg <module>` repeats a run. Runs that pass:

| Run | Distinct states | Question, and what the answer shows |
|---|---|---|
| `MCFolder` | 290,832 | All operations, three statements. Whatever the replay leaves out left a note: a guessed type is noted exactly once, whichever statement brought it in (`GuessesNotedOnce`); an incomplete table and a ghost have a note that says why (`IncompleteExplained`, `GhostsExplained`). `order` and `tables` agree (`OrderMatchesTables`) in creation order, and a table's history is in order and without repeats (`HistoryInOrder`); no step takes an attribute number back (`AttributesNeverReclaimed`) or clears an incomplete flag (`IncompleteSticks`). |
| `MCPgReplay` | 1,043,173 | The replay next to Postgres, four statements. A table reported as complete has Postgres's columns, in its order, with its dropped slots, unless it is one of the tables the replay gets wrong (`departed`; `NeverSilentlyWrong`). |
| `MCAnalysis` | 3,017,850 | Table and type DDL in DO blocks in every shape a fragment has. Whatever a scanned block may have changed is noted (`TouchedIsLoud`) and flagged (`TouchedIsFlagged`) unless the summary note is out, past the attempt cap and behind templates too; no type of a guarded block has a storage in the catalog other than Postgres's (`FoldedTypesLayoutSafe`); every step of the pipeline is a step of the replay or none (`ImplementsReplay`). |
| `MCFront` | 676,623 | Every text over five alphabets: statements end where Postgres ends them (`CutsWherePostgresDoes`); every marker in a comment is attached or reported, at its own line, once, and markers in strings are not (`MarkersAccounted`); a statement, and a DO body, lexed alone is what it was in its file (`StandsAlone`); later text moves no cut (`TerminatedIsFinal`). Every kind of statement but DROP DOMAIN: both front ends give the same operations (`BackendsAgree`), a key stands for the table Postgres means (`NamesTrack`), and the key sniffed from every heading before a name without a quoted schema is the parsers' (`SniffsTheTarget`). |
| `MCReport` | 9,330 | Every table of up to four columns of six storage classes. The suggestion is a reordering whose numbers are its own and which saves padding or is the table as it is (`SuggestionConsistent`); no order has a smaller row where all widths are known (`ExactIsOptimal`); dropped slots move no advice (`DropsDoNotMoveAdvice`). |
| `MCRenderings` | 64,800 | One table rewritten, appended to, accepted, tightened by hand. Bytes that pass were accepted for that layout or its prefix (`DebtWasAccepted`); an append that costs nothing keeps the allowance (`AppendKeepsAllowance`); what the maintenance commands leave behind is green at the recorded limit (`MaintenanceSettles`). No output hides a failing table (`NoFailureHidden`); the FAIL line names the right reasons, "Gate: ok." stands for a clean gate, and the degradation reported is the analysis' (`FailureIsExplained`). |
| `MCBaselineFile` | 674,347 | Two runs of the program, killed anywhere, on a disk that fails anywhere. As long as no run opens the file while another writes it, nor to write it while another reads it, no gate and no edit works on a part of a baseline or on what an interrupted write left (`LoadedWasWritten`). At the file at once or not, every run ends (`RunsEnd`). One after the other: the file is what was last written unless a write was interrupted (`FileIsLastWritten`), and `--accept` changes what it names only (`AcceptTouchesNamedOnly`). |
| `MCInputs` | 558,450 | Every pair of names of up to four characters: the comparison is a total order and that of the sort keys (`CompareIsKeyOrder`), and numeric (`VersionsInOrder`). Every tree of four entries: each visible file once, links to directories not entered (`CollectedOnce`), in version order within a directory (`OrderedWithinDirectories`). Every number of files and processors, every set of unreadable files, every interleaving: the threads implement the one-step promise, an in-order answer or the first error, and always an answer (`ImplementsPromise`, the specification of `GatherFiles` with its fairness). |
| `MCOutputs` | 54,228 | Every mix of annotations beyond the caps: none is lost unless the suppression notice counts it and itself fits (`LossIsLoud`). Plain and quoted names, renamed and dropped: the suggested statement, read by Postgres, declares the same columns of the same table (`SuggestionIsTheTable`). Several wasm requests alive, freed in any order: every buffer arrives intact and is given back as it was made, and what the module has allocated is what the host holds (`BuffersAccounted`). |

`TypeOK` is the replay's type invariant. The three runs that expect a violation are in
section 4.

### Bounds

- Two tables, two columns: enough for rename onto, copy from, drop and re-add,
  and for an ALTER to meet a table, a ghost, or nothing. Statement bounds (three
  for the replay and the pipeline, four next to Postgres) cover create, change, and one or
  two statements that depend on both.
- Three type names: one vendored, one the series defines, one nobody defines.
- `MCPgReplay`: the constraint `Attributed` stops at a statement that could not
  be attributed to any table. From there on `NeverSilentlyWrong` claims nothing, and
  as notes are never taken back it would claim nothing ever after.
- `MCReport`: four columns reach the refinement (from three fixed columns),
  two irregular widths in one block, and short varlenas between. The six classes have
  every alignment but two bytes, both varlena forms, and timetz and macaddr. Eight slots dropped
  before reach the second byte of the null bitmap. The refinement's upper limits (24
  columns, 12 classes) are in the model and out of TLC's reach.
- `MCBaseline`, which `MCRenderings` renders: one table with layouts of up to five
  columns and 0 to 16 avoidable bytes, one a textual but not a column prefix of
  another; two limits, two hand-tightened allowances.
- `Annotations`: twelve annotations of each severity, over the cap of ten.
- `MCAnalysis`: two statements around a block or two blocks in a row; bodies of up to
  three fragments with up to three anchors, the attempt cap at two (32 in the code),
  so that fragments end below, at and past it.
- `MCFront`, texts: each alphabet has the characters whose interplay one question is about.
  Seven characters hold two quotes with an escape between and an identifier or an `e`
  in front; nine hold two nested comments; six a statement, a marker and what
  surrounds it. All alphabets at once are out of reach.
- Names: four characters make two numbers with a separator, leading zeros, and
  an upper-case V; the width of a number is a constant (`MaxSegment`), so that numbers
  that do not fit are three digits long. `CollectFiles`: three levels, names
  whose text order is not their version order, a hidden one and one that is not SQL.
- `MCFront`, statements: every kind but DROP DOMAIN at least once per spelling of a name (bare,
  quoted, in a schema, in a catalog's); two tables show every confusion of keys.
- `MCBaselineFile`: two runs, every command; two runs are enough for one to come between
  any two steps of another. Three tables, of which an analysis finds two over the limit:
  the first pieces of the one text and the last of the other make a baseline nobody
  wrote. Pieces have one length, so that they line up, which is the worst case.
- `Suggestion`: three columns, names with capitals, digits and quotes in
  every position that `maybe_quote` tells apart.
- `WasmAbi`: machine words of four bits (`WordSize` is 16), four buffers held at a time, blocks of none to three
  bytes in eight.
- `ReadFiles`: up to six files and five processors: one, two, three and four
  workers, short last chunks, fewer chunks than workers.

`CHECK_DEADLOCK FALSE` is stated where the system really ends: a series, a text or
a tree at its bound, the annotations of a report, `read_files`.

### Workload switches

Constants that admit inputs on which the code departs from its documents. They are off
in the runs, whose properties need sound inputs; set, TLC finds the departure.

- `RenameClash`: Postgres rejects a column rename onto an existing column; the
  replay performs it. Such a series is only possible after the model has already
  diverged, through an unattributed statement. With it on, DROP COLUMN of the
  doubled name also removes two columns for one slot.
- `GuardedRedefinition`: a DO block holds type DDL that Postgres skips because
  the name is taken by another definition.
- `RenameQualified`: RENAME TO of a table in a schema.
- `OnlyAfterIf`, `Comments`, `LongHeadings`: headings `sniff` does not expect.
- `Bodies` of `Analysis`: `MCAnalysis` also defines `ConcatenatedBodies` and
  `NumberedBodies`, templates the scan reads wrongly.
- `Faults` (`BaselineFile`): runs are killed and writes fail. It is on.

`PgReplay` needs no switch: every series Postgres accepts is in the run, and `departed`
names the tables `NeverSilentlyWrong` says nothing of. It holds no more than it must: with
any one of its clauses left out, TLC finds a table that is complete and wrong after two or
three statements.

`BaselineFile` neither: `collided` says that a run opened the file while another was
writing it, or to write it while another was reading it.

### Fairness

`ReadFiles`: weak fairness of the main thread and of each reader. The readers are OS
threads that share nothing and never wait; the main thread only waits in `join`.
Every thread that can run eventually runs. `BaselineFile`: weak fairness of each run,
a process of its own that waits for nothing; nothing is assumed of kills, failures, or
of runs being started. Without fairness the system may stop anywhere, and no liveness
would be claimed.

## 4. Where the code departs from its documents

The runs that expect a violation:

- `MCBackends_rename`: RENAME TO takes no schema and leaves a table in its own; both
  front ends key the renamed table by the bare new name (`core/extract.rs:329`), so
  later statements about `a.u` meet no table.
- `MCBackends_domain`: pg_query's front end maps DROP DOMAIN to `DropTypes`
  (`core/extract_pgq.rs:284`), sqlparser's knows tables and types only
  (`core/extract.rs:208`) and passes it over, although `DropTypes` is documented for both
  (`core/extract.rs:158`): the definition stays in that catalog.
- `MCBaseline_IncompleteKeepsEntry`: maintenance reads an incomplete table's
  avoidable bytes, 0 by convention, as a table that meets the limit, and drops
  its entry (`core/baseline.rs:282`).

Departures the model has, with what keeps them out of the property they would break, a
history variable or a constant (section 3, switches):

- A partition is a copy of its parent at creation; later ALTERs of the parent do not
  reach it (`core/fold.rs:375`; `departed`, `NeverSilentlyWrong`).
- CREATE TABLE IF NOT EXISTS consults modeled tables only, not ghosts
  (`core/fold.rs:349`): a table Postgres keeps is modeled, as complete, from a statement
  that did nothing (`departed`, `NeverSilentlyWrong`).
- A partition or a LIKE copy takes the dropped slots of its source along
  (`core/fold.rs:398`); Postgres copies live columns (`departed`,
  `NeverSilentlyWrong`).
- Runs at the baseline file at once: it is rewritten in place without a lock
  (`cli/lib.rs:193`), so that the beginning of one text and the end of another may be
  read as a baseline nobody wrote (`collided`, `LoadedWasWritten`).
- `rename_column` lets two columns have one name, without a note (`core/fold.rs:507`;
  `RenameClash`).
- Type DDL of a DO block is folded even where its guard kept Postgres from running it
  (`core/lib.rs:408`; `GuardedRedefinition`, `FoldedTypesLayoutSafe`).
- EXECUTE of a literal and something appended is taken for the literal alone, if that
  parses (`core/lib.rs:279`; `ConcatenatedBodies`, `TouchedIsLoud`).
- A table name completed by the number substituted for a placeholder is not recognized
  as dynamic (`core/lib.rs:252`; `NumberedBodies`, `TouchedIsFlagged`).
- `sniff` takes ONLY after IF EXISTS for a table's name (`core/extract.rs:621`,
  `OnlyAfterIf`), a word of a comment too (`:673`, `Comments`), and looks at eight tokens
  (`:612`, `LongHeadings`): `SniffsTheTarget`.

Noted while modelling, outside the inputs of the runs: a dollar sign inside an identifier
opens a dollar quote for the splitter (`core/split.rs:170`; `CutsWherePostgresDoes`
excepts such texts); a statement after whitespace only `trim` knows keeps a line that is
too early, and its marker is reported as attached to nothing (`core/split.rs:195`); a
number over `u64::MAX` makes a name unversioned, after all versions (`core/version.rs:42`;
`VersionsInOrder` says so); the front ends differ in ALTER TYPE RENAME of a type in a
schema (`core/extract_pgq.rs:262`) and in the length of a type named with its schema
(`core/extract.rs:521`); a table in a quoted schema is sniffed as the schema
(`core/extract.rs:629`); `sniff` compares words without their quotes, so that a table called
"only" or "if" is not recognized (`core/extract.rs:617`), and ends a name at a doubled
quote or a letter beyond ASCII (`:677`); of two `--accept` runs at once one may be lost (`cli/lib.rs:172`;
`AcceptTouchesNamedOnly` claims nothing once runs have overlapped); `--update-baseline`
fails on the torn file it was asked to replace (`cli/lib.rs:153`); a note of over 4,000
bytes is cut without a sign in its annotation (`cli/render.rs:350`; `LossIsLoud` counts
annotations and does not look into them); a suggested statement
declares another column for a name in mixed case (`cli/render.rs:229`), another table for a
quoted one read by libpg_query (`:223`), and does not parse for a keyword (`:236`);
following a ratchet line can loosen the gate (`core/baseline.rs:326`); the documented way
to unpack a reply's address gives a negative number for the upper half of memory
(`crates/rowdiet-wasm/src/lib.rs:149`); CREATE TABLE IF NOT EXISTS AS of a
modeled table leaves a CTAS note and a ghost beside the table (`core/fold.rs:340`,
against `docs/design.md:122`); the refinement leaves blocks of two irregular columns
alone (`core/layout.rs:197`, `docs/design.md:78`); at the exact tier the rounding of
rows can make an append without avoidable padding fail as grown (`docs/design.md:161`);
`--accept` prunes by the file's limit while a stricter `--fail-over` on the command line
still fails the table (`cli/render.rs:183`); `--accept` leaves other tables' expired
entries in the file (`core/baseline.rs:146`); `--accept Users` may mean an earlier
table spelled Users rather than the one whose key it is (`core/baseline.rs:313`);
an E string continued after a newline loses its escapes for the splitter
(`core/split.rs:86`); renames and drops of types in guarded blocks are folded like
definitions and go wrong when the guard fails (`core/lib.rs:399`); a link to a directory
whose name ends in `.sql` is collected as a file (`core/fs.rs:44`); a table `"a.t"` has
the key of `a.t` (`core/extract.rs:437`); the wasm contract asks for a fresh view of the
memory after `rowdiet_lint` only, though `rowdiet_alloc` may grow it too
(`crates/rowdiet-wasm/src/lib.rs:16`).

## 5. What is proved

All theorems hold for any tables, columns, type names and inputs and for series of any
length. They rest on named assumptions on the constants, which TLC evaluates on the
runs of the modules that state them. Replay: `WorkloadAssumption` (the inputs are
statements of the right shape; no table or type is called like the placeholder
`NoName`) and `AssumeAssumption` (the user's `--assume` layer maps type names to storage
classes). Pipeline: these and `AnalysisAssumption` (bodies are sequences of fragments,
the attempt cap is positive, no table is called like the dynamic-name token). Next to
Postgres: no more than for the replay. Report: `ReportAssumption` (storage
classes and natural bounds). Gate: `BaselineAssumption` (storage classes, natural limits, a
spelling for each table, and no baseline is the value that stands for none). Baseline
file: `BaselineFileAssumption` (each set of tables has its order, the commands are those
of the CLI, no text and no baseline is the value that stands for none). Front ends: `Plain` says of
a statement that it avoids the three differences between the parsers that section 4 names
(DROP DOMAIN, ALTER TYPE RENAME of a type in a schema, the length of a type named with its
schema) and has the shape a parser gives it; `QualifiedConsistently` is what the program asks of a
series ("qualify consistently", `core/extract.rs:424`), that two spellings have one key
exactly if they mean one table, so that a series which writes both `t` and `public.t` is
outside it. `Sniffable` is what `sniff` asks of a name besides: one or two parts, no schema in
quotes, no dot within a part, and no table called like the words it skips. `MCBackends`
states these about its statements and names, for TLC to evaluate. `Told` adds of the one
heading the theorem speaks of: no comment, not both IF EXISTS and ONLY, no more than eight
tokens. Names of files: `NamesSpelled` and `FileNamesSpelled` (in characters whose order is known),
`LimitKnown` (`VersionsInOrder` compares with numbers of any size, among which is the largest
that fits), and that the bound on a tree's depth is a number, whichever.
Wasm: `Addressable`, that the memory is at most half of what a word addresses, where signed
and unsigned addresses are the same, and that no reply is empty, as no JSON is. The suggested
statement: `Suggestible`, that columns are no keywords and, for sqlparser, not in mixed case, and
that tables are written without quotes or, for libpg_query, could be; section 4 names what
the code does outside it. `MCInputs` and `MCOutputs` have TLC evaluate them.

| Theorem | Module | Says |
|---|---|---|
| `OrderAlwaysMatches` | `FolderProofs` | `Spec => []OrderMatchesTables` |
| `TypesAlwaysHold` | `FolderProofs` | `Spec => []TypeOK` |
| `ResolveTyped` | `FolderProofs` | every type reference resolves to a storage class, whatever the session layer |
| `IncompleteAlwaysExplained` | `FolderProofs` | `Spec => []IncompleteExplained` |
| `GhostsAlwaysExplained` | `FolderProofs` | `Spec => []GhostsExplained` |
| `GuessesAlwaysNotedOnce` | `FolderProofs` | `Spec => []GuessesNotedOnce` |
| `HistoryAlwaysInOrder` | `FolderProofs` | `Spec => []HistoryInOrder` |
| `IncompleteAlwaysSticks` | `FolderProofs` | `Spec => IncompleteSticks` |
| `AttributesNeverTakenBack` | `FolderProofs` | `Spec => AttributesNeverReclaimed`, if no rename makes two columns of one name |
| `CompleteIsRight` | `ClientProofs` | `PgSpec => []NeverSilentlyWrong`, which speaks of all tables but the `departed` ones |
| `AnalysisIsReplay` | `ClientProofs` | `AnalysisSpec => Spec`: the pipeline implements the replay |
| `AnalysisIsLoud` | `ClientProofs` | so what is proved of the replay's tables, order, notes and flags holds of every analysis |
| `TouchedAlwaysLoud` | `ClientProofs` | `AnalysisSpec => []TouchedIsLoud`, if fragments affect only what they say |
| `TouchedAlwaysFlagged` | `ClientProofs` | `AnalysisSpec => []TouchedIsFlagged`, under the same hypothesis |
| `FoldedTypesAlwaysSafe` | `ClientProofs` | `AnalysisSpec => []FoldedTypesLayoutSafe`, if guards that fail repeat the type there is and blocks drop or rename no type; or rename none, and no name the series defines means another type |
| `SearchIsLowerBound` | `LayoutProofs` | no order of any number of fixed-width columns pads less than the search says |
| `SuggestionIsOrder` | `LayoutProofs` | the suggested order names each column once |
| `SuggestionPadsLeast` | `LayoutProofs` | within the refinement's limits no order of fixed-width columns pads less than the suggested one |
| `SuggestionAlwaysConsistent` | `ReportProofs` | `Spec => []SuggestionConsistent` |
| `AdviceIgnoresDrops` | `ReportProofs` | `Spec => []DropsDoNotMoveAdvice` |
| `ExactAlwaysOptimal` | `ReportProofs` | `Spec => []ExactIsOptimal` |
| `DebtAlwaysAccepted` | `BaselineProofs` | `Spec => []DebtWasAccepted` |
| `MaintenanceAlwaysSettles` | `BaselineProofs` | `Spec => MaintenanceSettles` |
| `AppendAlwaysKeepsAllowance` | `BaselineProofs` | `Spec => AppendKeepsAllowance` |
| `NoFailureEverHidden` | `BaselineProofs` | `Spec => []NoFailureHidden` |
| `FailureAlwaysExplained` | `BaselineProofs` | `Spec => []FailureIsExplained` |
| `LoadedAlwaysWritten` | `EdgesProofs` | `Spec => []LoadedWasWritten`, for any number of overlapping runs and faults, as long as no two are at the file at once |
| `FileAlwaysLastWritten` | `EdgesProofs` | `Spec => []FileIsLastWritten`, of runs that follow each other |
| `AcceptAlwaysTouchesNamedOnly` | `EdgesProofs` | `Spec => AcceptTouchesNamedOnly`, of runs that follow each other |
| `ReadersKeepPromise` | `EdgesProofs` | `Spec => PromiseSafety`: the readers implement what `GatherFiles` promises, all but that the answer comes |
| `LossAlwaysLoud` | `EdgesProofs` | `OutputsSpec => []LossIsLoud`, for any numbers of tables and notes |
| `BackendsAlwaysAgree` | `FrontProofs` | `Spec => [](Plain(statement) => BackendsAgree)` of `Backends` |
| `NamesAlwaysTrack` | `FrontProofs` | `Spec => []NamesTrack` of `Backends`, if the statements are `Plain`, names are qualified consistently, and no table in a schema is renamed |
| `SniffAlwaysNames` | `FrontProofs` | `Spec => [](statement.kind = "unreadable" /\ Told(statement.heading) => SniffsTheTarget)` of `Backends` |
| `BuffersAlwaysAccounted` | `EdgesProofs` | `OutputsSpec => []BuffersAccounted`, in any `Addressable` memory |
| `SuggestionAlwaysTheTable` | `EdgesProofs` | `OutputsSpec => []SuggestionIsTheTable`, for names of any length, if they are `Suggestible` |
| `CompareAlwaysByKey` | `EdgesProofs` | `InputsSpec => []CompareIsKeyOrder`, for names of any length |
| `VersionsAlwaysInOrder` | `EdgesProofs` | `InputsSpec => []VersionsInOrder`, for any limit of a number |
| `FilesAlwaysCollectedOnce` | `EdgesProofs` | `InputsSpec => []CollectedOnce`, for trees of any depth and size, whatever links they hold |
| `FilesAlwaysOrdered` | `EdgesProofs` | `InputsSpec => []OrderedWithinDirectories`, of the same trees, for names of any length |
| `TerminatedAlwaysFinal` | `FrontProofs` | `TextSpec => TerminatedIsFinal`, for texts of any length |
| `StatementsAlwaysStandAlone` | `FrontProofs` | `TextSpec => []StandsAlone`, for texts of any length, if whitespace is what the splitter knows (`KnownWhitespace`) |
| `MarkersAlwaysAccounted` | `FrontProofs` | `TextSpec => []MarkersAccounted`, of the same texts |
| `CutsAlwaysWherePostgresDoes` | `FrontProofs` | `TextSpec => [](EscapesOnOneLine(text) => CutsWherePostgresDoes)`, for texts of any length |

What the proofs add to the runs: `MCRenderings` has one table, the theorems about the gate
any number of them, with entries of tables that are gone and names that are spellings of
others. `MCReport` has four columns, the theorems any number, and the refinement's limits of
24 columns and 12 classes, which no run can reach.

How the arguments go.

- *Order.* `OrderMatchesTables` alone says nothing about what `order` is, so
  `OrderInv` adds that it is a sequence of tables. A redefinition removes the name
  and appends it, a rename removes a replaced name and then substitutes: each case is
  `RetainFacts` and one fact about `Append` or substitution. That the list has no
  repetition is what makes the substitution put the new name in one place only.
- *Types.* `TypeOK` splits into where the series stands (`PositionOK`), what it built
  (`StateOK`) and `order`, which `OrderInv` already covers. The catalog's part is
  `ResolveTyped` with one lemma per type definition. `StateOK` needs `PositionOK`
  because notes record the position of their statement. The hardest leaf is the loop
  over the columns of a CREATE TABLE, a recursive function over records.
- *Notes.* Neither property is inductive over one table: a partition copies its
  source's flag. `Explained` states both for all tables, and `Traced` says of a step that
  it keeps every note and that a new flag has a note or an incomplete table before
  it, a new ghost a note of its own. Every action is `Traced`, and a `Traced` step
  preserves `Explained`.
- *Guesses.* `GuessInv`: the names noted are the subjects of the notes about unknown types,
  each noted once, and every column whose kind is a guess has its type among them. Columns
  come in by CREATE, ADD, SET DATA TYPE and by copies, so the loop over the columns
  carries the names noted so far through its steps.
- *History.* `HistoryInv`: along `order` the creating statements increase, and a table's later
  statements follow its own. Hence origins are unique, a table is identified by its
  creating statement, and `Succession` says of a step which table of before each table of after
  continues (`Follows`): `IncompleteSticks` and `AttributesNeverReclaimed` are then facts
  about one table and one step. The latter needs `DistinctInv`, no two columns of one name:
  a DROP COLUMN counts one slot.
- *Replay and Postgres.* `Sound` adds to the property that the replay is well typed and
  that no relation has two live columns of one name, which is what lets DROP COLUMN and
  RENAME hit the same column on both sides. A statement keeps it table by table: either both
  sides do the same to the columns, or the table has departed (and what it is copied to
  departs with it, under whatever name it is renamed to), or the replay's table is flagged,
  or a note that names no table takes the claim back for good.
- *Search.* Padding depends on the offset modulo `MAXALIGN` only, so the search's offsets lose
  nothing. For the lower bound, induction over the columns placed: what an order has padded
  so far plus what the search says of the rest never decreases below the search of the whole.
  The rebuilt order takes at each position a class on which the search attains its minimum,
  so its padding is the search's, and the walk of the other columns begins where it ends.
- *Report.* Dropped columns reach the header only, which rounds up to `MAXALIGN`: every offset
  moves by the same multiple of it. The optimum of the row is the optimum of the padding,
  because sizes are the same and rounding up is monotone.
- *Gate.* `GateInv`: rows are reports of tables with their own names; the file is a baseline;
  and every entry's bytes are at most those accepted for its name, for that layout. The last
  part is what hand edits (they only tighten), pruning and merging keep. A report's signature
  determines its avoidable bytes, so an entry in force speaks of the table it was made for.
  `--accept` takes the first table whose spelling or key matches: `MaintenanceSettles` says
  accepted tables pass when their key spells no other table (`SpellsNoOther`), because
  otherwise the name may have meant that one (section 4).
- *Analysis.* A dispatched operation must be about tables of the series for its step to be
  a step of the Folder: `ScanOK` says so of everything a scan holds back. What the block
  touched is promised in several places while it is scanned: in a note already
  made, in an operation not yet dispatched, in fragments not yet scanned, or in the
  count that forces the summary note. `SaidInv` says that every touched table is in one
  of them, and each step of the scan moves it from one to the next. The hypothesis
  that fragments are truthful is what `ConcatenatedBodies` violate. `FlagInv` carries the
  same argument to the flag: the note that names a table flags the table that has the name
  then, and the flag follows it (`HistoryInv`).
- *Types of blocks.* The catalog may hold types Postgres does not have, because a block
  did not run. `Agree` says it never holds others than Postgres has: a name Postgres
  defines is known with that storage, or not known. Keeping it needs the guards (what
  fails repeats the type there is) and that the base of a domain is a type there is, as
  Postgres requires, so that both sides resolve it alike. A drop in a block that did not run
  uncovers what the name means otherwise, a layer below: hence `BlocksOnlyDefine` or
  `OwnNames`. A rename in such a block moves the type away under the old name's users, and
  neither admits it (section 4).
- *Readers.* `ReadersInv`: every list of results, a reader's and the joined ones, is what
  the files from its first on give, and the joined ones are as long as the chunks joined, or all
  files. The chunks cover the files, none is empty, and there are at most as many as
  workers, so that after the last join there is a result for each file; the first error
  among them is the least file that cannot be read.
- *Annotations.* Every level is within its own cap, and what is written and what is counted as
  dropped make up what was asked for; with nothing dropped, the levels are therefore equal
  one by one. The caps leave room for the notice below the runner's own.
- *Front ends.* Types agree case by case, so the columns of a CREATE TABLE and the
  sub-commands of an ALTER, loops over sequences, give the same operations. For keys, the
  claim about one name is not inductive: a rename carries a table to a name nothing was said
  about. `Tracks` states it for every name of the series (`SeriesNames`), those
  renamed to included.
- *Sniff.* The tokens of a heading are a concatenation: the words before the name, the
  name's own tokens, and what follows (`HeadingTokens`). All that `sniff` looks at are among its
  eight tokens (`AllLookedAt`); what it steps over is what stands before the name, heading by
  heading, and the token it then takes, up to where a name ends, is lowered to the key the
  parsers give (`NameKey`).
- *Splitter.* Every definition about a text works from its end: what a place leads to is made
  from what later places lead to (`BackwardExists`, `BackwardInduction`). A comment, a string or
  a body that ends before the text does ends there in a longer one (`BlockStable`,
  `QuotedStable`, `DollarFacts`); a dollar tag does only if something ends its letters, which
  the next semicolon does (`TagEndStable`). So from every place on, the constructs of both texts
  are the same as far as the shorter's last semicolon (`RestAlike`), and after it the shorter
  text ends no statement.
- *Statements alone.* A pushed statement is a stretch of its text's constructs, from content
  to a semicolon or the end (`SplitPlaces`), and, trimmed, a window of the text
  (`StatementWindow`). Seen through the window each construct is the text's, clipped where the
  window ends (`WindowConstruct`): what follows the window is whitespace or a semicolon, which
  ends no construct early and completes none (`Frame`), and the e of an E string is never before
  the window, because what precedes a statement ends in no identifier (`BeforeContent`). So
  the statement's constructs mirror the stretch (`MirrorsLex`), and no semicolon is among them.
- *Markers.* A marker in a comment of a statement is one of the text, shifted by where
  the window starts, and so is its line (`MarkerShift`, `LineShift`). Stretches do not overlap
  (`StretchesApart`), so that by induction over the statements the attached lines count distinct
  markers of the text (`AttachedWithin`); the rest is what is reported.
- *Buffers.* `BoundaryInv`: no fault so far, each buffer held is a block the module has
  allocated, with its length and contents, no block is held twice, and none is held by
  nobody. What crosses the boundary is a word read as signed and back (`PointersCross`), or a
  packed result taken apart again.
- *Suggestion.* What is displayed reads back as the key, and keys are distinct
  (`SuggestionInv`): then every line of every order declares its column. For names in quotes this is
  `QuotedReadBack`: doubling puts each character at a known end (`Ends`), its second
  quote right before it, and what the reader skips are exactly the quotes that follow one.
- *Names.* Only equal sequences are in no order (`LexEqual`), so ranks decide first, versions next
  and bytes last, in the key as in the comparison. A version is read under a
  limit by a recursion towards the end of the name: a step looks at later segments only,
  so the function exists (`SegmentsExist`), and by the same induction the version read under
  the lower limit is the one read under the higher or none (`VersionsAlike`).
- *Files.* Every entry's directories are in the tree, down to the root (`TreeInv`). A directory
  holds, each once, what its entries contribute (`BeneathEntry`, `PieceBeneath`), and no two
  contribute the same file, because a path tells the entry it goes through. So a walk with
  one step of fuel for each name a path may still have finds what is beneath its directory, by
  induction over the fuel (`WalkCollects`); that the walk ends there, links or not, is part of it.
  The order of the files is put together from those of their parts: by one key and
  then another (`ThenOrders`), by a key's image (`ImageOrders`), name by name
  (`LexByOrders`). Inserting one element keeps a sequence ordered, with the elements it had
  (`SortedFacts`); and what is ordered by its directory first stands together
  (`ThenedTogether`). Equal in the order are equal paths only, so the sort has no choice.
- *Cuts.* Where Postgres' walk through a comment, a string or a dollar quote ends at all, the
  splitter's has cut at nothing before that place: `CommentsAgree`, `StringWalk` and
  `PgDollarFacts`, by induction towards the end of the text, a string that is taken up again
  being several constructs for the splitter. A name, or whitespace between two parts of a
  string, is many constructs of one character (`QuietRun`). The splitter finds the `e` of an
  E string by looking back, Postgres by coming to it: they agree at a `Boundary`, and every
  token ends at one (`TokenCrossed`). So from each boundary on both see the same semicolons
  (`CutsAgree`).
- *Baseline file.* `SafeInv` says, until runs have collided: while one writes, no other is at
  the file (`Undisturbed`), so the file is the beginning of its text (`InHand`); a reader has
  read the beginning of the file (`ReadSoFar`); and a file nobody writes is JSON only as the
  text of a baseline in the history (`Kept`). The last part rests on the form of the text:
  a part of it without the closing is not JSON, and one without the newline alone says
  the same (`CutShortJson`). For the other two, `SerialInv` says that, until runs have
  overlapped, at most one run is at work, and what the file is relative to what that run has
  loaded; runs that do not overlap do not collide (`NoCollision`).
- *Loops.* The library's induction theorems have operator parameters, which the
  installed provers cannot instantiate. `NatSetInduction` states induction over a set of
  numbers instead, from well-founded minimality; `LoopExists` derives from it that a loop
  with a typed step function has its recursive function, and the loops of `Retain`,
  `DeclareColumns` and the search for the first column of a name use them.

`KnownWhitespace` excludes the vertical tab, which `str::trim` strips and the splitter takes
for content: a statement after one keeps a line that is too early (section 4).

`EscapesOnOneLine` says of a text that, if it has a backslash, no quote is followed by
whitespace with a newline and another quote. It is about the text, not the constants:
without it the claim is false, and the shortest text TLC finds has nine characters, an empty
E string, a newline and a string that begins with an escaped quote (section 4). No alphabet of
`MCFront` has both a backslash and a newline.

Model-checked only: liveness, that the answer of `ImplementsPromise` comes, and `RunsEnd`.

## 6. What is not modelled, and why

- The parsers themselves (sqlparser, libpg_query), and in the front ends the table of
  built-in type aliases, `preprocess` (it strips UNLOGGED) and typed tables:
  spelling, one-to-one.
- JSON in and out, labels, numbers and escaping in the renderers: formatting. The length of a
  message, and that a long one is cut, goes with it.
- Temporary tables next to Postgres: `MCFolder` has them, `PgReplay` does not, where a
  temporary table would hide a table of the series from later statements.
- `build_config`, `gather_sources`, `append_step_summary`, `parse_assume_spec`:
  straight-line code between the argument parser and modelled parts.
- Directories that change during the walk, and entries that cannot be read: the walk
  stops at the first error.
- The growth of the wasm memory: the host is assumed to view it anew each time.
- Types next to Postgres: `PgReplay` compares columns and slots; what types resolve to is
  compared in `Analysis` only.

## 7. Plan

Done, in this order: `Collections`, `ColumnKinds`, `Catalog`, `Folder` (the core);
`Postgres` and `PgReplay` on top of it; `Layout`, `TableReport`, `Report`;
`Baseline` on top of `TableReport`; `ReadFiles` against `GatherFiles`; `Annotations`;
the first proof modules.

`Analysis` on top of `Folder`; `Splitter` and `PgLexer`; `BaselineFile`; `VersionOrder` and
`CollectFiles`; `Identifiers`, `Backends`, `Sniff`; `Renderings` on top of `Baseline`,
`Suggestion`, `WasmAbi`; the proofs about `Analysis` and `BaselineFile`.

Then the rest of the replay's properties, `PgReplay`, types in blocks, the search and the
report, the gate and its renderings, the readers, the annotations and the front ends, each
proved.

Then the sniffed names, the wasm buffers, the order of file names, the suggested
statement and the files of a tree, proved.

Then, proved, what the splitter makes of a text: later text, statements on their own, markers,
and where Postgres ends statements.

Next, models: typed tables in the front ends; a walk over a directory that changes.
