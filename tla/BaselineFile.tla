---------------------------- MODULE BaselineFile ----------------------------
(***************************************************************************)
(* The baseline file under several runs of the program (the CLI's lib.rs): *)
(* each run analyzes its own sources, loads the file, and gates by it or   *)
(* edits and rewrites it in place, step by step.  Runs may overlap, be     *)
(* killed, and meet a disk that fails them.                                *)
(*                                                                         *)
(* What an entry says is Baseline's; a baseline is here the set of tables  *)
(* that have one.  A file is a sequence of pieces of text, read and        *)
(* written one at a time; pieces are as if they were all of one length, so *)
(* that those of two texts can line up.                                    *)
(***************************************************************************)
EXTENDS Naturals, Sequences, FiniteSets

CONSTANTS
    Run,        \* the runs of the program
    Table,      \* the tables of the sources
    TableOrder,   \* the tables of each baseline in the order of a BTreeMap's keys
    Findings,   \* the sets of tables over the limit an analysis may find
    Commands,   \* what a run may be asked to do
    Faults,     \* whether runs are killed and writes fail
    NoFile,     \* there is no file
    NoBaseline  \* nothing is loaded

\* Exit code 0, 1 and 2, and none at all.
Outcome == {"none", "success", "gate failed", "error", "killed"}

\* A name outside Table is an unknown table.
Command ==
    [kind : {"gate"}]
    \cup [kind : {"update"}, fail_over_given : BOOLEAN]
    \cup [kind : {"accept"}, names : Seq(Table \cup {"unknown"})]

\* The text up to the tables, an entry, what closes the text, the newline after it, bytes
\* never written, and a piece cut short.
Opening == [kind |-> "opening"]
Entry(table, comma) == [kind |-> "entry", table |-> table, comma |-> comma]
Closing == [kind |-> "closing"]
LineEnd == [kind |-> "line end"]
Zeros == [kind |-> "zeros"]
Broken == [kind |-> "broken"]

Piece ==
    {Opening, Closing, LineEnd, Zeros, Broken}
    \cup {Entry(table, comma) : table \in Table, comma \in BOOLEAN}

ASSUME BaselineFileAssumption ==
    /\ Findings \subseteq SUBSET Table
    /\ TableOrder \in [SUBSET Table -> Seq(Table)]
    /\ \A baseline \in SUBSET Table :
          baseline = {TableOrder[baseline][i] : i \in DOMAIN TableOrder[baseline]}
    /\ Commands \subseteq Command
    /\ Faults \in BOOLEAN
    /\ NoFile \notin Seq(Piece)
    /\ \A baseline \in SUBSET Table : baseline # NoBaseline

VARIABLES
    file,       \* the baseline file
    command,    \* what each run is asked to do
    pc,         \* where each run is
    found,      \* the tables over the limit each run's analysis found
    got,        \* what each run has read of the file
    loaded,     \* the baseline each run has loaded
    updated,    \* the baseline each run is about to write
    sent,       \* how many pieces of it are written
    exit,       \* how each run ended; "none" until it has
    written,    \* history: the baselines whose text was written, all of it but perhaps
                \* the newline after it, in order
    overlapped, \* history: whether a run ever started while another was going on
    collided    \* history: whether a run ever opened the file while another was writing
                \* it, or to write it while another was reading it

histories == <<written, overlapped, collided>>
vars == <<file, command, pc, found, got, loaded, updated, sent, exit, histories>>

-----------------------------------------------------------------------------
(* Texts. *)

\* serde_json::to_string_pretty, and the newline write_baseline adds.
Text(baseline) ==
    LET keys == TableOrder[baseline]
        n == Len(keys)
    IN  [i \in 1..(n + 3) |->
            CASE i = 1 -> Opening
              [] i \in 2..(n + 1) -> Entry(keys[i - 1], i # n + 1)
              [] i = n + 2 -> Closing
              [] i = n + 3 -> LineEnd]

\* serde_json::from_str: entries between a head and a tail, commas between them, and
\* whitespace after.
IsJson(text) ==
    \E end \in DOMAIN text :
        /\ text[1] = Opening /\ text[end] = Closing
        /\ \A i \in 2..(end - 1) : text[i].kind = "entry" /\ text[i].comma = (i # end - 1)
        /\ \A i \in DOMAIN text : i > end => text[i] = LineEnd

Parsed(text) == {text[i].table : i \in {j \in DOMAIN text : text[j].kind = "entry"}}

\* A text with a piece written over it, past its end if need be.
Overlay(text, at, piece) ==
    [i \in 1..(IF at > Len(text) THEN at ELSE Len(text)) |->
        IF i = at THEN piece ELSE IF i <= Len(text) THEN text[i] ELSE Zeros]

-----------------------------------------------------------------------------
(* The steps of one run. *)

Running(r) == pc[r] # "idle" /\ exit[r] = "none"

Goto(r, label) == pc' = [pc EXCEPT ![r] = label]

\* What the run has in memory is gone with it; `updated` still tells whether it wrote.
Exit(r, how) ==
    /\ exit' = [exit EXCEPT ![r] = how]
    /\ found' = [found EXCEPT ![r] = {}]
    /\ got' = [got EXCEPT ![r] = << >>]
    /\ loaded' = [loaded EXCEPT ![r] = NoBaseline]
    /\ sent' = [sent EXCEPT ![r] = 0]
    /\ Goto(r, "done")

\* run: the analysis, which reads none of the shared state.
Analyze(r) ==
    /\ pc[r] = "idle"
    /\ \E over \in Findings : found' = [found EXCEPT ![r] = over]
    /\ Goto(r, IF command[r].kind = "gate" THEN "load" ELSE "exists")
    /\ overlapped' = (overlapped \/ \E other \in Run : Running(other))
    /\ UNCHANGED <<file, command, got, loaded, updated, sent, exit, written, collided>>

\* path.exists(), before the file is opened.
CheckExists(r) ==
    /\ pc[r] = "exists"
    /\ Goto(r, IF file = NoFile THEN "edit" ELSE "load")
    /\ UNCHANGED <<file, command, found, got, loaded, updated, sent, exit, histories>>

Writing(r) == pc[r] = "write"

\* load_baseline opens the file; a missing one is a setup error ...
OpenToRead(r) ==
    /\ pc[r] = "load"
    /\ collided' = (collided \/ \E other \in Run : Writing(other))
    /\ IF file = NoFile THEN Exit(r, "error")
       ELSE Goto(r, "read") /\ UNCHANGED <<found, got, loaded, sent, exit>>
    /\ UNCHANGED <<file, command, updated, written, overlapped>>

AtEnd(r) == ~(Len(got[r]) < Len(file))

\* ... reads it to its end ...
ReadPiece(r) ==
    /\ pc[r] = "read" /\ ~AtEnd(r)
    /\ got' = [got EXCEPT ![r] = Append(@, file[Len(@) + 1])]
    /\ UNCHANGED <<file, command, pc, found, loaded, updated, sent, exit, histories>>

Loads(r, baseline) ==
    /\ loaded' = [loaded EXCEPT ![r] = baseline]
    /\ got' = [got EXCEPT ![r] = << >>]
    /\ Goto(r, IF command[r].kind = "gate" THEN "gate" ELSE "edit")
    /\ UNCHANGED <<found, sent, exit>>

\* Fault: what is not JSON is read again until it is.
LoadRetried(r) ==
    /\ pc[r] = "read" /\ AtEnd(r)
    /\ IF IsJson(got[r]) THEN Loads(r, Parsed(got[r]))
       ELSE /\ got' = [got EXCEPT ![r] = << >>]
            /\ UNCHANGED <<pc, found, loaded, sent, exit>>
    /\ UNCHANGED <<file, command, updated, histories>>

\* ... and parses what it has read; bad JSON is a setup error.
Load(r) ==
    /\ pc[r] = "read" /\ AtEnd(r)
    /\ IF IsJson(got[r]) THEN Loads(r, Parsed(got[r]))
       ELSE Exit(r, "error")
    /\ UNCHANGED <<file, command, updated, histories>>

\* baseline::evaluate, and the exit code.
Gate(r) ==
    /\ pc[r] = "gate"
    /\ Exit(r, IF found[r] \subseteq loaded[r] THEN "success" ELSE "gate failed")
    /\ UNCHANGED <<file, command, updated, histories>>

\* On to write_baseline.
Prepare(r, baseline) ==
    /\ updated' = [updated EXCEPT ![r] = baseline]
    /\ Goto(r, "open")
    /\ UNCHANGED <<file, command, found, got, loaded, sent, exit, histories>>

Reject(r) == Exit(r, "error") /\ UNCHANGED <<file, command, updated, histories>>

\* --update-baseline takes only the limit from the file there is.
Update(r) ==
    /\ pc[r] = "edit" /\ command[r].kind = "update"
    /\ IF command[r].fail_over_given \/ loaded[r] # NoBaseline
       THEN Prepare(r, found[r])
       ELSE Reject(r)

Named(r) == {command[r].names[i] : i \in DOMAIN command[r].names}

\* Fault: the baseline is built anew instead of edited.
AcceptedAnew(r) == Named(r) \cap found[r]

\* accept_tables, when every name is known.
Accepted(r) == (loaded[r] \ Named(r)) \cup (Named(r) \cap found[r])

\* --accept needs a file, and fails as a whole at the first unknown name.
Accept(r) ==
    /\ pc[r] = "edit" /\ command[r].kind = "accept"
    /\ IF loaded[r] # NoBaseline /\ Named(r) \subseteq Table
       THEN Prepare(r, Accepted(r))
       ELSE Reject(r)

Collides(r) == \E other \in Run \ {r} : pc[other] \in {"read", "write"}

\* Fault: the file is opened without being truncated.
OpenInPlace(r) ==
    /\ pc[r] = "open"
    /\ Goto(r, "write")
    /\ file' = IF file = NoFile THEN << >> ELSE file
    /\ collided' = (collided \/ Collides(r))
    /\ UNCHANGED <<command, found, got, loaded, updated, sent, exit, written, overlapped>>

\* std::fs::write creates or truncates the file ...
Open(r) ==
    /\ pc[r] = "open"
    /\ Goto(r, "write")
    /\ file' = << >>
    /\ collided' = (collided \/ Collides(r))
    /\ UNCHANGED <<command, found, got, loaded, updated, sent, exit, written, overlapped>>

Length(r) == Len(Text(updated[r]))

\* ... and writes the text, wherever the file's end is by then.
Write(r) ==
    /\ Writing(r)
    /\ LET next == sent[r] + 1
       IN  /\ file' = Overlay(file, next, Text(updated[r])[next])
           /\ IF next < Length(r)
              THEN /\ sent' = [sent EXCEPT ![r] = next]
                   /\ UNCHANGED <<pc, found, got, loaded, exit, written>>
              ELSE Exit(r, "success") /\ written' = Append(written, updated[r])
    /\ UNCHANGED <<command, updated, overlapped, collided>>

-----------------------------------------------------------------------------
(* Faults. *)

OpenFails(r) == Faults /\ pc[r] = "open" /\ Reject(r)

\* The next piece does not get into the file.
StopBetween(r) ==
    /\ UNCHANGED file
    /\ written' = IF sent[r] + 1 = Length(r) THEN Append(written, updated[r]) ELSE written

\* A part of it does, if it is not the newline: over an older piece it may look like any.
StopWithin(r) ==
    /\ sent[r] + 1 < Length(r)
    /\ \E piece \in IF sent[r] < Len(file) THEN Piece ELSE {Broken} :
          file' = Overlay(file, sent[r] + 1, piece)
    /\ UNCHANGED written

\* What the file and the history are when the run writes no more.
CutShort(r) == StopBetween(r) \/ StopWithin(r)

WriteFails(r) ==
    /\ Faults /\ Writing(r)
    /\ CutShort(r)
    /\ Exit(r, "error")
    /\ UNCHANGED <<command, updated, overlapped, collided>>

Kill(r) ==
    /\ Faults /\ Running(r)
    /\ IF Writing(r) THEN CutShort(r) ELSE UNCHANGED <<file, written>>
    /\ Exit(r, "killed")
    /\ UNCHANGED <<command, updated, overlapped, collided>>

-----------------------------------------------------------------------------

\* A checkout has no file yet, or one of an earlier run, which may have accepted nothing.
Init ==
    /\ command \in [Run -> Commands]
    /\ \/ file = NoFile /\ written = << >>
       \/ \E baseline \in Findings \cup {{}} : file = Text(baseline) /\ written = << baseline >>
    /\ pc = [r \in Run |-> "idle"]
    /\ found = [r \in Run |-> {}]
    /\ got = [r \in Run |-> << >>]
    /\ loaded = [r \in Run |-> NoBaseline]
    /\ updated = [r \in Run |-> NoBaseline]
    /\ sent = [r \in Run |-> 0]
    /\ exit = [r \in Run |-> "none"]
    /\ overlapped = FALSE /\ collided = FALSE

\* What the program does of itself.
Step(r) ==
    \/ CheckExists(r) \/ OpenToRead(r) \/ ReadPiece(r) \/ Load(r) \/ Gate(r)
    \/ Update(r) \/ Accept(r)
    \/ Open(r) \/ Write(r)

Fault(r) == OpenFails(r) \/ WriteFails(r) \/ Kill(r)

\* The runs there are have all ended.
Done == (\A r \in Run : exit[r] # "none") /\ UNCHANGED vars

Next == (\E r \in Run : Analyze(r) \/ Step(r) \/ Fault(r)) \/ Done

Spec == Init /\ [][Next]_vars

\* Each run is a process of its own, which the scheduler lets go on.
FairSpec == Spec /\ \A r \in Run : WF_vars(Step(r))

-----------------------------------------------------------------------------
(* Properties. *)

Baselines == SUBSET Table

Label == {"idle", "exists", "load", "read", "gate", "edit", "open", "write", "done"}

Last == written[Len(written)]

\* Wherever runs are killed or failed by the disk, and however they overlap but in the
\* use of the file: what a run gates by or edits is a baseline whose text was written to its
\* last brace, so no gate is green by a part of one ("2: setup errors (bad paths, bad
\* specs, bad baseline JSON)", lib.rs:81) or by what an interrupted write left of an older
\* one.  Of runs that use the file at once nothing is said: no lock keeps a mixture of two
\* texts from being JSON.
LoadedWasWritten ==
    ~collided =>
        \A r \in Run :
            loaded[r] # NoBaseline => \E i \in DOMAIN written : written[i] = loaded[r]

\* A run that has failed in the middle of its own write.
Interrupted(r) == exit[r] \in {"error", "killed"} /\ updated[r] # NoBaseline

\* When runs follow each other, the file between them is the baseline last written:
\* setup errors, gates and rejected names leave it as it was, and only an interrupted
\* write tears it.
FileIsLastWritten ==
    ~overlapped /\ (\A r \in Run : ~Running(r) /\ ~Interrupted(r)) =>
        file = IF written = << >> THEN NoFile ELSE Text(Last)

\* "Accept one table's current state into the baseline, leaving other entries
\* untouched" (lib.rs:49), when runs follow each other: a run of --accept that succeeds
\* changes the entries of the tables it names, all of them, and of no other table that
\* was in the file, whatever became of the runs before it.
AcceptTouchesNamedOnly ==
    [][\A r \in Run :
          /\ ~overlapped
          /\ exit[r] = "none" /\ exit'[r] = "success" /\ command[r].kind = "accept"
          => file' = Text((Last \ Named(r)) \cup (Named(r) \cap found[r]))]_vars

\* A run that has started ends, whatever other runs do to the file meanwhile.
RunsEnd == \A r \in Run : Running(r) ~> ~Running(r)
=============================================================================
