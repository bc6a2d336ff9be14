----------------------------- MODULE Renderings -----------------------------
(***************************************************************************)
(* What the three human-readable outputs (render.rs) say of a gate         *)
(* outcome: marks and verdict lines of the text, severities of the         *)
(* annotations, rows and the closing lines of the step summary.  A line is *)
(* what it reports, its wording left out.  `cli` is the --fail-over, and   *)
(* `strict` is --fail-on-degraded.                                         *)
(***************************************************************************)
EXTENDS Baseline

Verdicts(cli) == {TableVerdict(table, cli) : table \in GatedTables}

\* render_table: the mark of a table's block.
Mark(table) ==
    CASE table.ignored -> "ignored"
      [] ~table.ignored /\ table.incomplete -> "not analyzable"
      [] ~table.ignored /\ ~table.incomplete /\ table.avoidable = 0 -> "check mark"
      [] OTHER -> "block"

\* Fault: the severity is decided by the limit instead of the verdict.
AnnotationByLimit(table, cli) ==
    IF table.ignored \/ table.avoidable = 0 THEN "none"
    ELSE IF Exceeds(table.avoidable, DefaultLimit(cli)) THEN "error" ELSE "warning"

\* github: the severity of a table's annotation.
Annotation(table, cli) ==
    IF table.ignored \/ table.avoidable = 0 THEN "none"
    ELSE IF Failing(TableVerdict(table, cli)) THEN "error" ELSE "warning"

\* github_step_summary: a row's verdict, in bold or not.
SummaryRow(table, cli) ==
    [verdict |-> TableVerdict(table, cli), bold |-> Failing(TableVerdict(table, cli))]

\* Fault: appended columns are not counted.
CausesButGrown(cli) ==
    Verdicts(cli) \cap {"new_violation", "regression", "modified_since_baseline"}

\* The kinds of failing verdict render_gate_summary counts.
Causes(cli) ==
    Verdicts(cli) \cap {"new_violation", "regression", "grown_since_baseline", "modified_since_baseline"}

\* The FAIL line; empty when there is none.
FailLine(cli, strict) ==
    IF ~Evaluate(cli, strict).exceeded THEN {}
    ELSE IF Causes(cli) = {} THEN {"degraded analysis"} ELSE Causes(cli)

\* render_gate_summary.
GateSummary(cli, strict) ==
    LET gate == Evaluate(cli, strict)
    IN  [ degraded |-> gate.degraded, fail |-> FailLine(cli, strict),
          ratchets |-> "ratchet_opportunity" \in Verdicts(cli),
          orphaned |-> gate.orphaned, expired |-> gate.expired ]

\* "Gate: ok." stands for an empty gate summary.
GateOk(cli, strict) ==
    GateSummary(cli, strict) =
        [degraded |-> FALSE, fail |-> {}, ratchets |-> FALSE, orphaned |-> {}, expired |-> {}]

-----------------------------------------------------------------------------
(* Properties. *)

AnyLimit == Limits \cup {NoLimit}

\* Three renderers decide by different data (avoidable bytes, verdicts, flags) what to
\* leave out: none leaves out or plays down a table that fails the gate, and the
\* annotations are errors for those tables only, under an entry above or below the limit too.
NoFailureHidden ==
    \A cli \in AnyLimit : \A table \in Elements(tables) :
        LET fails == ~table.ignored /\ Failing(TableVerdict(table, cli))
        IN  /\ fails <=> Annotation(table, cli) = "error"
            /\ fails => Mark(table) = "block" /\ SummaryRow(table, cli).bold

\* A red gate says why, and rightly: the FAIL line names a failing table's kind, or the
\* degradation when nothing else fails, which --fail-on-degraded then escalated; where the
\* step summary says "Gate: ok." not even that flag would have failed the gate; and the
\* degradation the summary reports is the analysis' own, with which it "always agrees"
\* (report.rs:43) though the two are computed from different data.
FailureIsExplained ==
    \A cli \in AnyLimit, strict \in BOOLEAN :
        /\ FailLine(cli, strict) = {"degraded analysis"} =>
               strict /\ ~Evaluate(cli, FALSE).exceeded
        /\ GateOk(cli, strict) => ~Evaluate(cli, TRUE).exceeded
        /\ GateSummary(cli, strict).degraded = AnalysisDegraded
=============================================================================
