----------------------------- MODULE Annotations -----------------------------
(***************************************************************************)
(* The annotation stream of --format github (render.rs): one line per      *)
(* table with avoidable bytes, then one per note, within the number of     *)
(* annotations of each severity the Actions runner keeps.  A line is its   *)
(* severity; `out` counts the lines written of each.                       *)
(***************************************************************************)
EXTENDS Integers

CONSTANT MaxLines   \* bound: annotations of one severity

Level == {"error", "warning", "notice"}

ANNOTATION_CAP == 10

\* What the runner shows of the lines of one severity (external).
RunnerKeeps == 10

VARIABLES
    phase,      \* "tables", then "notes", then "done"
    count,      \* AnnotationBudget::errors, warnings and notices
    dropped,    \* AnnotationBudget::dropped
    out,        \* lines written, per severity
    asked       \* lines the report had to show, per severity

vars == <<phase, count, dropped, out, asked>>

Init ==
    /\ phase = "tables"
    /\ count = [level \in Level |-> 0]
    /\ dropped = 0
    /\ out = [level \in Level |-> 0]
    /\ asked = [level \in Level |-> 0]

\* Fault: no room is left for the suppression notice.
FullCapOf(level) == ANNOTATION_CAP

\* Notices stop one early so that the suppression notice fits.
CapOf(level) == IF level = "notice" THEN ANNOTATION_CAP - 1 ELSE ANNOTATION_CAP

Emit(level) ==
    /\ asked[level] < MaxLines
    /\ asked' = [asked EXCEPT ![level] = @ + 1]
    /\ IF count[level] < CapOf(level)
       THEN /\ count' = [count EXCEPT ![level] = @ + 1]
            /\ out' = [out EXCEPT ![level] = @ + 1]
            /\ UNCHANGED dropped
       ELSE /\ dropped' = dropped + 1
            /\ UNCHANGED <<count, out>>

\* A failing verdict is an error, other avoidable bytes a warning.
AnnotateTable ==
    /\ phase = "tables"
    /\ \E level \in {"error", "warning"} : Emit(level)
    /\ UNCHANGED phase

\* A skipped statement is a warning, any other note a notice.
AnnotateNote ==
    /\ phase \in {"tables", "notes"}
    /\ phase' = "notes"
    /\ \E level \in {"warning", "notice"} : Emit(level)

Finish ==
    /\ phase \in {"tables", "notes"}
    /\ phase' = "done"
    /\ out' = IF dropped > 0 THEN [out EXCEPT !["notice"] = @ + 1] ELSE out
    /\ UNCHANGED <<count, dropped, asked>>

Next == AnnotateTable \/ AnnotateNote \/ Finish

Spec == Init /\ [][Next]_vars

-----------------------------------------------------------------------------
(* Properties. *)

Total(lines) == lines["error"] + lines["warning"] + lines["notice"]

\* "Truncation here is loud": of what is written the runner loses nothing, the
\* suppression notice included, and the notice is there exactly when annotations
\* are missing, with the number of them.
LossIsLoud ==
    phase = "done" =>
        /\ \A level \in Level : out[level] <= RunnerKeeps
        /\ IF dropped > 0
           THEN Total(out) - 1 + dropped = Total(asked)
           ELSE out = asked
=============================================================================
