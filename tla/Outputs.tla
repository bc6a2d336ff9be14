------------------------------- MODULE Outputs -------------------------------
(***************************************************************************)
(* What goes out: the annotation stream, the suggested statement, and the  *)
(* buffers of the wasm boundary.  They share no state, and only one of     *)
(* them leaves its start in a behavior.                                    *)
(***************************************************************************)
EXTENDS Integers, Sequences

CONSTANTS
    MaxLines,                                                           \* Annotations
    Backends, ColumnNames, TableNames, Types, Reserved, MaxColumns,     \* Suggestion
    WordSize, MaxMemory, InputLengths, OutputLengths, MaxHeld              \* WasmAbi

VARIABLES
    phase, count, dropped, out, asked,  \* the annotations
    backend, table, columns,            \* the suggestion
    blocks, held, fault                 \* the wasm boundary

stream == <<phase, count, dropped, out, asked>>
suggestion == <<backend, table, columns>>
boundary == <<blocks, held, fault>>
outputs == <<stream, suggestion, boundary>>

Stream == INSTANCE Annotations

Statement == INSTANCE Suggestion

Boundary == INSTANCE WasmAbi

OutputsInit == Stream!Init /\ Statement!Init /\ Boundary!Init

NoLine == phase = "tables" /\ asked = [level \in Stream!Level |-> 0]

NoColumn == columns = << >>

NoBuffer == held = {}

NextLine == NoColumn /\ NoBuffer /\ Stream!Next /\ UNCHANGED <<suggestion, boundary>>

NextStatement == NoLine /\ NoBuffer /\ Statement!Next /\ UNCHANGED <<stream, boundary>>

NextCall == NoLine /\ NoColumn /\ Boundary!Next /\ UNCHANGED <<stream, suggestion>>

OutputsNext == NextLine \/ NextStatement \/ NextCall

OutputsSpec == OutputsInit /\ [][OutputsNext]_outputs

-----------------------------------------------------------------------------
(* Properties, of the parts. *)

\* Annotations: no line is lost without the notice that counts it.
LossIsLoud == Stream!LossIsLoud

\* Suggestion: the statement printed declares the table the series made.
SuggestionIsTheTable == Statement!SuggestionIsTheTable

\* WasmAbi: no buffer is lost, misread or released twice.
BuffersAccounted == Boundary!BuffersAccounted
=============================================================================
