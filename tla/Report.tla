------------------------------- MODULE Report -------------------------------
(***************************************************************************)
(* The table a report is built from, as the replay grows and edits it      *)
(* (fold.rs): columns are appended, dropped and retyped, and the table may *)
(* turn incomplete.  The report is a function of that state.               *)
(***************************************************************************)
EXTENDS TableReport

CONSTANTS
    Kinds,          \* the storage classes of the workload
    DroppedBefore,  \* dropped slots the table starts with (a partition inherits them)
    MaxColumns,     \* bound on live columns
    MaxDropped      \* bound on dropped slots

ASSUME ReportAssumption ==
    /\ Kinds \subseteq ColumnKind
    /\ DroppedBefore \subseteq Nat
    /\ MaxColumns \in Nat
    /\ MaxDropped \in Nat

VARIABLES
    kinds,          \* FoldedTable::columns, their kinds
    dropped,        \* FoldedTable::dropped_count
    incomplete      \* FoldedTable::incomplete

vars == <<kinds, dropped, incomplete>>

report == Build(kinds, dropped, incomplete)

-----------------------------------------------------------------------------
(* The table. *)

Init ==
    /\ kinds = << >>
    /\ dropped \in DroppedBefore
    /\ incomplete \in BOOLEAN

AddColumn(kind) ==
    /\ Len(kinds) < MaxColumns
    /\ kinds' = Append(kinds, kind)
    /\ UNCHANGED <<dropped, incomplete>>

DropColumn(i) ==
    /\ dropped < MaxDropped
    /\ kinds' = SubSeq(kinds, 1, i - 1) \o SubSeq(kinds, i + 1, Len(kinds))
    /\ dropped' = dropped + 1
    /\ UNCHANGED incomplete

SetColumnType(i, kind) ==
    /\ kinds' = [kinds EXCEPT ![i] = kind]
    /\ UNCHANGED <<dropped, incomplete>>

FlagIncomplete == incomplete' = TRUE /\ UNCHANGED <<kinds, dropped>>

Next ==
    \/ \E kind \in Kinds : AddColumn(kind)
    \/ \E i \in DOMAIN kinds : DropColumn(i)
    \/ \E i \in DOMAIN kinds, kind \in Kinds : SetColumnType(i, kind)
    \/ FlagIncomplete

Spec == Init /\ [][Next]_vars

-----------------------------------------------------------------------------
(* Properties. *)

Orders(columns) ==
    {order \in [DOMAIN columns -> DOMAIN columns] :
        \A i, j \in DOMAIN columns : order[i] = order[j] => i = j}

\* The suggestion is one: a reordering of the table, for the block the search rebuilds
\* class by class loses no column and repeats none; its numbers describe that order; with
\* nothing avoidable it is the table as it is ("or the JSON contradicts itself",
\* report.rs:180), and something is avoidable only where it pads less.
SuggestionConsistent ==
    LET r == report
    IN  /\ DOMAIN r.suggested_order = DOMAIN kinds
        /\ Elements(r.suggested_order) = DOMAIN kinds
        /\ r.suggested =
              OrderStats(r.tier, Ordered(kinds, r.suggested_order), THoff(kinds, dropped))
        /\ r.avoidable = 0 => r.suggested_order = AsWritten(kinds)
        /\ r.avoidable # 0 => r.suggested.padding < r.current.padding

\* At the exact tier the avoidable bytes are all the bytes: where the search runs, on 3
\* to 24 columns of at most 12 classes (layout.rs refine_fixed_block), no order of the
\* columns has a smaller row than the suggestion.
ExactIsOptimal ==
    LET suggestion == report
        classes == {ClassOf(kinds[i]) : i \in DOMAIN kinds}
    IN  /\ suggestion.tier = "exact"
        /\ Len(kinds) \in MinFixed..MaxFixed
        /\ Cardinality(classes) <= MaxClasses
        => \A order \in Orders(kinds) :
               suggestion.suggested.footprint
                 <= FootprintAt(THoff(kinds, dropped), ScenarioEnd(Ordered(kinds, order)))

\* The null bitmap dropped columns force into a row moves every footprint alike
\* ("Order-invariant, so it never changes reorder advice", layout.rs:174): with
\* no column ever dropped the advice and the avoidable bytes would be the same.
DropsDoNotMoveAdvice ==
    LET undropped == Build(kinds, 0, incomplete)
        actual == report
    IN  /\ actual.avoidable = undropped.avoidable
        /\ actual.suggested_order = undropped.suggested_order
=============================================================================
