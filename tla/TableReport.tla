----------------------------- MODULE TableReport -----------------------------
(***************************************************************************)
(* One table's report (report.rs build): the numbers of the layout as it   *)
(* is and as suggested, and the avoidable bytes the gate acts on.          *)
(***************************************************************************)
EXTENDS Layout

None == -1

OrderStats(tier, ordered, tHoff) ==
    LET footprint == FootprintAt(tHoff, ScenarioEnd(ordered))
    IN  [ padding |-> Padding(ordered),
          footprint |-> IF tier = "exact" THEN footprint ELSE None,
          rows_per_page |-> IF tier = "exact" THEN RowsPerPage(footprint) ELSE None ]

AsWritten(columns) == [i \in DOMAIN columns |-> i]

SaturatingSub(x, y) == IF x > y THEN x - y ELSE 0

\* The suggestion, unless it pads more than the columns as they are.
Guarded(columns, order) ==
    IF Padding(Ordered(columns, order)) > Padding(columns)
    THEN AsWritten(columns)
    ELSE order

Avoidable(tier, current, suggested) ==
    CASE tier = "exact"    -> SaturatingSub(current.footprint, suggested.footprint)
      [] tier = "estimate" -> SaturatingSub(current.padding, suggested.padding)
      [] tier = "unknown"  -> 0

\* Once an attribute was dropped every later row carries a null bitmap.
THoff(columns, droppedCount) ==
    IF droppedCount > 0 THEN NullTHoff(Len(columns) + droppedCount) ELSE BareTHoff

\* Fault: the order is kept where nothing is avoidable.
Unsettled(report) == report

\* With nothing avoidable the suggestion is the table as it is.
Settled(report) ==
    IF report.avoidable = 0
    THEN [report EXCEPT !.suggested = report.current,
                        !.suggested_order = AsWritten(report.layout_signature)]
    ELSE report

\* The layout signature names the kinds in order: the sequence itself.
Scored(columns, tHoff, tier, partial, order) ==
    LET current == OrderStats(tier, columns, tHoff)
        suggested == OrderStats(tier, Ordered(columns, order), tHoff)
    IN  [ tier |-> tier, incomplete |-> partial,
          current |-> current, suggested |-> suggested, suggested_order |-> order,
          avoidable |-> Avoidable(tier, current, suggested),
          layout_signature |-> columns ]

Build(columns, droppedCount, partial) ==
    Settled(Scored(columns, THoff(columns, droppedCount),
                   IF partial THEN "unknown" ELSE Tier(columns),
                   partial, Guarded(columns, SuggestedOrder(columns))))
=============================================================================
