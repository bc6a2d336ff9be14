------------------------------- MODULE Layout -------------------------------
(***************************************************************************)
(* On-disk tuple layout arithmetic (layout.rs) for 64-bit PostgreSQL, in   *)
(* the canonical scenario: every column non-NULL, every varlena counted at *)
(* its header.  A column order is a sequence of column kinds; an order     *)
(* suggested for it is a permutation of its positions.                     *)
(***************************************************************************)
EXTENDS ColumnKinds, FiniteSets, Collections

MAXALIGN == 8
TupleHeader == 23
PageSize == 8192
PageHeader == 24
LinePointer == 4
VarlenaLongHeader == 4
VarlenaShortHeader == 1

Pad(offset, align) == (align - (offset % align)) % align

MaxAlign(n) == n + Pad(n, MAXALIGN)

-----------------------------------------------------------------------------
(* The walk. *)

\* A short varlena is stored with no alignment at all.
Aligns(kind) == IsFixed(kind) \/ ~kind.short

PadBefore(kind, offset) == IF Aligns(kind) THEN Pad(offset, kind.align) ELSE 0

SizeOf(kind) ==
    IF IsFixed(kind) THEN kind.len
    ELSE IF kind.short THEN VarlenaShortHeader
    ELSE VarlenaLongHeader

\* walk(kinds).scenario_end of the first i columns, for every i.
Ends(kinds) ==
    LET end[i \in 0..Len(kinds)] ==
            IF i = 0 THEN 0
            ELSE end[i - 1] + PadBefore(kinds[i], end[i - 1]) + SizeOf(kinds[i])
    IN  end

\* walk(kinds).columns: each column's padding and offset.
Placed(kinds) ==
    LET end == Ends(kinds)
    IN  [i \in DOMAIN kinds |->
            [ pad_before |-> PadBefore(kinds[i], end[i - 1]),
              offset |-> end[i - 1] + PadBefore(kinds[i], end[i - 1]) ]]

ScenarioEnd(kinds) == Ends(kinds)[Len(kinds)]

\* walk(kinds).padding: what the columns' sizes leave of the data area.
Padding(kinds) ==
    LET placed == Placed(kinds)
        total[i \in 0..Len(kinds)] ==
            IF i = 0 THEN 0 ELSE total[i - 1] + placed[i].pad_before
    IN  total[Len(kinds)]

-----------------------------------------------------------------------------
(* Row and page size. *)

FootprintAt(tHoff, scenarioEnd) == MaxAlign(tHoff + scenarioEnd)

RowsPerPage(footprint) == (PageSize - PageHeader) \div (LinePointer + footprint)

BareTHoff == MaxAlign(TupleHeader)

\* Fault: the header is not rounded.
UnroundedTHoff(natts) == TupleHeader + (natts + 7) \div 8

\* With a null bitmap of one bit per attribute.
NullTHoff(natts) == MaxAlign(TupleHeader + (natts + 7) \div 8)

-----------------------------------------------------------------------------
(* The suggested order: the heuristic sort. *)

SortClass(kind) == IF IsFixed(kind) THEN 0 ELSE IF kind.short THEN 2 ELSE 1

\* sort_key(i) < sort_key(j), the lexicographic order of the four components.
SortsBefore(kinds, i, j) ==
    LET x == kinds[i]
        y == kinds[j]
    IN  \/ SortClass(x) < SortClass(y)
        \/ /\ SortClass(x) = SortClass(y)
           /\ \/ x.align > y.align
              \/ /\ x.align = y.align
                 /\ \/ ~Irregular(x) /\ Irregular(y)
                    \/ Irregular(x) = Irregular(y) /\ i < j

\* The position each column takes is the number of columns sorting before it.
SortedOrder(kinds) ==
    [p \in DOMAIN kinds |->
        CHOOSE i \in DOMAIN kinds :
            Cardinality({j \in DOMAIN kinds : SortsBefore(kinds, j, i)}) = p - 1]

Ordered(kinds, order) == [p \in DOMAIN order |-> kinds[order[p]]]

-----------------------------------------------------------------------------
(* The refinement of the fixed block (refine_fixed_block). *)

MinFixed == 3       \* the refinement's lower and upper column counts
MaxFixed == 24
MaxClasses == 12

\* Columns of one class are interchangeable in the search.
ClassOf(kind) == <<kind.align, kind.len % MAXALIGN>>

\* Dp::min_padding: the least padding any order of the columns `left` (positions
\* of the fixed block) adds from the offset residue `offset`.  The search tries
\* one column of each class, the first one left.
Representatives(kinds, left) ==
    {i \in left : \A j \in left : ClassOf(kinds[i]) = ClassOf(kinds[j]) => i <= j}

After(kinds, i, offset) == (offset + Pad(offset, kinds[i].align) + kinds[i].len) % MAXALIGN

MinPadding(kinds, block) ==
    LET search[left \in SUBSET block] ==
            [offset \in 0..(MAXALIGN - 1) |->
                IF left = {} THEN 0
                ELSE LET cost == {Pad(offset, kinds[i].align)
                                    + search[left \ {i}][After(kinds, i, offset)] :
                                    i \in Representatives(kinds, left)}
                     IN  CHOOSE c \in cost : \A d \in cost : c <= d]
    IN  search

\* The position, in the heuristic's order, of the first column of i's class: the
\* classes are tried in the order the sorted block first meets them.
ClassRank(kinds, sorted, block, i) ==
    CHOOSE p \in DOMAIN sorted :
        /\ sorted[p] \in block
        /\ ClassOf(kinds[sorted[p]]) = ClassOf(kinds[i])
        /\ \A q \in 1..(p - 1) : ClassOf(kinds[sorted[q]]) # ClassOf(kinds[i])

\* Fault: the target is not compared with.
AnyNext(kinds, search, before) == Representatives(kinds, before.left)

\* The columns that may come next: one of each class left from which the least
\* padding can still be met.
OnTarget(kinds, search, before) ==
    {i \in Representatives(kinds, before.left) :
        Pad(before.offset, kinds[i].align)
          + search[before.left \ {i}][After(kinds, i, before.offset)]
        = search[before.left][before.offset]}

\* Of these the one whose class the heuristic has first.
FirstRanked(kinds, sorted, block, candidates) ==
    CHOOSE i \in candidates : \A j \in candidates :
        ClassRank(kinds, sorted, block, i) <= ClassRank(kinds, sorted, block, j)

Place(kinds, before, next) ==
    [ left |-> before.left \ {next},
      offset |-> After(kinds, next, before.offset),
      placed |-> Append(before.placed, next) ]

\* The block rebuilt column by column.
RefinedBlock(kinds, sorted, block) ==
    LET search == MinPadding(kinds, block)
        build[n \in 0..Cardinality(block)] ==
            IF n = 0 THEN [left |-> block, offset |-> 0, placed |-> << >>]
            ELSE LET before == build[n - 1]
                     onTarget == OnTarget(kinds, search, before)
                 IN  Place(kinds, before, FirstRanked(kinds, sorted, block, onTarget))
    IN  build[Cardinality(block)].placed

\* Only a block of this size that still pads is searched.
Refines(kinds, sorted, n) ==
    /\ n \in MinFixed..MaxFixed
    /\ Padding(Ordered(kinds, SubSeq(sorted, 1, n))) # 0
    /\ Cardinality({ClassOf(kinds[sorted[p]]) : p \in 1..n}) <= MaxClasses

VarlenasOf(sorted, n) == SubSeq(sorted, n + 1, Len(sorted))

RefineFixedBlock(kinds, sorted, block) ==
    IF Refines(kinds, sorted, Cardinality(block))
    THEN RefinedBlock(kinds, sorted, block) \o VarlenasOf(sorted, Cardinality(block))
    ELSE sorted

SuggestedOrder(kinds) ==
    RefineFixedBlock(kinds, SortedOrder(kinds), {i \in DOMAIN kinds : IsFixed(kinds[i])})

Tier(kinds) == IF \A i \in DOMAIN kinds : IsFixed(kinds[i]) THEN "exact" ELSE "estimate"
=============================================================================
