---------------------------- MODULE ClientProofs ----------------------------
(***************************************************************************)
(* The two settings a replay runs in.                                      *)
(*                                                                         *)
(* The pipeline is a client of the replay: each of its steps is one step of*)
(* the Folder or none, for every series of statements and every DO body.   *)
(* What the Folder's theorems say of a replay therefore holds of every     *)
(* analysis, and what a DO block may do is noted.                          *)
(*                                                                         *)
(* Next to Postgres, for any tables, columns and series of any length:     *)
(* while every unreadable statement is attributed to a table, a table the  *)
(* replay calls complete is the table Postgres has.                        *)
(***************************************************************************)
EXTENDS Analysis, PgReplay, FolderProofs, FiniteSetTheorems

-----------------------------------------------------------------------------
(* The pipeline and the replay.                                            *)

\* The name a placeholder stands in never reaches the replay: it comes from
\* templates only, whose operations are dispatched as `dynamic`.
FoundOps(from_template) ==
    TypeOps \cup TableOp(IF from_template THEN Table \cup {DynamicToken} ELSE Table)

\* What is left to scan and to dispatch is what the parser can have made.
ScanOK ==
    /\ dynamic \in BOOLEAN
    /\ fragments \in Seq(Fragment)
    /\ attempts \in Nat
    /\ ops \in Seq(FoundOps(dynamic))

LEMMA FragmentParts ==
    ASSUME NEW fragment \in Fragment
    PROVE  /\ fragment.anchors \in Seq(Parse(Table))
           /\ \/ fragment.template = NoTemplate
              \/ /\ fragment.template.ident \in Parse(Table \cup {DynamicToken})
                 /\ fragment.template.number \in Parse(Table \cup {DynamicToken})
BY DEF Fragment

LEMMA FirstFragment ==
    ASSUME ScanOK, fragments # << >>
    PROVE  Head(fragments) \in Fragment /\ Tail(fragments) \in Seq(Fragment)
BY DEF ScanOK

LEMMA LeaveScanOK ==
    ASSUME ScanOK, fragments # << >>, NEW from_template \in BOOLEAN,
           NEW found \in Seq(FoundOps(from_template)), Leave(found, from_template)
    PROVE  ScanOK' /\ UNCHANGED vars
<1>1. /\ fragments' = Tail(fragments) /\ ops' = found /\ dynamic' = from_template
      /\ attempts' = 0 /\ UNCHANGED vars
  BY DEF Leave
<1>2. FoundOps(dynamic)' = FoundOps(from_template)
  BY <1>1 DEF FoundOps
<1> QED BY <1>1, <1>2, FirstFragment DEF ScanOK

LEMMA FirstOperation ==
    ASSUME ScanOK, ops # << >>
    PROVE  Head(ops) \in FoundOps(dynamic) /\ Tail(ops) \in Seq(FoundOps(dynamic))
<1> HIDE DEF FoundOps
<1> QED BY DEF ScanOK

LEMMA KindsOfOps ==
    ASSUME NEW names, NEW op \in TableOp(names)
    PROVE  /\ op.op \in {"create", "alter"} => op.table \in names
           /\ op.op = "drop" => op.tables \in Seq(names) \ {<< >>}
           /\ op \notin TypeOp
BY DEF TableOp, TypeOp

LEMMA KindsOfTypeOps ==
    ASSUME NEW op \in TypeOp
    PROVE  op.op \notin {"create", "alter", "drop", "irrelevant"}
BY DEF TypeOp

\* The token that stands for a placeholder is told from a table before the replay is.
LEMMA NamesATable ==
    ASSUME NEW from_template \in BOOLEAN, NEW op \in FoundOps(from_template),
           from_template => Classifiable(op)
    PROVE  /\ op.op \in {"create", "alter"} => op.table \in Table
           /\ op.op = "drop" => op.tables \in Seq(Table) \ {<< >>}
<1> DEFINE names == IF from_template THEN Table \cup {DynamicToken} ELSE Table
<1>1. CASE op \in TypeOps
  BY <1>1, AnalysisAssumption, KindsOfTypeOps
<1>2. CASE op \in TableOp(names)
  <2>1. /\ op.op \in {"create", "alter"} => op.table \in names
        /\ op.op = "drop" => op.tables \in Seq(names) \ {<< >>}
    BY <1>2, KindsOfOps
  <2>2. CASE ~from_template
    BY <2>1, <2>2
  <2>3. CASE from_template
    <3>1. op.op \in {"create", "alter"} => op.table \in Table
      BY <2>1, <2>3 DEF Classifiable, Concrete
    <3>2. ASSUME op.op = "drop" PROVE op.tables \in Seq(Table) \ {<< >>}
      <4>1. op.tables \in Seq(Table \cup {DynamicToken}) \ {<< >>}
        BY <2>1, <2>3, <3>2
      <4>2. \A i \in 1..Len(op.tables) : op.tables[i] \in Table
        BY <2>3, <3>2, <4>1 DEF Classifiable, Concrete, Elements
      <4> QED BY <4>1, <4>2
    <3> QED BY <3>1, <3>2
  <2> QED BY <2>2, <2>3
<1> QED BY <1>1, <1>2 DEF FoundOps

LEMMA TypeOpIsTypeDdl ==
    ASSUME NEW op \in TypeOp, FoldTypeOp(op)
    PROVE  TypeDdl
<1>1. /\ NewStatement /\ Replayed(op)
      /\ UNCHANGED <<order, tables, ghosts, notes, unknown_types_noted>>
  BY DEF FoldTypeOp
<1>2. CASE op.op = "domain"
  <2>1. op.name \in TypeName /\ op.base \in NewTypes
    BY <1>2 DEF TypeOp
  <2>2. CreateDomain(op.name, op.base)
    BY <1>1, <1>2 DEF Replayed
  <2> QED BY <1>1, <2>1, <2>2 DEF TypeDdl
<1>3. CASE op.op = "drop_types"
  <2>1. op.names \in SUBSET TypeName /\ op.names # {}
    BY <1>3 DEF TypeOp
  <2>2. DropTypes(op.names)
    BY <1>1, <1>3 DEF Replayed
  <2> QED BY <1>1, <2>1, <2>2 DEF TypeDdl
<1>4. CASE op.op = "rename_type"
  <2>1. op.old \in TypeName /\ op.new \in TypeName
    BY <1>4 DEF TypeOp
  <2>2. RenameTypeTo(op.old, op.new)
    BY <1>1, <1>4 DEF Replayed
  <2> QED BY <1>1, <2>1, <2>2 DEF TypeDdl
<1> QED BY <1>2, <1>3, <1>4 DEF TypeOp

-----------------------------------------------------------------------------
(* Each action of the pipeline. *)

LEMMA StatementStep ==
    ASSUME ScanOK, Statement
    PROVE  Next /\ ScanOK'
<1>1. TableStatement => Next
  BY DEF TableStatement, Next
<1>2. ASSUME NEW op \in TypeOps, TypeStatement(op) PROVE Next
  <2>1. TypeDdl
    BY <1>2, AnalysisAssumption, TypeOpIsTypeDdl DEF TypeStatement
  <2> QED BY <2>1 DEF Next
<1>3. ScanOK'
  BY DEF Statement, scan, ScanOK, FoundOps
<1> QED BY <1>1, <1>2, <1>3 DEF Statement

LEMMA ScanStep ==
    ASSUME ScanOK,
           \/ \E body \in Bodies : ScanDoBlock(body)
           \/ NoDdl \/ TryAnchor \/ PastTheCap \/ TryTemplate
    PROVE  UNCHANGED vars /\ ScanOK'
<1>1. ASSUME NEW body \in Bodies, ScanDoBlock(body)
      PROVE  UNCHANGED vars /\ ScanOK'
  BY <1>1, AnalysisAssumption DEF ScanDoBlock, ScanOK, FoundOps
<1>2. << >> \in Seq(FoundOps(FALSE))
  OBVIOUS
<1>3. CASE NoDdl
  BY <1>2, <1>3, LeaveScanOK DEF NoDdl, AtFragment, Found
<1>4. CASE PastTheCap
  BY <1>2, <1>4, LeaveScanOK DEF PastTheCap, AtFragment, GiveUp
<1>5. CASE TryAnchor
  <2> DEFINE parsed == Anchors[attempts + 1]
  <2>1. CASE parsed = NotParsed
    BY <1>5, <2>1 DEF TryAnchor, ScanOK, FoundOps
  <2>2. CASE parsed # NotParsed
    <3>1. fragments # << >> /\ Found(parsed, FALSE)
      BY <1>5, <2>2 DEF TryAnchor, AtFragment
    <3>2. Anchors \in Seq(Parse(Table)) /\ attempts \in Nat /\ attempts < Len(Anchors)
      BY <1>5, <3>1, FirstFragment, FragmentParts DEF Anchors, TryAnchor, ScanOK
    <3>3. parsed \in Parse(Table)
      BY <3>2
    <3>4. parsed \in Seq(FoundOps(FALSE))
      BY <2>2, <3>3 DEF Parse, FoundOps
    <3> QED BY <3>1, <3>4, LeaveScanOK DEF Found
  <2> QED BY <2>1, <2>2
<1>6. CASE TryTemplate
  <2> DEFINE template == Head(fragments).template
  <2>1. fragments # << >> /\ Head(fragments) \in Fragment
    BY <1>6, FirstFragment DEF TryTemplate, AtFragment
  <2>2. CASE GiveUp
    BY <1>2, <2>1, <2>2, LeaveScanOK DEF GiveUp
  <2>3. CASE template.ident # NotParsed /\ template # NoTemplate /\ Found(template.ident, TRUE)
    <3>1. template.ident \in Seq(FoundOps(TRUE))
      BY <2>1, <2>3, FragmentParts DEF Parse, FoundOps
    <3> QED BY <2>1, <2>3, <3>1, LeaveScanOK DEF Found
  <2>4. CASE template.number # NotParsed /\ template # NoTemplate /\ Found(template.number, TRUE)
    <3>1. template.number \in Seq(FoundOps(TRUE))
      BY <2>1, <2>4, FragmentParts DEF Parse, FoundOps
    <3> QED BY <2>1, <2>4, <3>1, LeaveScanOK DEF Found
  <2> QED BY <1>6, <2>2, <2>3, <2>4 DEF TryTemplate
<1> QED BY <1>1, <1>3, <1>4, <1>5, <1>6

LEMMA TailDispatched ==
    ASSUME ScanOK, ops # << >>, ops' = Tail(ops), UNCHANGED <<fragments, attempts, dynamic>>
    PROVE  ScanOK'
<1>1. Tail(ops) \in Seq(FoundOps(dynamic))
  BY FirstOperation
<1> QED BY <1>1 DEF ScanOK, FoundOps

LEMMA DispatchTypeStep ==
    ASSUME ScanOK, DispatchType
    PROVE  Next /\ ScanOK'
<1>1. TypeDdl
  BY TypeOpIsTypeDdl DEF DispatchType
<1>2. ScanOK'
  BY TailDispatched DEF DispatchType, Dispatching
<1> QED BY <1>1, <1>2 DEF Next

LEMMA DispatchTableStep ==
    ASSUME ScanOK, DispatchTable
    PROVE  Next /\ ScanOK'
<1> DEFINE op == Head(ops)
<1>1. ops # << >> /\ op.op \in {"create", "alter"} /\ (dynamic => Classifiable(op))
  BY DEF DispatchTable, Dispatching
<1>2. op.table \in Table
  BY <1>1, FirstOperation, NamesATable DEF ScanOK
<1>3. ConditionalTableDdl(op.table)
  BY DEF DispatchTable
<1>4. ScanOK'
  BY TailDispatched DEF DispatchTable, Dispatching
<1> QED BY <1>2, <1>3, <1>4 DEF Next

\* Dropping the first name of a DROP leaves a DROP of the others.
LEMMA RestOfDrop ==
    ASSUME NEW names, NEW op \in TableOp(names), op.op = "drop", Len(op.tables) # 1
    PROVE  [op EXCEPT !.tables = Tail(@)] \in TableOp(names)
<1>1. op \in [op : {"drop"}, tables : Seq(names) \ {<< >>}]
  BY DEF TableOp
<1>2. op.tables \in Seq(names) /\ op.tables # << >>
  BY <1>1
<1>3. ASSUME NEW seq \in Seq(names), seq # << >>, Len(seq) # 1
      PROVE  Tail(seq) \in Seq(names) \ {<< >>}
  <2>1. Tail(seq) \in Seq(names) /\ Len(Tail(seq)) = Len(seq) - 1 /\ Len(seq) \in Nat
    BY <1>3
  <2> QED BY <1>3, <2>1
<1>4. Tail(op.tables) \in Seq(names) \ {<< >>}
  BY <1>2, <1>3
<1> QED BY <1>1, <1>4 DEF TableOp

LEMMA DispatchDropStep ==
    ASSUME ScanOK, DispatchDrop
    PROVE  Next /\ ScanOK'
<1> DEFINE op == Head(ops)
           names == IF dynamic THEN Table \cup {DynamicToken} ELSE Table
<1>1. /\ ops # << >> /\ op.op = "drop" /\ (dynamic => Classifiable(op))
      /\ ConditionalTableDdl(Head(op.tables))
      /\ UNCHANGED <<fragments, attempts, dynamic>>
      /\ ops' = IF Len(op.tables) = 1 THEN Tail(ops) ELSE [ops EXCEPT ![1].tables = Tail(@)]
  BY DEF DispatchDrop, Dispatching
<1>2. op \in FoundOps(dynamic) /\ op.tables \in Seq(Table) \ {<< >>}
  BY <1>1, FirstOperation, NamesATable DEF ScanOK
<1>3. Next
  <2>1. Head(op.tables) \in Table
    BY <1>2
  <2> QED BY <1>1, <2>1 DEF Next
<1>4. CASE Len(op.tables) = 1
  BY <1>1, <1>3, <1>4, TailDispatched
<1>5. CASE Len(op.tables) # 1
  <2> DEFINE rest == [op EXCEPT !.tables = Tail(@)]
  <2>1. op \in TableOp(names)
    BY <1>1, <1>2, AnalysisAssumption, KindsOfTypeOps DEF FoundOps
  <2>2. rest \in FoundOps(dynamic)
    BY <1>1, <1>5, <2>1, RestOfDrop DEF FoundOps
  <2>3. ops' = [ops EXCEPT ![1] = rest]
    <3>1. ops' = [ops EXCEPT ![1].tables = Tail(@)]
      BY <1>1, <1>5
    <3>2. ops[1] = op
      BY <1>1, FirstOperation DEF ScanOK
    <3> QED BY <3>1, <3>2
  <2> HIDE DEF rest
  <2>4. ops' \in Seq(FoundOps(dynamic))
    BY <2>2, <2>3, ElementReplaced DEF ScanOK
  <2>5. ScanOK'
    BY <1>1, <2>4 DEF ScanOK, FoundOps
  <2> QED BY <1>3, <2>5
<1> QED BY <1>4, <1>5

LEMMA ScanOKStep ==
    ASSUME ScanOK, [AnalysisNext]_allvars
    PROVE  ScanOK' /\ [Next]_vars
<1>1. CASE PassOver
  BY <1>1, TailDispatched DEF PassOver, Dispatching
<1>2. CASE EndBlock
  BY <1>2 DEF EndBlock, ScanOK, FoundOps, Next
<1>3. CASE NoDollarBody
  BY <1>3 DEF NoDollarBody, ScanOK, FoundOps, scan, Next
<1>4. CASE UNCHANGED allvars
  BY <1>4 DEF allvars, scan, ScanOK, FoundOps
<1> QED BY <1>1, <1>2, <1>3, <1>4, StatementStep, ScanStep, DispatchTypeStep,
           DispatchTableStep, DispatchDropStep
    DEF AnalysisNext, DoBlock, Dispatch

LEMMA ScanOKAlways == AnalysisSpec => []ScanOK
<1>1. AnalysisInit => ScanOK
  <2> SUFFICES ASSUME AnalysisInit PROVE ScanOK
    OBVIOUS
  <2>1. dynamic = FALSE /\ fragments = << >> /\ attempts = 0 /\ ops = << >>
    BY DEF AnalysisInit
  <2>2. fragments \in Seq(Fragment) /\ ops \in Seq(FoundOps(dynamic))
    BY <2>1
  <2> QED BY <2>1, <2>2 DEF ScanOK
<1>2. ScanOK /\ [AnalysisNext]_allvars => ScanOK'
  BY ScanOKStep
<1> QED BY <1>1, <1>2, PTL DEF AnalysisSpec

\* The pipeline implements the replay: whatever statements and DO blocks it is given,
\* all it does to the replay's state is to call it, one operation at a time, with names
\* of tables (lib.rs analyze_sources_with over fold.rs).
THEOREM AnalysisIsReplay == AnalysisSpec => Spec
<1>1. AnalysisInit => Init
  BY DEF AnalysisInit
<1>2. ScanOK /\ [AnalysisNext]_allvars => [Next]_vars
  BY ScanOKStep
<1> QED BY <1>1, <1>2, ScanOKAlways, PTL DEF AnalysisSpec, Spec

\* What the replay guarantees holds of every analysis: its report lists each modeled
\* table once and in replay order, nothing is degraded without a note, and no flag of
\* an incomplete model is cleared.
THEOREM AnalysisIsLoud ==
    AnalysisSpec => /\ [](OrderMatchesTables /\ HistoryInOrder)
                    /\ [](IncompleteExplained /\ GhostsExplained /\ GuessesNotedOnce)
                    /\ IncompleteSticks
BY AnalysisIsReplay, OrderAlwaysMatches, HistoryAlwaysInOrder, IncompleteAlwaysExplained,
   GhostsAlwaysExplained, GuessesAlwaysNotedOnce, IncompleteAlwaysSticks, PTL

-----------------------------------------------------------------------------
(* Nothing a truthful DO block does goes unsaid. *)

Said(change) == NotedSince(change, NoName) \/ NotedSince(change, change.name)

\* The block's summary note will come, or an operation still to dispatch says it.
ToBeSaid(change) ==
    /\ scanning
    /\ unanalyzable > 0 \/ \E op \in Elements(ops) : Tells(op, change.name, dynamic)

SaidInv ==
    /\ \A fragment \in Elements(fragments) : Truthful(fragment)
    /\ unanalyzable \in Nat
    /\ \A change \in touched :
           /\ change.since \in 0..Len(notes)
           /\ Said(change) \/ ToBeSaid(change)

NotesOK == notes \in Seq(NoteRecord)

LEMMA KeptLength ==
    ASSUME NotesOK, NotesOK', NotesKept
    PROVE  /\ Len(notes) \in Nat /\ Len(notes') \in Nat /\ Len(notes) <= Len(notes')
           /\ \A i \in 1..Len(notes) : notes'[i] = notes[i]
<1>1. /\ Len(notes) \in Nat /\ DOMAIN notes = 1..Len(notes)
      /\ Len(notes') \in Nat /\ DOMAIN notes' = 1..Len(notes')
  BY DEF NotesOK
<1>2. 1..Len(notes) \subseteq 1..Len(notes')
  BY <1>1 DEF NotesKept, Extended
<1>3. Len(notes) <= Len(notes')
  BY <1>1, <1>2
<1> QED BY <1>1, <1>3 DEF NotesKept, Extended

\* What is said stays said.
LEMMA StaysSaid ==
    ASSUME NotesOK, NotesOK', NotesKept, NEW change, change.since \in 0..Len(notes), Said(change)
    PROVE  change.since \in 0..Len(notes') /\ Said(change)'
<1>1. /\ Len(notes) \in Nat /\ Len(notes') \in Nat /\ Len(notes) <= Len(notes')
      /\ \A i \in 1..Len(notes) : notes'[i] = notes[i]
  BY KeptLength
<1>2. ASSUME NEW about, NotedSince(change, about)
      PROVE  NotedSince(change, about)'
  <2>1. PICK i \in (change.since + 1)..Len(notes) :
            notes[i].kind = "DoBlockDdl" /\ notes[i].about = about
    BY <1>2 DEF NotedSince
  <2>2. i \in (change.since + 1)..Len(notes') /\ notes'[i] = notes[i]
    BY <1>1
  <2> QED BY <2>1, <2>2 DEF NotedSince
<1>3. change.since \in 0..Len(notes')
  BY <1>1
<1> QED BY <1>2, <1>3 DEF Said

\* A note added now is about every change before it.
LEMMA SaidNow ==
    ASSUME NotesOK, NotesOK', NEW change, change.since \in 0..Len(notes),
           NEW about, notes' = Append(notes, Note("DoBlockDdl", about)),
           about \in {NoName, change.name}
    PROVE  Said(change)'
<1>1. /\ Len(notes) \in Nat /\ Len(notes') = Len(notes) + 1
      /\ notes'[Len(notes) + 1] = Note("DoBlockDdl", about)
  BY DEF NotesOK
<1>2. Len(notes) + 1 \in (change.since + 1)..Len(notes')
  BY <1>1
<1>3. notes'[Len(notes) + 1].kind = "DoBlockDdl" /\ notes'[Len(notes) + 1].about = about
  BY <1>1 DEF Note
<1>4. NotedSince(change, about)'
  BY <1>2, <1>3 DEF NotedSince
<1> QED BY <1>4 DEF Said

LEMMA TailElements ==
    ASSUME NEW S, NEW seq \in Seq(S), seq # << >>
    PROVE  Elements(seq) = {Head(seq)} \cup Elements(Tail(seq))
<1> DEFINE rest == Tail(seq)
<1>1. /\ Len(seq) \in Nat \ {0} /\ DOMAIN seq = 1..Len(seq) /\ Head(seq) = seq[1]
      /\ DOMAIN rest = 1..(Len(seq) - 1)
      /\ \A i \in 1..(Len(seq) - 1) : rest[i] = seq[i + 1]
  OBVIOUS
<1> HIDE DEF rest
<1>2. ASSUME NEW x \in Elements(seq) PROVE x = Head(seq) \/ x \in Elements(rest)
  <2>1. PICK i \in 1..Len(seq) : x = seq[i]
    BY <1>1, <1>2 DEF Elements
  <2>2. CASE i = 1
    BY <1>1, <2>1, <2>2
  <2>3. CASE i # 1
    <3>1. i - 1 \in 1..(Len(seq) - 1) /\ (i - 1) + 1 = i
      BY <1>1, <2>3
    <3> QED BY <1>1, <2>1, <3>1 DEF Elements
  <2> QED BY <2>2, <2>3
<1>3. ASSUME NEW x \in Elements(rest) PROVE x \in Elements(seq)
  <2>1. PICK i \in 1..(Len(seq) - 1) : x = rest[i]
    BY <1>1, <1>3 DEF Elements
  <2>2. i + 1 \in DOMAIN seq /\ x = seq[i + 1]
    BY <1>1, <2>1
  <2> QED BY <2>2 DEF Elements
<1>4. Head(seq) \in Elements(seq)
  BY <1>1 DEF Elements
<1> QED BY <1>2, <1>3, <1>4 DEF rest

\* A fragment left behind: what it affects is in the operations found, or it is one of
\* those given up on.
LEMMA LeaveSaid ==
    ASSUME ScanOK, NotesOK, SaidInv, AtFragment,
           NEW found, NEW from_template \in BOOLEAN, Leave(found, from_template),
           unanalyzable' \in Nat, unanalyzable' >= unanalyzable,
           \/ unanalyzable' > 0
           \/ \A t \in Head(fragments).affects :
                  \E op \in Elements(found) : Tells(op, t, from_template)
    PROVE  SaidInv'
<1>1. /\ fragments' = Tail(fragments) /\ ops' = found /\ dynamic' = from_template
      /\ scanning' = scanning /\ scanning = TRUE /\ notes' = notes
      /\ ops = << >> /\ fragments # << >>
  BY DEF Leave, AtFragment, vars, ScanOK
<1>2. \A fragment \in Elements(fragments') : Truthful(fragment)
  BY <1>1, TailElements DEF SaidInv, ScanOK
<1>3. ASSUME NEW change \in touched
      PROVE  change.since \in 0..Len(notes') /\ (Said(change)' \/ ToBeSaid(change)')
  <2>1. Elements(ops) = {}
    BY <1>1 DEF Elements
  <2>2. change.since \in 0..Len(notes) /\ (Said(change) \/ unanalyzable > 0)
    BY <2>1 DEF SaidInv, ToBeSaid
  <2>3. Said(change) => Said(change)'
    BY <1>1 DEF Said, NotedSince
  <2>4. unanalyzable > 0 => ToBeSaid(change)'
    BY <1>1 DEF ToBeSaid, SaidInv
  <2> QED BY <1>1, <2>2, <2>3, <2>4
<1>4. ASSUME NEW change \in touched' \ touched
      PROVE  change.since \in 0..Len(notes') /\ ToBeSaid(change)'
  <2>1. PICK t \in Head(fragments).affects :
            change = [ name |-> t, since |-> Len(notes),
                       origin |-> IF t \in DOMAIN tables THEN tables[t].origin ELSE 0 ]
    BY <1>4 DEF Leave
  <2>2. change.name = t /\ change.since = Len(notes) /\ Len(notes) \in Nat
    BY <2>1 DEF NotesOK
  <2>3. ToBeSaid(change)'
    BY <1>1, <2>2 DEF ToBeSaid
  <2> QED BY <1>1, <2>2, <2>3
<1> QED BY <1>2, <1>3, <1>4 DEF SaidInv

LEMMA GiveUpSaid ==
    ASSUME ScanOK, NotesOK, SaidInv, AtFragment, GiveUp
    PROVE  SaidInv'
<1>1. unanalyzable' \in Nat /\ unanalyzable' >= unanalyzable /\ unanalyzable' > 0
  BY DEF GiveUp, SaidInv
<1> QED BY <1>1, LeaveSaid DEF GiveUp

LEMMA FoundSaid ==
    ASSUME ScanOK, NotesOK, SaidInv, AtFragment,
           NEW found, NEW from_template \in BOOLEAN, Found(found, from_template),
           \A t \in Head(fragments).affects :
               \E op \in Elements(found) : Tells(op, t, from_template)
    PROVE  SaidInv'
<1>1. unanalyzable' \in Nat /\ unanalyzable' >= unanalyzable
  BY DEF Found, SaidInv
<1> QED BY <1>1, LeaveSaid DEF Found

LEMMA FirstTruthful ==
    ASSUME ScanOK, SaidInv, AtFragment
    PROVE  Truthful(Head(fragments))
<1>1. Head(fragments) \in Elements(fragments)
  BY TailElements DEF AtFragment, ScanOK
<1> QED BY <1>1 DEF SaidInv

LEMMA TryAnchorSaid ==
    ASSUME ScanOK, NotesOK, SaidInv, TryAnchor
    PROVE  SaidInv'
<1> DEFINE parsed == Anchors[attempts + 1]
<1>1. AtFragment /\ fragments # << >>
  BY DEF TryAnchor, AtFragment
<1>2. CASE parsed = NotParsed
  BY <1>2 DEF TryAnchor, SaidInv, Said, NotedSince, ToBeSaid, vars
<1>3. CASE parsed # NotParsed
  <2>1. Anchors \in Seq(Parse(Table)) /\ attempts + 1 \in DOMAIN Anchors
    BY <1>1, FirstFragment, FragmentParts DEF Anchors, TryAnchor, ScanOK
  <2>2. \A t \in Head(fragments).affects : \E op \in Elements(parsed) : Tells(op, t, FALSE)
    BY <1>1, <1>3, <2>1, FirstTruthful DEF Truthful, TellsAll, Anchors
  <2>3. Found(parsed, FALSE)
    BY <1>3 DEF TryAnchor
  <2> QED BY <1>1, <2>2, <2>3, FoundSaid
<1> QED BY <1>2, <1>3

LEMMA TryTemplateSaid ==
    ASSUME ScanOK, NotesOK, SaidInv, TryTemplate
    PROVE  SaidInv'
<1> DEFINE template == Head(fragments).template
           parsed == Substituted(template)
<1>1. AtFragment
  BY DEF TryTemplate
<1>2. \/ GiveUp
      \/ template # NoTemplate /\ parsed # NotParsed /\ Found(parsed, TRUE)
  BY DEF TryTemplate, Substituted
<1>3. CASE template # NoTemplate /\ parsed # NotParsed /\ Found(parsed, TRUE)
  <2>1. \A t \in Head(fragments).affects : \E op \in Elements(parsed) : Tells(op, t, TRUE)
    BY <1>1, <1>3, FirstTruthful DEF Truthful, TellsAll
  <2> QED BY <1>1, <1>3, <2>1, FoundSaid
<1> QED BY <1>1, <1>2, <1>3, GiveUpSaid

LEMMA NoDdlSaid ==
    ASSUME ScanOK, NotesOK, SaidInv, NoDdl
    PROVE  SaidInv'
<1>1. AtFragment /\ Found(<< >>, FALSE) /\ Head(fragments).anchors = << >>
  BY DEF NoDdl, Anchors
<1>2. Head(fragments).affects = {}
  BY <1>1, FirstTruthful DEF Truthful
<1> QED BY <1>1, <1>2, FoundSaid

\* The first operation is dispatched: what it tells is said by a note or joins what the
\* summary note stands for, and the others are still there.
LEMMA DispatchSaid ==
    ASSUME ScanOK, NotesOK, NotesOK', NotesKept, SaidInv, Dispatching,
           UNCHANGED <<scanning, fragments, dynamic, touched>>,
           unanalyzable' \in Nat, unanalyzable' >= unanalyzable,
           Elements(Tail(ops)) \subseteq Elements(ops'),
           \A change \in touched :
               Tells(Head(ops), change.name, dynamic) =>
                   \/ Said(change)' \/ unanalyzable' > 0
                   \/ \E op \in Elements(ops') : Tells(op, change.name, dynamic)
    PROVE  SaidInv'
<1>1. Elements(ops) = {Head(ops)} \cup Elements(Tail(ops))
  <2> HIDE DEF FoundOps
  <2> QED BY TailElements DEF Dispatching, ScanOK
<1>2. Len(notes) \in Nat /\ Len(notes') \in Nat /\ Len(notes) <= Len(notes')
  BY KeptLength
<1>3. ASSUME NEW change \in touched
      PROVE  change.since \in 0..Len(notes') /\ (Said(change)' \/ ToBeSaid(change)')
  <2>1. change.since \in 0..Len(notes) /\ (Said(change) \/ ToBeSaid(change))
    BY DEF SaidInv
  <2>2. Said(change) => Said(change)'
    BY <2>1, StaysSaid
  <2>3. ToBeSaid(change) => Said(change)' \/ ToBeSaid(change)'
    <3>1. CASE unanalyzable > 0
      BY <3>1 DEF ToBeSaid, Dispatching, SaidInv
    <3>2. CASE \E op \in Elements(Tail(ops)) : Tells(op, change.name, dynamic)
      BY <3>2 DEF ToBeSaid, Dispatching
    <3>3. CASE Tells(Head(ops), change.name, dynamic)
      BY <3>3 DEF ToBeSaid, Dispatching
    <3> QED BY <1>1, <3>1, <3>2, <3>3 DEF ToBeSaid
  <2> QED BY <1>2, <2>1, <2>2, <2>3
<1> QED BY <1>3 DEF SaidInv

\* Where a placeholder is told from a table, only the table is told of.
LEMMA TellsItsTable ==
    ASSUME NEW op, NEW t, NEW from_template, Tells(op, t, from_template),
           op.op = "drop" => op.tables \in Seq(Table) \ {<< >>},
           op.op \in {"create", "alter"} => op.table \in Table
    PROVE  /\ op.op \in {"create", "alter"} => op.table = t
           /\ op.op = "drop" => t \in Elements(op.tables)
<1>1. \A table \in Table : table # DynamicToken
  BY AnalysisAssumption
<1>2. op.op = "drop" => DynamicToken \notin Elements(op.tables)
  BY <1>1 DEF Elements
<1> QED BY <1>1, <1>2 DEF Tells

LEMMA DispatchTypeSaid ==
    ASSUME ScanOK, NotesOK, NotesOK', NotesKept, SaidInv, DispatchType
    PROVE  SaidInv'
<1>1. /\ Dispatching /\ Head(ops) \in TypeOp /\ ops' = Tail(ops)
      /\ UNCHANGED <<scanning, fragments, dynamic, unanalyzable, touched>>
  BY DEF DispatchType
<1>2. \A t : ~Tells(Head(ops), t, dynamic)
  BY <1>1, KindsOfTypeOps DEF Tells
<1>3. unanalyzable' \in Nat /\ unanalyzable' >= unanalyzable
  BY <1>1 DEF SaidInv
<1> QED BY <1>1, <1>2, <1>3, DispatchSaid

LEMMA DispatchTableSaid ==
    ASSUME ScanOK, NotesOK, NotesOK', NotesKept, SaidInv, DispatchTable
    PROVE  SaidInv'
<1> DEFINE op == Head(ops)
<1>1. /\ Dispatching /\ op.op \in {"create", "alter"} /\ (dynamic => Classifiable(op))
      /\ notes' = Append(notes, Note("DoBlockDdl", op.table)) /\ ops' = Tail(ops)
      /\ UNCHANGED <<scanning, fragments, dynamic, unanalyzable, touched>>
  BY DEF DispatchTable, ConditionalTableDdl
<1>2. op.table \in Table
  BY <1>1, FirstOperation, NamesATable DEF ScanOK, Dispatching
<1>3. unanalyzable' \in Nat /\ unanalyzable' >= unanalyzable
  BY <1>1 DEF SaidInv
<1>4. ASSUME NEW change \in touched, Tells(op, change.name, dynamic)
      PROVE  Said(change)'
  <2>1. op.table = change.name
    BY <1>1, <1>2, <1>4, TellsItsTable
  <2>2. change.since \in 0..Len(notes)
    BY DEF SaidInv
  <2> QED BY <1>1, <2>1, <2>2, SaidNow
<1> QED BY <1>1, <1>3, <1>4, DispatchSaid

LEMMA DispatchDropSaid ==
    ASSUME ScanOK, NotesOK, NotesOK', NotesKept, SaidInv, DispatchDrop
    PROVE  SaidInv'
<1> DEFINE op == Head(ops)
           rest == [op EXCEPT !.tables = Tail(@)]
           one == Len(op.tables) = 1
<1>1. /\ Dispatching /\ op.op = "drop" /\ (dynamic => Classifiable(op))
      /\ notes' = Append(notes, Note("DoBlockDdl", Head(op.tables)))
      /\ ops' = IF one THEN Tail(ops) ELSE [ops EXCEPT ![1].tables = Tail(@)]
      /\ UNCHANGED <<scanning, fragments, dynamic, unanalyzable, touched>>
  BY DEF DispatchDrop, ConditionalTableDdl
<1>2. op \in FoundOps(dynamic) /\ op.tables \in Seq(Table) \ {<< >>}
  BY <1>1, FirstOperation, NamesATable DEF ScanOK, Dispatching
<1>3. unanalyzable' \in Nat /\ unanalyzable' >= unanalyzable
  BY <1>1 DEF SaidInv
<1>4. one => Elements(op.tables) = {Head(op.tables)}
  BY <1>2 DEF Elements
<1>5. ASSUME ~one
      PROVE  /\ rest \in Elements(ops') /\ Elements(Tail(ops)) \subseteq Elements(ops')
             /\ rest.op = "drop" /\ rest.tables = Tail(op.tables)
  <2>1. /\ Len(ops) \in Nat \ {0} /\ DOMAIN ops = 1..Len(ops) /\ op = ops[1]
        /\ DOMAIN Tail(ops) = 1..(Len(ops) - 1)
        /\ \A i \in 1..(Len(ops) - 1) : Tail(ops)[i] = ops[i + 1]
    <3> HIDE DEF FoundOps
    <3> QED BY <1>1 DEF ScanOK, Dispatching
  <2>2. ops' = [ops EXCEPT ![1] = rest]
    <3>1. ops' = [ops EXCEPT ![1].tables = Tail(@)]
      BY <1>1, <1>5
    <3> QED BY <2>1, <3>1
  <2>3. rest.op = "drop" /\ rest.tables = Tail(op.tables)
    <3>1. op \in [op : {"drop"}, tables : Seq(Table \cup {DynamicToken})]
      BY <1>1, <1>2, AnalysisAssumption, KindsOfTypeOps DEF FoundOps, TableOp
    <3> QED BY <3>1
  <2> HIDE DEF op, rest
  <2>4. DOMAIN ops' = DOMAIN ops /\ ops'[1] = rest
        /\ \A i \in DOMAIN ops \ {1} : ops'[i] = ops[i]
    BY <2>1, <2>2
  <2>5. rest \in Elements(ops')
    BY <2>1, <2>4 DEF Elements
  <2>6. ASSUME NEW x \in Elements(Tail(ops)) PROVE x \in Elements(ops')
    <3>1. PICK i \in 1..(Len(ops) - 1) : x = ops[i + 1]
      BY <2>1, <2>6 DEF Elements
    <3>2. i + 1 \in DOMAIN ops \ {1}
      BY <2>1
    <3> QED BY <2>4, <3>1, <3>2 DEF Elements
  <2> QED BY <2>3, <2>5, <2>6
<1>6. ASSUME NEW change \in touched, Tells(op, change.name, dynamic)
      PROVE  \/ Said(change)'
             \/ \E other \in Elements(ops') : Tells(other, change.name, dynamic)
  <2>1. change.name \in Elements(op.tables)
    BY <1>1, <1>2, <1>6, TellsItsTable
  <2>2. CASE change.name = Head(op.tables)
    <3>1. change.since \in 0..Len(notes)
      BY DEF SaidInv
    <3> QED BY <1>1, <2>2, <3>1, SaidNow
  <2>3. CASE change.name # Head(op.tables)
    <3>1. ~one
      BY <1>4, <2>1, <2>3
    <3>2. change.name \in Elements(Tail(op.tables))
      BY <1>2, <2>1, <2>3, TailElements
    <3>3. Tells(rest, change.name, dynamic)
      BY <1>5, <3>1, <3>2 DEF Tells
    <3> QED BY <1>5, <3>1, <3>3
  <2> QED BY <2>2, <2>3
<1>7. Elements(Tail(ops)) \subseteq Elements(ops')
  BY <1>1, <1>5
<1> HIDE DEF op
<1> QED BY <1>1, <1>3, <1>6, <1>7, DispatchSaid DEF op

LEMMA PassOverSaid ==
    ASSUME ScanOK, NotesOK, NotesOK', NotesKept, SaidInv, PassOver
    PROVE  SaidInv'
<1> DEFINE op == Head(ops)
<1>1. /\ Dispatching /\ ops' = Tail(ops)
      /\ UNCHANGED <<scanning, fragments, dynamic, touched>>
      /\ \/ op.op = "irrelevant" /\ UNCHANGED unanalyzable
         \/ dynamic /\ Inert(op) /\ UNCHANGED unanalyzable
         \/ unanalyzable' = unanalyzable + 1
  BY DEF PassOver
<1>2. /\ unanalyzable' \in Nat /\ unanalyzable' >= unanalyzable
      /\ unanalyzable' = unanalyzable + 1 => unanalyzable' > 0
  BY <1>1 DEF SaidInv
<1>3. ASSUME NEW t, Tells(op, t, dynamic)
      PROVE  unanalyzable' > 0
  <2>1. op.op # "irrelevant" /\ ~(dynamic /\ Inert(op))
    BY <1>3 DEF Tells, Inert, Concrete
  <2> QED BY <1>1, <1>2, <2>1
<1> QED BY <1>1, <1>2, <1>3, DispatchSaid

\* While no block is scanned everything is said, and it stays so.
LEMMA OutsideSaid ==
    ASSUME NotesOK, NotesOK', NotesKept, SaidInv, ~scanning,
           UNCHANGED <<fragments, unanalyzable, touched>>
    PROVE  SaidInv'
BY StaysSaid DEF SaidInv, ToBeSaid

LEMMA EndBlockSaid ==
    ASSUME NotesOK, NotesOK', NotesKept, SaidInv, EndBlock
    PROVE  SaidInv'
<1>1. ASSUME NEW change \in touched
      PROVE  change.since \in 0..Len(notes') /\ Said(change)'
  <2>1. change.since \in 0..Len(notes) /\ (Said(change) \/ unanalyzable > 0)
    BY DEF SaidInv, ToBeSaid, EndBlock, Elements
  <2>2. CASE Said(change)
    BY <2>1, <2>2, StaysSaid
  <2>3. CASE unanalyzable > 0
    <3>1. notes' = Append(notes, Note("DoBlockDdl", NoName))
      BY <2>3 DEF EndBlock, DoBlockNote
    <3>2. Said(change)'
      BY <2>1, <3>1, SaidNow
    <3>3. change.since \in 0..Len(notes')
      BY <2>1, KeptLength
    <3> QED BY <3>2, <3>3
  <2> QED BY <2>1, <2>2, <2>3
<1> QED BY <1>1 DEF SaidInv, EndBlock

LEMMA SaidStep ==
    ASSUME \A body \in Bodies : \A fragment \in Elements(body) : Truthful(fragment),
           ScanOK, StateOK, StateOK', PositionOK, SaidInv, [AnalysisNext]_allvars
    PROVE  SaidInv'
<1>1. NotesOK /\ NotesOK' /\ NotesKept
  BY ScanOKStep, StepTraced DEF StateOK, NotesOK, Traced
<1>2. CASE Statement \/ NoDollarBody
  BY <1>1, <1>2, OutsideSaid DEF Statement, NoDollarBody, scan
<1>3. ASSUME NEW body \in Bodies, ScanDoBlock(body) PROVE SaidInv'
  BY <1>3 DEF ScanDoBlock, SaidInv, Said, NotedSince, ToBeSaid, vars
<1>4. CASE NoDdl \/ TryAnchor \/ PastTheCap \/ TryTemplate
  BY <1>1, <1>4, NoDdlSaid, TryAnchorSaid, TryTemplateSaid, GiveUpSaid DEF PastTheCap
<1>5. CASE Dispatch
  BY <1>1, <1>5, DispatchTypeSaid, DispatchTableSaid, DispatchDropSaid, PassOverSaid DEF Dispatch
<1>6. CASE EndBlock
  BY <1>1, <1>6, EndBlockSaid
<1>7. CASE UNCHANGED allvars
  BY <1>7 DEF allvars, vars, scan, SaidInv, Said, NotedSince, ToBeSaid
<1> QED BY <1>2, <1>3, <1>4, <1>5, <1>6, <1>7 DEF AnalysisNext, DoBlock

LEMMA SaidInvAlways ==
    ASSUME \A body \in Bodies : \A fragment \in Elements(body) : Truthful(fragment)
    PROVE  AnalysisSpec => []SaidInv
<1>1. AnalysisInit => SaidInv
  BY DEF AnalysisInit, SaidInv, Elements
<1>2. ScanOK /\ StateOK /\ StateOK' /\ PositionOK /\ SaidInv /\ [AnalysisNext]_allvars
      => SaidInv'
  BY SaidStep
<1>3. TypeOK => StateOK /\ PositionOK
  BY TypeOKForm
<1> QED BY <1>1, <1>2, <1>3, ScanOKAlways, AnalysisIsReplay, TypesAlwaysHold, PTL
        DEF AnalysisSpec

\* "Never folded", and never silent (lib.rs:174): if what a DO block's fragments affect
\* is among what they say, then once a block is scanned every table it may have changed
\* is named in a note made since, or the block's summary note is out -- for every body,
\* every number of parse attempts and every series of statements around it.
THEOREM TouchedAlwaysLoud ==
    ASSUME \A body \in Bodies : \A fragment \in Elements(body) : Truthful(fragment)
    PROVE  AnalysisSpec => []TouchedIsLoud
<1>1. SaidInv => TouchedIsLoud
  BY DEF SaidInv, TouchedIsLoud, Said, ToBeSaid
<1> QED BY <1>1, SaidInvAlways, PTL

-----------------------------------------------------------------------------
(* The table a block may have changed is flagged.  While the block is        *)
(* scanned a note about the table's name flags that very table; afterwards   *)
(* the table may be renamed and its name taken, but the flag stays with it.  *)

\* What the replay says of table t, given that a scanned block may have changed it.
FlaggedFor(change, t) ==
    \/ tables[t].incomplete
    \/ NotedSince(change, NoName)
    \/ scanning /\ t = change.name /\ ~NotedSince(change, change.name)

FlagInv ==
    \A change \in touched :
        /\ change.origin \in 0..line
        /\ \A t \in DOMAIN tables : change.origin = tables[t].origin => FlaggedFor(change, t)

\* The notes since a change that a step makes.
NotedNow(change, about) ==
    \E i \in (Len(notes) + 1)..Len(notes') :
        notes'[i].kind = "DoBlockDdl" /\ notes'[i].about = about

LEMMA NotedThen ==
    ASSUME NotesOK, NotesOK', NotesKept, NEW change, change.since \in 0..Len(notes), NEW about
    PROVE  NotedSince(change, about)' <=> NotedSince(change, about) \/ NotedNow(change, about)
<1>1. /\ Len(notes) \in Nat /\ Len(notes') \in Nat /\ Len(notes) <= Len(notes')
      /\ \A i \in 1..Len(notes) : notes'[i] = notes[i]
  BY KeptLength
<1>2. \A i \in (change.since + 1)..Len(notes') :
          \/ i \in (change.since + 1)..Len(notes) /\ notes'[i] = notes[i]
          \/ i \in (Len(notes) + 1)..Len(notes')
  BY <1>1
<1>3. /\ \A i \in (change.since + 1)..Len(notes) :
             i \in (change.since + 1)..Len(notes') /\ notes'[i] = notes[i]
      /\ \A i \in (Len(notes) + 1)..Len(notes') : i \in (change.since + 1)..Len(notes')
  BY <1>1
<1> QED BY <1>2, <1>3 DEF NotedSince, NotedNow

\* A step that leaves no fragment behind.
LEMMA FlagKeptBy ==
    ASSUME NotesOK, NotesOK', NotesKept, SaidInv, FlagInv, touched' = touched,
           StateOK, PositionOK, PositionOK', OrderInv, HistoryInv, [Next]_vars,
           line' >= line,
           \A change \in touched, t \in DOMAIN tables, later \in DOMAIN tables' :
               /\ tables'[later].origin = tables[t].origin
               /\ scanning /\ t = change.name /\ ~NotedSince(change, change.name)
               => FlaggedFor(change, later)'
    PROVE  FlagInv'
<1> SUFFICES ASSUME NEW change \in touched
             PROVE  /\ change.origin \in 0..line'
                    /\ \A later \in DOMAIN tables' :
                           change.origin = tables'[later].origin => FlaggedFor(change, later)'
  BY DEF FlagInv
<1>1. line \in Nat /\ line' \in Nat
  BY WorkloadAssumption DEF PositionOK
<1>2. change.origin \in 0..line'
  BY <1>1 DEF FlagInv
<1>3. ASSUME NEW later \in DOMAIN tables', change.origin = tables'[later].origin
      PROVE  FlaggedFor(change, later)'
  <2>1. \E t \in DOMAIN tables : Follows(tables[t], tables'[later])
    <3>1. ~(NewStatement /\ Created(later))
      BY <1>1, <1>3 DEF NewStatement, Created, FlagInv
    <3> QED BY <3>1, StepSuccession DEF Succession
  <2>2. PICK t \in DOMAIN tables : Follows(tables[t], tables'[later])
    BY <2>1
  <2>3. tables[t].origin = tables'[later].origin /\ FlaggedFor(change, t)
    BY <1>3, <2>2 DEF Follows, FlagInv
  <2>4. CASE tables[t].incomplete
    BY <2>2, <2>4 DEF Follows, FlaggedFor
  <2>5. CASE NotedSince(change, NoName)
    <3>1. change.since \in 0..Len(notes)
      BY DEF SaidInv
    <3> QED BY <2>5, <3>1, NotedThen DEF FlaggedFor
  <2>6. CASE scanning /\ t = change.name /\ ~NotedSince(change, change.name)
    BY <2>3, <2>6
  <2> QED BY <2>3, <2>4, <2>5, <2>6 DEF FlaggedFor
<1> QED BY <1>2, <1>3

\* A fragment left behind: nothing is noted yet of what it may have changed.
LEMMA LeaveFlagged ==
    ASSUME NotesOK, StateOK, PositionOK, OrderInv, HistoryInv, FlagInv, AtFragment,
           NEW found, NEW from_template, Leave(found, from_template)
    PROVE  FlagInv'
<1>1. UNCHANGED vars /\ scanning' = scanning /\ scanning = TRUE
  BY DEF Leave, AtFragment
<1>2. tables' = tables /\ notes' = notes /\ line' = line
  BY <1>1 DEF vars
<1>3. ASSUME NEW change \in touched
      PROVE  /\ change.origin \in 0..line'
             /\ \A t \in DOMAIN tables' :
                    change.origin = tables'[t].origin => FlaggedFor(change, t)'
  BY <1>1, <1>2 DEF FlagInv, FlaggedFor, NotedSince
<1>4. ASSUME NEW change \in touched' \ touched
      PROVE  /\ change.origin \in 0..line'
             /\ \A t \in DOMAIN tables' :
                    change.origin = tables'[t].origin => FlaggedFor(change, t)'
  <2>1. PICK name \in Head(fragments).affects :
            change = [ name |-> name, since |-> Len(notes),
                       origin |-> IF name \in DOMAIN tables THEN tables[name].origin ELSE 0 ]
    BY <1>4 DEF Leave
  <2>2. /\ change.name = name /\ change.since = Len(notes)
        /\ change.origin = IF name \in DOMAIN tables THEN tables[name].origin ELSE 0
    BY <2>1
  <2>3. line \in Nat /\ \A t \in DOMAIN tables :
            tables[t].origin \in Nat \ {0} /\ tables[t].origin <= line
    BY WorkloadAssumption DEF PositionOK, StateOK, TablesOK, FoldedTable, HistoryInv
  <2>4. ~NotedSince(change, change.name)'
    <3>1. Len(notes) \in Nat
      BY DEF NotesOK
    <3> QED BY <1>2, <2>2, <3>1 DEF NotedSince
  <2>5. ASSUME NEW t \in DOMAIN tables', change.origin = tables'[t].origin
        PROVE  FlaggedFor(change, t)'
    <3>1. name \in DOMAIN tables /\ tables[name].origin = tables[t].origin
      BY <1>2, <2>2, <2>3, <2>5
    <3>2. t = change.name
      BY <1>2, <2>2, <2>5, <3>1, DistinctOrigins
    <3> QED BY <1>1, <2>4, <3>2 DEF FlaggedFor
  <2>6. change.origin \in 0..line'
    BY <1>2, <2>2, <2>3
  <2> QED BY <2>5, <2>6
<1> QED BY <1>3, <1>4 DEF FlagInv

\* A dispatched operation notes what it flags.
LEMMA DispatchFlagged ==
    ASSUME NotesOK, NotesOK', NotesKept, SaidInv, FlagInv, touched' = touched,
           StateOK, PositionOK, PositionOK', OrderInv, HistoryInv, [Next]_vars,
           line' >= line, scanning' = scanning,
           \/ UNCHANGED <<tables, notes>>
           \/ \E about : /\ notes' = Append(notes, Note("DoBlockDdl", about))
                         /\ tables' = IF about \in DOMAIN tables
                                      THEN [tables EXCEPT ![about].incomplete = TRUE]
                                      ELSE tables
    PROVE  FlagInv'
<1>1. ASSUME NEW change \in touched, NEW t \in DOMAIN tables, NEW later \in DOMAIN tables',
             tables'[later].origin = tables[t].origin,
             scanning, t = change.name, ~NotedSince(change, change.name)
      PROVE  FlaggedFor(change, later)'
  <2>1. \A key \in DOMAIN tables : tables[key] \in FoldedTable
    BY DEF StateOK, TablesOK
  <2>2. later \in DOMAIN tables /\ tables'[later].origin = tables[later].origin
    <3>1. CASE UNCHANGED <<tables, notes>>
      BY <1>1, <3>1
    <3>2. ASSUME NEW about,
                 tables' = IF about \in DOMAIN tables
                           THEN [tables EXCEPT ![about].incomplete = TRUE] ELSE tables
          PROVE  later \in DOMAIN tables /\ tables'[later].origin = tables[later].origin
      <4>1. later \in DOMAIN tables
        BY <1>1, <3>2
      <4>2. CASE about \in DOMAIN tables /\ later = about
        BY <2>1, <3>2, <4>1, <4>2 DEF FoldedTable
      <4>3. CASE ~(about \in DOMAIN tables /\ later = about)
        BY <3>2, <4>1, <4>3
      <4> QED BY <4>1, <4>2, <4>3
    <3> QED BY <3>1, <3>2
  <2>3. later = t
    BY <1>1, <2>2, DistinctOrigins
  <2>4. change.since \in 0..Len(notes)
    BY DEF SaidInv
  <2>5. Len(notes) \in Nat /\ Len(notes') \in Nat
    BY DEF NotesOK
  <2>6. CASE UNCHANGED <<tables, notes>>
    BY <1>1, <2>3, <2>6 DEF FlaggedFor, NotedSince
  <2>7. ASSUME NEW about, notes' = Append(notes, Note("DoBlockDdl", about)),
               tables' = IF about \in DOMAIN tables
                         THEN [tables EXCEPT ![about].incomplete = TRUE] ELSE tables
        PROVE  FlaggedFor(change, later)'
    <3>1. CASE about = t
      <4>1. tables'[t].incomplete
        BY <1>1, <2>1, <2>7, <3>1 DEF FoldedTable
      <4> QED BY <2>3, <4>1 DEF FlaggedFor
    <3>2. CASE about # t
      <4>1. Len(notes') = Len(notes) + 1 /\ notes'[Len(notes) + 1] = Note("DoBlockDdl", about)
        BY <2>7 DEF NotesOK
      <4>2. ~NotedNow(change, change.name)
        BY <1>1, <2>5, <3>2, <4>1 DEF NotedNow, Note
      <4>3. ~NotedSince(change, change.name)'
        BY <1>1, <2>4, <4>2, NotedThen
      <4> QED BY <1>1, <2>3, <4>3 DEF FlaggedFor
    <3> QED BY <3>1, <3>2
  <2> QED BY <2>6, <2>7
<1> QED BY <1>1, FlagKeptBy

LEMMA EndBlockFlagged ==
    ASSUME NotesOK, NotesOK', NotesKept, SaidInv, FlagInv,
           StateOK, PositionOK, PositionOK', OrderInv, HistoryInv, [Next]_vars,
           line' >= line, EndBlock
    PROVE  FlagInv'
<1>1. ASSUME NEW change \in touched, NEW later \in DOMAIN tables',
             ~NotedSince(change, change.name)
      PROVE  FlaggedFor(change, later)'
  <2>1. change.since \in 0..Len(notes)
    BY DEF SaidInv
  <2>2. NotedSince(change, NoName) \/ unanalyzable > 0
    BY <1>1 DEF SaidInv, Said, ToBeSaid, EndBlock, Elements
  <2>3. unanalyzable > 0 => NotedNow(change, NoName)
    <3> SUFFICES ASSUME unanalyzable > 0 PROVE NotedNow(change, NoName)
      OBVIOUS
    <3>1. notes' = Append(notes, Note("DoBlockDdl", NoName))
      BY DEF EndBlock, DoBlockNote
    <3>2. /\ Len(notes) \in Nat /\ Len(notes') = Len(notes) + 1
          /\ notes'[Len(notes) + 1] = Note("DoBlockDdl", NoName)
      BY <3>1 DEF NotesOK
    <3> QED BY <3>2 DEF NotedNow, Note
  <2>4. NotedSince(change, NoName)'
    BY <2>1, <2>2, <2>3, NotedThen
  <2> QED BY <2>4 DEF FlaggedFor
<1>2. touched' = touched
  BY DEF EndBlock
<1> QED BY <1>1, <1>2, FlagKeptBy

LEMMA FlagStep ==
    ASSUME ScanOK, StateOK, StateOK', PositionOK, PositionOK', OrderInv, HistoryInv,
           SaidInv, FlagInv, [AnalysisNext]_allvars
    PROVE  FlagInv'
<1>1. NotesOK /\ NotesOK' /\ NotesKept /\ [Next]_vars
  BY ScanOKStep, StepTraced DEF StateOK, NotesOK, Traced
<1>2. line' >= line
  <2>1. line \in Nat
    BY WorkloadAssumption DEF PositionOK
  <2> QED BY <1>1, <2>1, StepMakes DEF Moves, vars
<1>3. CASE Statement \/ NoDollarBody
  <2>1. ~scanning /\ touched' = touched
    BY <1>3 DEF Statement, NoDollarBody
  <2> QED BY <1>1, <1>2, <2>1, FlagKeptBy
<1>4. ASSUME NEW body \in Bodies, ScanDoBlock(body) PROVE FlagInv'
  BY <1>4 DEF ScanDoBlock, FlagInv, FlaggedFor, NotedSince, vars
<1>5. CASE NoDdl \/ TryAnchor \/ PastTheCap \/ TryTemplate
  <2>1. AtFragment
    BY <1>5 DEF NoDdl, TryAnchor, PastTheCap, TryTemplate
  <2>2. \/ \E found, from_template : Leave(found, from_template)
        \/ UNCHANGED <<vars, scanning, touched>>
    BY <1>5 DEF NoDdl, TryAnchor, PastTheCap, TryTemplate, GiveUp, Found
  <2>3. CASE UNCHANGED <<vars, scanning, touched>>
    BY <2>3 DEF FlagInv, FlaggedFor, NotedSince, vars
  <2> QED BY <1>1, <2>1, <2>2, <2>3, LeaveFlagged
<1>6. CASE Dispatch
  <2>1. touched' = touched /\ scanning' = scanning
    BY <1>6 DEF Dispatch, DispatchType, DispatchTable, DispatchDrop, PassOver
  <2>2. \/ UNCHANGED <<tables, notes>>
        \/ \E about : ConditionalTableDdl(about)
    BY <1>6 DEF Dispatch, DispatchType, DispatchTable, DispatchDrop, PassOver, FoldTypeOp, vars
  <2>3. \/ UNCHANGED <<tables, notes>>
        \/ \E about : /\ notes' = Append(notes, Note("DoBlockDdl", about))
                      /\ tables' = IF about \in DOMAIN tables
                                   THEN [tables EXCEPT ![about].incomplete = TRUE]
                                   ELSE tables
    BY <2>2 DEF ConditionalTableDdl
  <2> QED BY <1>1, <1>2, <2>1, <2>3, DispatchFlagged
<1>7. CASE EndBlock
  BY <1>1, <1>2, <1>7, EndBlockFlagged
<1>8. CASE UNCHANGED allvars
  BY <1>8 DEF allvars, vars, scan, FlagInv, FlaggedFor, NotedSince
<1> QED BY <1>3, <1>4, <1>5, <1>6, <1>7, <1>8 DEF AnalysisNext, DoBlock

\* The table itself, whatever it is called by then: once a block is scanned, a table it
\* may have changed is not called complete unless the block's summary note is out
\* (conditional_table_ddl), under the hypothesis of TouchedAlwaysLoud.
THEOREM TouchedAlwaysFlagged ==
    ASSUME \A body \in Bodies : \A fragment \in Elements(body) : Truthful(fragment)
    PROVE  AnalysisSpec => []TouchedIsFlagged
<1>1. AnalysisInit => FlagInv
  BY DEF AnalysisInit, FlagInv
<1>2. /\ ScanOK /\ TypeOK /\ TypeOK' /\ OrderInv /\ HistoryInv /\ SaidInv /\ FlagInv
      /\ [AnalysisNext]_allvars
      => FlagInv'
  BY FlagStep, TypeOKForm DEF TypeOK, StateOK, PositionOK, TablesOK, SessionOK
<1>3. FlagInv => TouchedIsFlagged
  BY DEF FlagInv, TouchedIsFlagged, FlaggedFor
<1> QED BY <1>1, <1>2, <1>3, ScanOKAlways, AnalysisIsReplay, TypesAlwaysHold, OrderInvAlways,
           HistoryInvAlways, SaidInvAlways, PTL DEF AnalysisSpec
-----------------------------------------------------------------------------
(* What the catalog knows of a type is what Postgres has.  The replay may    *)
(* hold types Postgres does not have, never others than those it has.        *)

\* The type DDL among the operations found in a block is definitions.
OnlyDefines(op) == op \in TypeOp => op.op = "domain"

DefinesOnly(fragment) ==
    \A i \in DOMAIN fragment.anchors :
        fragment.anchors[i] # NotParsed =>
            \A op \in Elements(fragment.anchors[i]) : OnlyDefines(op)

BlocksOnlyDefine == \A body \in Bodies : \A fragment \in Elements(body) : DefinesOnly(fragment)

\* A name the series defines means nothing else, and means one type until it is dropped.
OwnNames ==
    /\ \A op \in TypeOps : op.op # "rename_type"
    /\ \A name \in DefinedNames, short \in BOOLEAN :
           ~ResolveScalar(EmptyMap, name, short).known

\* What is left of a block only defines.
ScanDefines ==
    /\ \A fragment \in Elements(fragments) : DefinesOnly(fragment)
    /\ ~dynamic => \A op \in Elements(ops) : OnlyDefines(op)

\* A type Postgres has is known with its storage, or not known.
AgreeOn(layer, defined, name) ==
    IF name \in DOMAIN layer
    THEN layer[name].known => layer[name].kind = defined[name].kind
    ELSE OwnNames

Agree(layer, defined) ==
    /\ DOMAIN layer \subseteq DefinedNames
    /\ DOMAIN defined \subseteq DefinedNames
    /\ \A name \in DOMAIN defined : AgreeOn(layer, defined, name)

TypeInv ==
    /\ Agree(session, types)
    /\ OwnNames \/ ScanDefines

LEMMA ScalarAgrees ==
    ASSUME NEW layer, NEW defined, Agree(layer, defined), NEW short \in BOOLEAN,
           NEW key, key \in DefinedNames => key \in DOMAIN defined,
           ResolveScalar(layer, key, short).known
    PROVE  ResolveScalar(layer, key, short).kind = ResolveScalar(defined, key, short).kind
<1>1. CASE key \in DOMAIN defined
  <2>1. AgreeOn(layer, defined, key) /\ key \in DefinedNames
    BY <1>1 DEF Agree
  <2>2. CASE key \in DOMAIN layer
    BY <1>1, <2>1, <2>2 DEF AgreeOn, ResolveScalar, Resolved
  <2>3. CASE key \notin DOMAIN layer
    <3>1. ResolveScalar(layer, key, short) = ResolveScalar(EmptyMap, key, short)
      BY <2>3 DEF ResolveScalar, EmptyMap
    <3> QED BY <2>1, <2>3, <3>1 DEF AgreeOn, OwnNames
  <2> QED BY <2>2, <2>3
<1>2. CASE key \notin DOMAIN defined
  <2>1. key \notin DOMAIN layer
    BY <1>2 DEF Agree
  <2> QED BY <1>2, <2>1 DEF ResolveScalar
<1> QED BY <1>1, <1>2

\* A reference to a type that exists, or is not the series', resolves alike on both sides.
LEMMA ResolveAgrees ==
    ASSUME NEW layer, NEW defined, Agree(layer, defined),
           NEW ref \in TypeRef, ref.key \in DefinedNames => ref.key \in DOMAIN defined,
           Resolve(layer, ref).known
    PROVE  Resolve(layer, ref).kind = Resolve(defined, ref).kind
<1>1. CASE ref.array
  <2>1. ResolveScalar(layer, ref.key, FALSE).known
    BY <1>1 DEF Resolve, Resolved
  <2>2. ResolveScalar(layer, ref.key, FALSE).kind = ResolveScalar(defined, ref.key, FALSE).kind
    BY <2>1, ScalarAgrees
  <2> QED BY <1>1, <2>2 DEF Resolve, Resolved
<1>2. CASE ~ref.array
  <2>1. ref.short \in BOOLEAN
    BY DEF TypeRef
  <2> QED BY <1>2, <2>1, ScalarAgrees DEF Resolve
<1> QED BY <1>1, <1>2

\* A definition that is executed, or that repeats the one there is.
LEMMA DefinitionAgrees ==
    ASSUME Agree(session, types), NEW op \in TypeOps, op.op = "domain", BaseExists(op),
           NEW defined, defined = DefineDomain(types, op.name, op.base)
    PROVE  Agree(DefineDomain(session, op.name, op.base), defined)
<1> DEFINE layer == DefineDomain(session, op.name, op.base)
           here == Resolve(session, op.base)
           there == Resolve(types, op.base)
<1>1. op \in TypeOp /\ op.base \in TypeRef /\ op.name \in DefinedNames
  <2>1. op.base \in NewTypes
    BY AnalysisAssumption DEF TypeOp
  <2> QED BY <2>1, AnalysisAssumption, WorkloadAssumption DEF DefinedNames
<1>2. here.known => here.kind = there.kind
  BY <1>1, ResolveAgrees DEF BaseExists
<1>3. /\ DOMAIN layer = DOMAIN session \cup {op.name}
      /\ \A name \in DOMAIN layer : layer[name] = IF name = op.name
                                                  THEN [kind |-> here.kind, known |-> here.known]
                                                  ELSE session[name]
  BY DEF DefineDomain, Define, Put
<1>4. /\ DOMAIN defined = DOMAIN types \cup {op.name}
      /\ \A name \in DOMAIN defined : defined[name] = IF name = op.name
                                                  THEN [kind |-> there.kind, known |-> there.known]
                                                  ELSE types[name]
  BY DEF DefineDomain, Define, Put
<1> HIDE DEF layer, here, there
<1>5. ASSUME NEW name \in DOMAIN defined PROVE AgreeOn(layer, defined, name)
  <2>1. CASE name = op.name
    BY <1>2, <1>3, <1>4, <2>1 DEF AgreeOn
  <2>2. CASE name # op.name
    <3>1. name \in DOMAIN types /\ AgreeOn(session, types, name)
      BY <1>4, <2>2 DEF Agree
    <3> QED BY <1>3, <1>4, <2>2, <3>1 DEF AgreeOn
  <2> QED BY <2>1, <2>2
<1>6. DOMAIN layer \subseteq DefinedNames /\ DOMAIN defined \subseteq DefinedNames
  BY <1>1, <1>3, <1>4 DEF Agree
<1> QED BY <1>5, <1>6 DEF Agree, layer

\* A definition Postgres does not execute, of a name it does not have.
LEMMA PassedByAgrees ==
    ASSUME Agree(session, types), NEW op \in TypeOps, op.op = "domain",
           op.name \notin DOMAIN types
    PROVE  Agree(DefineDomain(session, op.name, op.base), types)
<1> DEFINE layer == DefineDomain(session, op.name, op.base)
<1>1. op.name \in DefinedNames
  BY DEF DefinedNames
<1>2. /\ DOMAIN layer = DOMAIN session \cup {op.name}
      /\ \A name \in DOMAIN types : name \in DOMAIN session => layer[name] = session[name]
  BY DEF DefineDomain, Define, Put
<1>3. \A name \in DOMAIN types : name \in DOMAIN layer => name \in DOMAIN session
  BY <1>2
<1> HIDE DEF layer
<1> QED BY <1>1, <1>2, <1>3 DEF Agree, AgreeOn, layer

\* A drop, executed with whatever it takes along, or not executed.
LEMMA DropAgrees ==
    ASSUME Agree(session, types), NEW names, NEW kept \in SUBSET DOMAIN types,
           kept \cap names = {} \/ OwnNames
    PROVE  Agree([k \in DOMAIN session \ names |-> session[k]], [k \in kept |-> types[k]])
<1> DEFINE layer == [k \in DOMAIN session \ names |-> session[k]]
           defined == [k \in kept |-> types[k]]
<1>1. /\ DOMAIN layer = DOMAIN session \ names /\ DOMAIN defined = kept
      /\ \A k \in DOMAIN layer : layer[k] = session[k]
      /\ \A k \in kept : defined[k] = types[k]
  OBVIOUS
<1> HIDE DEF layer, defined
<1>2. ASSUME NEW name \in kept PROVE AgreeOn(layer, defined, name)
  <2>1. AgreeOn(session, types, name)
    BY DEF Agree
  <2> QED BY <1>1, <2>1 DEF AgreeOn
<1> QED BY <1>1, <1>2 DEF Agree, layer, defined

\* A rename, of a type that both sides have.
LEMMA RenameAgrees ==
    ASSUME Agree(session, types), NEW op \in TypeOps, op.op = "rename_type",
           op.old \in DOMAIN types
    PROVE  Agree(RenameType(session, op.old, op.new), RenameType(types, op.old, op.new))
<1> DEFINE layer == RenameType(session, op.old, op.new)
           defined == RenameType(types, op.old, op.new)
<1>1. op.new \in DefinedNames /\ ~OwnNames
  BY DEF DefinedNames, OwnNames
<1>2. AgreeOn(session, types, op.old) /\ op.old \in DOMAIN session
  BY <1>1 DEF Agree, AgreeOn
<1>3. /\ DOMAIN layer = (DOMAIN session \ {op.old}) \cup {op.new}
      /\ \A name \in DOMAIN layer :
             layer[name] = IF name = op.new THEN session[op.old] ELSE session[name]
  BY <1>2 DEF RenameType, Put, Remove
<1>4. /\ DOMAIN defined = (DOMAIN types \ {op.old}) \cup {op.new}
      /\ \A name \in DOMAIN defined :
             defined[name] = IF name = op.new THEN types[op.old] ELSE types[name]
  BY DEF RenameType, Put, Remove
<1> HIDE DEF layer, defined
<1>5. ASSUME NEW name \in DOMAIN defined PROVE AgreeOn(layer, defined, name)
  <2>1. CASE name = op.new
    BY <1>2, <1>3, <1>4, <2>1 DEF AgreeOn
  <2>2. CASE name # op.new
    <3>1. name \in DOMAIN types \ {op.old} /\ AgreeOn(session, types, name)
      BY <1>4, <2>2 DEF Agree
    <3> QED BY <1>3, <1>4, <2>2, <3>1 DEF AgreeOn
  <2> QED BY <2>1, <2>2
<1>6. DOMAIN layer \subseteq DefinedNames /\ DOMAIN defined \subseteq DefinedNames
  BY <1>1, <1>3, <1>4 DEF Agree
<1> QED BY <1>5, <1>6 DEF Agree, layer, defined

\* Both sides execute the operation.
LEMMA ExecutedAgrees ==
    ASSUME Agree(session, types), NEW op \in TypeOps, Accepted(op), FoldTypeOp(op),
           types' \in Executed(op)
    PROVE  Agree(session', types')
<1>1. op \in TypeOp /\ Replayed(op)
  BY AnalysisAssumption DEF FoldTypeOp
<1>2. CASE op.op = "domain"
  <2>1. session' = DefineDomain(session, op.name, op.base)
    BY <1>1, <1>2 DEF Replayed, CreateDomain
  <2>2. types' = DefineDomain(types, op.name, op.base) /\ BaseExists(op)
    BY <1>2 DEF Executed, Accepted
  <2> QED BY <1>2, <2>1, <2>2, DefinitionAgrees
<1>3. CASE op.op = "drop_types"
  <2>1. session' = [k \in DOMAIN session \ op.names |-> session[k]]
    BY <1>1, <1>3 DEF Replayed, DropTypes
  <2>2. PICK kept \in SUBSET (DOMAIN types \ op.names) : types' = [k \in kept |-> types[k]]
    BY <1>3 DEF Executed
  <2> QED BY <2>1, <2>2, DropAgrees
<1>4. CASE op.op = "rename_type"
  <2>1. session' = RenameType(session, op.old, op.new)
    BY <1>1, <1>4 DEF Replayed, RenameTypeTo
  <2>2. types' = RenameType(types, op.old, op.new) /\ op.old \in DOMAIN types
    BY <1>4 DEF Executed, Accepted
  <2> QED BY <1>4, <2>1, <2>2, RenameAgrees
<1> QED BY <1>1, <1>2, <1>3, <1>4 DEF TypeOp

\* Only the replay does: a guard kept Postgres from it, and the name was free or
\* the definition the same.
LEMMA FoldedAgrees ==
    ASSUME Agree(session, types), NEW op \in TypeOps, Repeats(op), FoldTypeOp(op),
           types' = types, OwnNames \/ OnlyDefines(op)
    PROVE  Agree(session', types')
<1>1. op \in TypeOp /\ Replayed(op)
  BY AnalysisAssumption DEF FoldTypeOp
<1>2. CASE op.op = "domain"
  <2>1. session' = DefineDomain(session, op.name, op.base)
    BY <1>1, <1>2 DEF Replayed, CreateDomain
  <2>2. CASE op.name \notin DOMAIN types
    BY <1>2, <2>1, <2>2, PassedByAgrees
  <2>3. CASE op.name \in DOMAIN types
    <3>1. types = DefineDomain(types, op.name, op.base) /\ BaseExists(op)
      BY <1>2, <2>3 DEF Repeats, Accepted, Executed
    <3> QED BY <1>2, <2>1, <3>1, DefinitionAgrees
  <2> QED BY <2>2, <2>3
<1>3. CASE op.op = "drop_types" /\ OwnNames
  <2>1. session' = [k \in DOMAIN session \ op.names |-> session[k]]
    BY <1>1, <1>3 DEF Replayed, DropTypes
  <2>2. Agree(session', [k \in DOMAIN types |-> types[k]])
    BY <1>3, <2>1, DropAgrees
  <2>3. ASSUME NEW name \in DOMAIN types PROVE AgreeOn(session', types', name)
    BY <2>2 DEF Agree, AgreeOn
  <2> QED BY <2>2, <2>3 DEF Agree
<1>4. ~(op.op = "rename_type" /\ OwnNames)
  BY DEF OwnNames
<1> QED BY <1>1, <1>2, <1>3, <1>4 DEF TypeOp, OnlyDefines

-----------------------------------------------------------------------------
(* What a block that only defines still has to define. *)

LEMMA LeaveDefines ==
    ASSUME ScanOK, ScanDefines, AtFragment,
           NEW found, NEW from_template, Leave(found, from_template),
           from_template \/ \A op \in Elements(found) : OnlyDefines(op)
    PROVE  ScanDefines'
<1>1. /\ fragments' = Tail(fragments) /\ ops' = found /\ dynamic' = from_template
      /\ fragments # << >>
  BY DEF Leave, AtFragment
<1>2. \A fragment \in Elements(fragments') : DefinesOnly(fragment)
  BY <1>1, TailElements DEF ScanDefines, ScanOK
<1> QED BY <1>1, <1>2 DEF ScanDefines

LEMMA ScanStepDefines ==
    ASSUME ScanOK, ScanDefines, NoDdl \/ TryAnchor \/ PastTheCap \/ TryTemplate
    PROVE  ScanDefines'
<1>1. AtFragment /\ fragments # << >>
  <2>1. AtFragment
    BY DEF NoDdl, TryAnchor, PastTheCap, TryTemplate
  <2> QED BY <2>1 DEF AtFragment
<1>2. CASE NoDdl \/ GiveUp
  <2>1. Leave(<< >>, FALSE)
    BY <1>2 DEF NoDdl, Found, GiveUp
  <2>2. \A op \in Elements(<< >>) : OnlyDefines(op)
    BY DEF Elements
  <2> QED BY <1>1, <2>1, <2>2, LeaveDefines
<1>3. CASE TryAnchor
  <2> DEFINE parsed == Anchors[attempts + 1]
  <2>1. CASE parsed = NotParsed
    BY <1>3, <2>1 DEF TryAnchor, ScanDefines
  <2>2. CASE parsed # NotParsed
    <3>1. Anchors \in Seq(Parse(Table)) /\ attempts + 1 \in DOMAIN Anchors
      BY <1>1, <1>3, FirstFragment, FragmentParts DEF Anchors, TryAnchor, ScanOK
    <3>2. Head(fragments) \in Elements(fragments)
      BY <1>1, TailElements DEF ScanOK
    <3>3. \A op \in Elements(parsed) : OnlyDefines(op)
      BY <2>2, <3>1, <3>2 DEF ScanDefines, DefinesOnly, Anchors
    <3>4. Found(parsed, FALSE)
      BY <1>3, <2>2 DEF TryAnchor
    <3> QED BY <1>1, <3>3, <3>4, LeaveDefines DEF Found
  <2> QED BY <2>1, <2>2
<1>4. CASE TryTemplate
  <2>1. GiveUp \/ \E found : Found(found, TRUE)
    BY <1>4 DEF TryTemplate
  <2> QED BY <1>1, <1>2, <2>1, LeaveDefines DEF Found
<1> QED BY <1>2, <1>3, <1>4 DEF PastTheCap

\* What is dispatched is one operation less, or one shorter drop.
LEMMA DispatchDefines ==
    ASSUME ScanOK, ScanDefines, Dispatch
    PROVE  ScanDefines'
<1>1. ops # << >> /\ UNCHANGED <<fragments, dynamic>>
  BY DEF Dispatch, DispatchType, DispatchTable, DispatchDrop, PassOver, Dispatching
<1>2. Elements(ops) = {Head(ops)} \cup Elements(Tail(ops))
  <2> HIDE DEF FoundOps
  <2> QED BY <1>1, TailElements DEF ScanOK
<1>3. CASE ops' = Tail(ops)
  BY <1>1, <1>2, <1>3 DEF ScanDefines
<1>4. CASE DispatchDrop /\ ops' # Tail(ops)
  <2>1. ops' = [ops EXCEPT ![1].tables = Tail(@)] /\ Head(ops).op = "drop"
    BY <1>4 DEF DispatchDrop
  <2>2. Len(ops) \in Nat \ {0} /\ DOMAIN ops = 1..Len(ops) /\ Head(ops) = ops[1]
    <3> HIDE DEF FoundOps
    <3> QED BY <1>1 DEF ScanOK
  <2>3. ops' = [ops EXCEPT ![1] = [ops[1] EXCEPT !.tables = Tail(@)]]
    BY <2>1, <2>2
  <2>4. [ops[1] EXCEPT !.tables = Tail(@)].op = "drop"
    <3>1. ops[1] \in FoundOps(dynamic)
      BY <1>1, <2>2, FirstOperation
    <3>2. ops[1] \in [op : {"drop"}, tables : Seq(IF dynamic THEN Table \cup {DynamicToken} ELSE Table)]
      BY <2>1, <2>2, <3>1, AnalysisAssumption, KindsOfTypeOps DEF FoundOps, TableOp
    <3> QED BY <3>2
  <2> DEFINE rest == [ops[1] EXCEPT !.tables = Tail(@)]
  <2>5. OnlyDefines(rest)
    BY <2>4, KindsOfTypeOps DEF OnlyDefines
  <2> HIDE DEF rest
  <2>6. DOMAIN ops' = DOMAIN ops /\ \A i \in DOMAIN ops : ops'[i] = IF i = 1 THEN rest ELSE ops[i]
    BY <2>2, <2>3 DEF rest
  <2> QED BY <1>1, <2>5, <2>6 DEF ScanDefines, Elements
<1> QED BY <1>3, <1>4 DEF Dispatch, DispatchType, DispatchTable, DispatchDrop, PassOver

LEMMA ScanDefinesStep ==
    ASSUME BlocksOnlyDefine, ScanOK, ScanDefines, [AnalysisNext]_allvars
    PROVE  ScanDefines'
<1>1. CASE Statement \/ NoDollarBody \/ UNCHANGED allvars
  BY <1>1 DEF Statement, NoDollarBody, allvars, scan, ScanDefines
<1>2. ASSUME NEW body \in Bodies, ScanDoBlock(body) PROVE ScanDefines'
  BY <1>2 DEF ScanDoBlock, ScanDefines, BlocksOnlyDefine
<1>3. CASE EndBlock
  BY <1>3 DEF EndBlock, ScanDefines
<1> QED BY <1>1, <1>2, <1>3, ScanStepDefines, DispatchDefines DEF AnalysisNext, DoBlock

\* Table DDL, notes and the scan itself leave the types alone.
LEMMA OtherStepsKeepTypes ==
    ASSUME \/ TableStatement
           \/ \E body \in Bodies : ScanDoBlock(body)
           \/ NoDollarBody \/ NoDdl \/ TryAnchor \/ PastTheCap \/ TryTemplate
           \/ DispatchTable \/ DispatchDrop \/ PassOver \/ EndBlock
    PROVE  session' = session /\ types' = types
<1>1. CASE TableStatement
  <2>1. ASSUME NEW t \in Table, NEW create \in Creates, NEW ignore_marker \in BOOLEAN,
               CreateTable(t, create, ignore_marker)
        PROVE  session' = session
    BY <2>1 DEF CreateTable, SkipTemporary, SkipCtas, KeepExisting, Establish
  <2>2. ASSUME NEW t \in Table, AlterOperation(t) PROVE session' = session
    BY <2>2 DEF AlterOperation, Unanalyzable, AddColumn, DropColumns, EditColumn,
                RenameColumn, SetColumnType, SetNotNull
  <2>3. ASSUME NEW t \in Table, Rename(t) PROVE session' = session
    <3>1. \A old, new : RenameColumn(t, old, new) => session' = session
      BY DEF RenameColumn
    <3>2. \A new : RenameTable(t, new) => session' = session
      BY DEF RenameTable
    <3>3. Unanalyzable(t) => session' = session
      BY DEF Unanalyzable
    <3> QED BY <2>3, <3>1, <3>2, <3>3 DEF Rename
  <2>4. ASSUME NEW names, NEW if_exists, DropTables(names, if_exists) PROVE session' = session
    BY <2>4 DEF DropTables
  <2>5. ASSUME NEW t, NEW sniffs, Skipped(sniffs, t) PROVE session' = session
    BY <2>5 DEF Skipped
  <2>6. UnusedIgnoreMarker => session' = session
    BY DEF UnusedIgnoreMarker
  <2>7. types' = types
    BY <1>1 DEF TableStatement
  <2> QED BY <1>1, <2>1, <2>2, <2>3, <2>4, <2>5, <2>6, <2>7 DEF TableStatement
<1>2. CASE \E body \in Bodies : ScanDoBlock(body)
  BY <1>2 DEF ScanDoBlock, vars
<1>3. CASE NoDollarBody \/ EndBlock
  BY <1>3 DEF NoDollarBody, EndBlock, DoBlockNote, vars
<1>4. CASE NoDdl \/ TryAnchor \/ PastTheCap \/ TryTemplate
  BY <1>4 DEF NoDdl, TryAnchor, PastTheCap, TryTemplate, Found, GiveUp, Leave, vars
<1>5. CASE DispatchTable \/ DispatchDrop
  BY <1>5 DEF DispatchTable, DispatchDrop, ConditionalTableDdl
<1>6. CASE PassOver
  BY <1>6 DEF PassOver, vars
<1> QED BY <1>1, <1>2, <1>3, <1>4, <1>5, <1>6

LEMMA TypesStep ==
    ASSUME ~GuardedRedefinition, BlocksOnlyDefine \/ OwnNames,
           ScanOK, TypeInv, [AnalysisNext]_allvars
    PROVE  TypeInv'
<1>1. ASSUME NEW op \in TypeOps, TypeStatement(op)
      PROVE  Agree(session', types')
  BY <1>1, ExecutedAgrees DEF TypeStatement, TypeInv
<1>2. ASSUME DispatchType PROVE Agree(session', types')
  <2> DEFINE op == Head(ops)
  <2>1. op \in TypeOps
    <3>1. op \in FoundOps(dynamic) /\ op \in TypeOp
      BY <1>2, FirstOperation DEF DispatchType, Dispatching
    <3> QED BY <3>1, KindsOfOps DEF FoundOps
  <2>2. Repeats(op) /\ FoldTypeOp(op)
    BY <1>2 DEF DispatchType
  <2>3. OwnNames \/ OnlyDefines(op)
    <3>1. op \in Elements(ops)
      <4> HIDE DEF FoundOps
      <4> QED BY <1>2, TailElements DEF ScanOK, DispatchType, Dispatching
    <3> QED BY <1>2, <3>1 DEF TypeInv, ScanDefines, DispatchType
  <2>4. \/ types' = types
        \/ Accepted(op) /\ types' \in Executed(op)
    BY <1>2 DEF DispatchType
  <2> HIDE DEF op
  <2> QED BY <2>1, <2>2, <2>3, <2>4, ExecutedAgrees, FoldedAgrees DEF TypeInv
<1>3. ASSUME session' = session /\ types' = types PROVE Agree(session', types')
  BY <1>3 DEF TypeInv
<1>4. Agree(session', types')
  <2>1. CASE UNCHANGED allvars
    BY <1>3, <2>1 DEF allvars, vars
  <2> QED BY <1>1, <1>2, <1>3, <2>1, OtherStepsKeepTypes
          DEF AnalysisNext, Statement, DoBlock, Dispatch
<1>5. (OwnNames \/ ScanDefines)'
  BY ScanDefinesStep DEF TypeInv, OwnNames
<1> QED BY <1>4, <1>5 DEF TypeInv, Agree, AgreeOn

\* A type that Postgres has and the catalog claims to know is stored as the catalog
\* says, whichever DO blocks were folded as if they had run: if what a guard keeps from
\* running repeats the type there is, and blocks only define types -- or also drop them, when
\* no name is another type's as well (lib.rs scan_do_block).
THEOREM FoldedTypesAlwaysSafe ==
    ASSUME ~GuardedRedefinition, BlocksOnlyDefine \/ OwnNames
    PROVE  AnalysisSpec => []FoldedTypesLayoutSafe
<1>1. AnalysisInit => TypeInv
  BY DEF AnalysisInit, Init, TypeInv, Agree, EmptyMap, ScanDefines, Elements
<1>2. ScanOK /\ TypeInv /\ [AnalysisNext]_allvars => TypeInv'
  BY TypesStep
<1>3. ASSUME TypeInv PROVE FoldedTypesLayoutSafe
  <2>1. ASSUME NEW name \in DOMAIN types,
               ResolveScalar(session, name, FALSE).known
        PROVE  ResolveScalar(session, name, FALSE).kind = types[name].kind
    <3>1. ResolveScalar(session, name, FALSE).kind = ResolveScalar(types, name, FALSE).kind
      BY <1>3, <2>1, ScalarAgrees DEF TypeInv
    <3> QED BY <2>1, <3>1 DEF ResolveScalar, Resolved
  <2> QED BY <2>1 DEF FoldedTypesLayoutSafe, Resolve
<1> QED BY <1>1, <1>2, <1>3, ScanOKAlways, PTL DEF AnalysisSpec

-----------------------------------------------------------------------------
(* The attributes of a relation. *)

Attr == [name : Column, dropped : BOOLEAN]

DroppedIn(attrs) == {attr \in Elements(attrs) : attr.dropped}

Names(attrs) == [i \in DOMAIN attrs |-> attrs[i].name]

\* Postgres brings the collections it is written with; they are the same ones.
LEMMA SameCollections ==
    /\ \A seq, out : Pg!Retain(seq, out) = Retain(seq, out)
    /\ \A seq : Pg!Elements(seq) = Elements(seq)
    /\ \A map, key, value : Pg!Put(map, key, value) = Put(map, key, value)
    /\ \A S : Pg!Cardinality(S) = Cardinality(S)
<1>1. \A seq, out : Pg!Retain(seq, out) = Retain(seq, out)
  BY DEF Pg!Retain, Retain
<1>2. \A S : Pg!Cardinality(S) = Cardinality(S)
  BY DEF Pg!Cardinality, Cardinality
<1> QED BY <1>1, <1>2 DEF Pg!Elements, Elements, Pg!Put, Put

LEMMA LiveForm ==
    ASSUME NEW attrs
    PROVE  Pg!Live(attrs) = Names(Retain(attrs, DroppedIn(attrs)))
BY SameCollections DEF Pg!Live, Names, DroppedIn

LEMMA NamesTyped ==
    ASSUME NEW attrs \in Seq(Attr)
    PROVE  /\ Names(attrs) \in Seq(Column)
           /\ Len(Names(attrs)) = Len(attrs) /\ DOMAIN Names(attrs) = DOMAIN attrs
           /\ \A i \in DOMAIN attrs : Names(attrs)[i] = attrs[i].name
<1>1. Len(attrs) \in Nat /\ DOMAIN attrs = 1..Len(attrs)
      /\ \A i \in 1..Len(attrs) : attrs[i] \in Attr
  OBVIOUS
<1>2. Names(attrs) = [i \in 1..Len(attrs) |-> attrs[i].name]
  BY <1>1 DEF Names
<1>3. \A attr \in Attr : attr.name \in Column
  BY DEF Attr
<1> QED BY <1>1, <1>2, <1>3

LEMMA NamesAppend ==
    ASSUME NEW attrs \in Seq(Attr), NEW attr \in Attr
    PROVE  Names(Append(attrs, attr)) = Append(Names(attrs), attr.name)
<1>1. /\ Names(attrs) \in Seq(Column) /\ Len(Names(attrs)) = Len(attrs)
      /\ \A i \in DOMAIN attrs : Names(attrs)[i] = attrs[i].name
  BY NamesTyped
<1>2. /\ Append(attrs, attr) \in Seq(Attr) /\ attr.name \in Column
      /\ Len(attrs) \in Nat /\ DOMAIN Append(attrs, attr) = 1..(Len(attrs) + 1)
      /\ Len(Append(attrs, attr)) = Len(attrs) + 1
  <2>1. attr.name \in Column
    BY DEF Attr
  <2> QED BY <2>1
<1>3. /\ Names(Append(attrs, attr)) \in Seq(Column)
      /\ Len(Names(Append(attrs, attr))) = Len(attrs) + 1
      /\ \A i \in 1..(Len(attrs) + 1) :
             Names(Append(attrs, attr))[i] = Append(attrs, attr)[i].name
  <2> DEFINE longer == Append(attrs, attr)
  <2> HIDE DEF longer
  <2>1. longer \in Seq(Attr) /\ DOMAIN longer = 1..(Len(attrs) + 1)
        /\ Len(longer) = Len(attrs) + 1
    BY <1>2 DEF longer
  <2>2. /\ Names(longer) \in Seq(Column) /\ Len(Names(longer)) = Len(attrs) + 1
        /\ \A i \in 1..(Len(attrs) + 1) : Names(longer)[i] = longer[i].name
    BY <2>1, NamesTyped
  <2> QED BY <2>2 DEF longer
<1>4. \A i \in 1..(Len(attrs) + 1) :
          Names(Append(attrs, attr))[i] = Append(Names(attrs), attr.name)[i]
  BY <1>1, <1>2, <1>3
<1> QED BY <1>1, <1>2, <1>3, <1>4

\* The live columns are the attributes that are not dropped.
LEMMA LiveTyped ==
    ASSUME NEW attrs \in Seq(Attr)
    PROVE  /\ Retain(attrs, DroppedIn(attrs)) \in Seq(Attr)
           /\ Pg!Live(attrs) \in Seq(Column)
           /\ \A column \in Column : column \in Elements(Pg!Live(attrs)) <=>
                  \E i \in DOMAIN attrs : attrs[i] = Pg!Attribute(column)
<1> DEFINE kept == Retain(attrs, DroppedIn(attrs))
<1>1. kept \in Seq(Attr) /\ Elements(kept) = Elements(attrs) \ DroppedIn(attrs)
  BY RetainFacts
<1>2. Pg!Live(attrs) = Names(kept)
  BY LiveForm
<1>3. /\ Names(kept) \in Seq(Column) /\ DOMAIN Names(kept) = DOMAIN kept
      /\ \A i \in DOMAIN kept : Names(kept)[i] = kept[i].name
  BY <1>1, NamesTyped
<1>4. \A attr \in Elements(attrs) : attr \in Attr
  BY DEF Elements
<1>5. ASSUME NEW column \in Column
      PROVE  column \in Elements(Names(kept)) <=> Pg!Attribute(column) \in Elements(attrs)
  <2>1. ASSUME NEW attr \in Elements(kept), attr.name = column
        PROVE  attr = Pg!Attribute(column)
    BY <1>1, <1>4, <2>1 DEF Pg!Attribute, Attr, DroppedIn
  <2>2. Pg!Attribute(column) \in Elements(attrs) => Pg!Attribute(column) \in Elements(kept)
    BY <1>1 DEF DroppedIn, Pg!Attribute
  <2>3. column \in Elements(Names(kept)) <=> \E attr \in Elements(kept) : attr.name = column
    BY <1>3 DEF Elements
  <2>4. Pg!Attribute(column).name = column
    BY DEF Pg!Attribute
  <2> QED BY <1>1, <2>1, <2>2, <2>3, <2>4
<1>6. \A x : x \in Elements(attrs) <=> \E i \in DOMAIN attrs : attrs[i] = x
  BY DEF Elements
<1> QED BY <1>1, <1>2, <1>3, <1>5, <1>6

\* Attributes that were never dropped.
LEMMA LiveAttributes ==
    ASSUME NEW names \in Seq(Column)
    PROVE  /\ Pg!Attributes(names) \in Seq(Attr)
           /\ Pg!Live(Pg!Attributes(names)) = names
           /\ Pg!DroppedSlots(Pg!Attributes(names)) = 0
<1> DEFINE attrs == Pg!Attributes(names)
<1>1. /\ Len(names) \in Nat /\ DOMAIN names = 1..Len(names)
      /\ \A i \in 1..Len(names) : names[i] \in Column
  OBVIOUS
<1>2. attrs = [i \in 1..Len(names) |-> [name |-> names[i], dropped |-> FALSE]]
  BY <1>1 DEF Pg!Attributes, Pg!Attribute
<1>3. \A i \in 1..Len(names) : [name |-> names[i], dropped |-> FALSE] \in Attr
  BY <1>1 DEF Attr
<1> HIDE DEF attrs
<1>4. /\ attrs \in Seq(Attr) /\ Len(attrs) = Len(names)
      /\ \A i \in 1..Len(names) : attrs[i].name = names[i] /\ ~attrs[i].dropped
  BY <1>1, <1>2, <1>3
<1>5. Retain(attrs, DroppedIn(attrs)) = attrs
  <2>1. \A i \in DOMAIN attrs : attrs[i] \notin DroppedIn(attrs)
    BY <1>1, <1>4 DEF DroppedIn
  <2> QED BY <1>4, <2>1, RetainAll
<1>6. Names(attrs) = names
  BY <1>1, <1>4, NamesTyped
<1>7. Pg!DroppedSlots(attrs) = 0
  <2>1. {i \in DOMAIN attrs : attrs[i].dropped} = {}
    BY <1>1, <1>4
  <2> QED BY <2>1, FS_EmptySet, SameCollections DEF Pg!DroppedSlots
<1> QED BY <1>4, <1>5, <1>6, <1>7, LiveForm DEF attrs

-----------------------------------------------------------------------------
(* The three edits of attributes. *)

LEMMA LiveAppended ==
    ASSUME NEW attrs \in Seq(Attr), NEW column \in Column
    PROVE  /\ Append(attrs, Pg!Attribute(column)) \in Seq(Attr)
           /\ Pg!Live(Append(attrs, Pg!Attribute(column))) = Append(Pg!Live(attrs), column)
           /\ Pg!DroppedSlots(Append(attrs, Pg!Attribute(column))) = Pg!DroppedSlots(attrs)
<1> DEFINE attr == Pg!Attribute(column)
           longer == Append(attrs, attr)
           D == DroppedIn(attrs)
<1>1. attr \in Attr /\ attr.name = column /\ ~attr.dropped
  BY DEF Pg!Attribute, Attr
<1> HIDE DEF attr
<1>2. longer \in Seq(Attr)
  BY <1>1
<1>3. DroppedIn(longer) = D /\ attr \notin D
  <2>1. Elements(longer) = Elements(attrs) \cup {attr}
    BY <1>1, AppendElements
  <2> QED BY <1>1, <2>1 DEF DroppedIn
<1>4. Retain(longer, D) = Append(Retain(attrs, D), attr)
  BY <1>1, <1>3, RetainAppend
<1>5. Pg!Live(longer) = Append(Pg!Live(attrs), column)
  <2>1. Pg!Live(longer) = Names(Retain(longer, D)) /\ Pg!Live(attrs) = Names(Retain(attrs, D))
    BY <1>3, LiveForm
  <2>2. Retain(attrs, D) \in Seq(Attr)
    BY LiveTyped
  <2> HIDE DEF D, longer
  <2> QED BY <1>1, <1>4, <2>1, <2>2, NamesAppend
<1>6. Pg!DroppedSlots(longer) = Pg!DroppedSlots(attrs)
  <2>1. {i \in DOMAIN longer : longer[i].dropped} = {i \in DOMAIN attrs : attrs[i].dropped}
    <3>1. /\ DOMAIN attrs = 1..Len(attrs) /\ Len(attrs) \in Nat
          /\ DOMAIN longer = 1..(Len(attrs) + 1) /\ longer[Len(attrs) + 1] = attr
          /\ \A i \in 1..Len(attrs) : longer[i] = attrs[i]
      BY <1>1
    <3> HIDE DEF longer
    <3>2. \A i \in 1..(Len(attrs) + 1) : i \in 1..Len(attrs) \/ i = Len(attrs) + 1
      BY <3>1
    <3>3. \A i \in 1..Len(attrs) : i \in 1..(Len(attrs) + 1)
      BY <3>1
    <3> QED BY <1>1, <3>1, <3>2, <3>3
  <2> QED BY <2>1 DEF Pg!DroppedSlots
<1> QED BY <1>2, <1>5, <1>6 DEF attr

LEMMA EditNamedTyped ==
    ASSUME NEW attrs \in Seq(Attr), NEW column, NEW edited \in Attr
    PROVE  /\ Pg!EditNamed(attrs, column, edited) \in Seq(Attr)
           /\ Len(Pg!EditNamed(attrs, column, edited)) = Len(attrs)
           /\ DOMAIN Pg!EditNamed(attrs, column, edited) = DOMAIN attrs
           /\ \A i \in DOMAIN attrs :
                  Pg!EditNamed(attrs, column, edited)[i] =
                      IF attrs[i] = Pg!Attribute(column) THEN edited ELSE attrs[i]
<1>1. Len(attrs) \in Nat /\ DOMAIN attrs = 1..Len(attrs)
      /\ \A i \in 1..Len(attrs) : attrs[i] \in Attr
  OBVIOUS
<1>2. Pg!EditNamed(attrs, column, edited) =
          [i \in 1..Len(attrs) |-> IF attrs[i] = Pg!Attribute(column) THEN edited ELSE attrs[i]]
  BY <1>1 DEF Pg!EditNamed
<1> QED BY <1>1, <1>2

\* What a column's drop leaves of the live columns.
LEMMA LiveDropped ==
    ASSUME NEW attrs \in Seq(Attr), NEW column \in Column, NEW edited \in Attr,
           edited.dropped
    PROVE  Pg!Live(Pg!EditNamed(attrs, column, edited)) = Retain(Pg!Live(attrs), {column})
<1> DEFINE after == Pg!EditNamed(attrs, column, edited)
           D == DroppedIn(attrs)
           E == DroppedIn(after)
           Left(kept, left) == Retain(Names(kept), {column}) = Names(left)
           G == {p \in Nat \X Seq(Attr) \X Seq(Attr) : Left(p[2], p[3])}
<1>1. edited # Pg!Attribute(column)
  BY DEF Pg!Attribute
<1>2. /\ after \in Seq(Attr) /\ Len(after) = Len(attrs) /\ DOMAIN after = DOMAIN attrs
      /\ \A i \in DOMAIN attrs :
             after[i] = IF attrs[i] = Pg!Attribute(column) THEN edited ELSE attrs[i]
  BY EditNamedTyped
<1>3. \A m \in Nat, kept, left \in Seq(Attr) : << m, kept, left >> \in G <=> Left(kept, left)
  OBVIOUS
<1> HIDE DEF G, after
<1>4. << 0, << >>, << >> >> \in G
  <2>1. << >> \in Seq(Attr) /\ << >> \in Seq(Column) /\ 0 \in Nat /\ Names(<< >>) = << >>
    BY DEF Names
  <2>2. Retain(<< >>, {column}) = << >>
    BY RetainNone
  <2>3. Left(<< >>, << >>)
    BY <2>1, <2>2
  <2> QED BY <1>3, <2>1, <2>3
<1>5. \A i \in 1..Len(attrs), kept \in Seq(Attr), left \in Seq(Attr) :
          << i - 1, kept, left >> \in G =>
              << i, IF attrs[i] \in D THEN kept ELSE Append(kept, attrs[i]),
                 IF after[i] \in E THEN left ELSE Append(left, after[i]) >> \in G
  <2> SUFFICES ASSUME NEW i \in 1..Len(attrs), NEW kept \in Seq(Attr), NEW left \in Seq(Attr),
                      << i - 1, kept, left >> \in G
               PROVE  << i, IF attrs[i] \in D THEN kept ELSE Append(kept, attrs[i]),
                         IF after[i] \in E THEN left ELSE Append(left, after[i]) >> \in G
    OBVIOUS
  <2>1. /\ i \in Nat /\ i - 1 \in Nat /\ attrs[i] \in Attr /\ i \in DOMAIN attrs
        /\ Len(attrs) \in Nat
    OBVIOUS
  <2>2. Left(kept, left)
    BY <1>3, <2>1
  <2>3. /\ attrs[i] \in D <=> attrs[i].dropped
        /\ after[i] \in E <=> after[i].dropped
    BY <1>2, <2>1 DEF DroppedIn, Elements
  <2>4. Names(kept) \in Seq(Column)
    BY NamesTyped
  <2>5. CASE attrs[i].dropped
    <3>1. attrs[i] # Pg!Attribute(column)
      BY <2>5 DEF Pg!Attribute
    <3>2. after[i] = attrs[i]
      BY <1>2, <2>1, <3>1
    <3> QED BY <1>3, <2>1, <2>2, <2>3, <2>5, <3>2
  <2>6. CASE attrs[i] = Pg!Attribute(column)
    <3>1. ~attrs[i].dropped /\ attrs[i].name = column
      BY <2>6 DEF Pg!Attribute
    <3>2. after[i] = edited
      BY <1>2, <2>1, <2>6
    <3>3. Append(kept, attrs[i]) \in Seq(Attr)
      BY <2>1
    <3>4. Names(Append(kept, attrs[i])) = Append(Names(kept), column)
      BY <2>1, <3>1, NamesAppend
    <3>5. Retain(Append(Names(kept), column), {column}) = Retain(Names(kept), {column})
      BY <2>4, RetainAppend
    <3>6. Left(Append(kept, attrs[i]), left)
      BY <2>2, <3>4, <3>5
    <3> QED BY <1>1, <1>3, <2>1, <2>3, <3>1, <3>2, <3>3, <3>6
  <2>7. CASE ~attrs[i].dropped /\ attrs[i] # Pg!Attribute(column)
    <3>1. PICK name \in Column : attrs[i].name = name /\ name \notin {column}
      BY <2>1, <2>7 DEF Attr, Pg!Attribute
    <3>2. after[i] = attrs[i]
      BY <1>2, <2>1, <2>7
    <3>3. Append(kept, attrs[i]) \in Seq(Attr) /\ Append(left, attrs[i]) \in Seq(Attr)
      BY <2>1
    <3>4. /\ Names(Append(kept, attrs[i])) = Append(Names(kept), name)
          /\ Names(Append(left, attrs[i])) = Append(Names(left), name)
      BY <2>1, <3>1, NamesAppend
    <3>5. Retain(Append(Names(kept), name), {column})
              = Append(Retain(Names(kept), {column}), name)
      BY <2>4, <3>1, RetainAppend
    <3>6. Left(Append(kept, attrs[i]), Append(left, attrs[i]))
      BY <2>2, <3>4, <3>5
    <3> QED BY <1>3, <2>1, <2>3, <2>7, <3>2, <3>3, <3>6
  <2> QED BY <2>5, <2>6, <2>7
<1>6. << Len(attrs), Retain(attrs, D), Retain(after, E) >> \in G
  <2>1. after \in Seq(Attr) /\ Len(after) = Len(attrs)
    BY <1>2
  <2> HIDE DEF D, E
  <2> QED BY <1>4, <1>5, <2>1, RetainTogether
<1>7. Retain(attrs, D) \in Seq(Attr) /\ Retain(after, E) \in Seq(Attr) /\ Len(attrs) \in Nat
  BY <1>2, RetainFacts
<1>8. Left(Retain(attrs, D), Retain(after, E))
  BY <1>3, <1>6, <1>7
<1> QED BY <1>8, LiveForm DEF after

\* Two attributes of one name are not both live.
LEMMA LiveOnce ==
    ASSUME NEW attrs \in Seq(Attr), Injective(Pg!Live(attrs)), NEW column \in Column,
           NEW j \in DOMAIN attrs, NEW k \in DOMAIN attrs,
           attrs[j] = Pg!Attribute(column), attrs[k] = Pg!Attribute(column)
    PROVE  j = k
<1> DEFINE kept == Retain(attrs, DroppedIn(attrs))
<1>1. Pg!Attribute(column) \notin DroppedIn(attrs)
  BY DEF DroppedIn, Pg!Attribute
<1>2. kept \in Seq(Attr) /\ Pg!Live(attrs) = Names(kept)
  BY LiveTyped, LiveForm
<1>3. ASSUME NEW x \in DOMAIN attrs, NEW y \in DOMAIN attrs, x < y,
             attrs[x] = Pg!Attribute(column), attrs[y] = Pg!Attribute(column)
      PROVE  FALSE
  <2>1. PICK v \in DOMAIN kept, w \in DOMAIN kept :
            v < w /\ kept[v] = Pg!Attribute(column) /\ kept[w] = Pg!Attribute(column)
    BY <1>1, <1>3, RetainPair
  <2>2. v \in DOMAIN Names(kept) /\ w \in DOMAIN Names(kept) /\ Names(kept)[v] = Names(kept)[w]
    BY <2>1 DEF Names
  <2>3. v = w
    BY <1>2, <2>2 DEF Injective
  <2>4. v \in Nat
    BY <1>2
  <2> QED BY <2>1, <2>3, <2>4
<1>4. j \in Nat /\ k \in Nat
  OBVIOUS
<1> QED BY <1>3, <1>4

LEMMA SlotDropped ==
    ASSUME NEW attrs \in Seq(Attr), Injective(Pg!Live(attrs)), NEW column \in Column,
           column \in Elements(Pg!Live(attrs)),
           NEW edited \in Attr, edited.dropped
    PROVE  Pg!DroppedSlots(Pg!EditNamed(attrs, column, edited)) = Pg!DroppedSlots(attrs) + 1
<1> DEFINE after == Pg!EditNamed(attrs, column, edited)
           D == {i \in DOMAIN attrs : attrs[i].dropped}
           E == {i \in DOMAIN attrs : after[i].dropped}
<1>2. /\ DOMAIN after = DOMAIN attrs
      /\ \A i \in DOMAIN attrs :
             after[i] = IF attrs[i] = Pg!Attribute(column) THEN edited ELSE attrs[i]
  BY EditNamedTyped
<1> HIDE DEF after
<1>3. PICK k \in DOMAIN attrs : attrs[k] = Pg!Attribute(column)
  BY LiveTyped
<1>4. \A i \in DOMAIN attrs : attrs[i] = Pg!Attribute(column) => i = k
  BY <1>3, LiveOnce
<1>5. ~attrs[k].dropped
  BY <1>3 DEF Pg!Attribute
<1>6. E = D \cup {k} /\ k \notin D
  BY <1>2, <1>3, <1>4, <1>5
<1>7. IsFiniteSet(D)
  <2>1. DOMAIN attrs = 1..Len(attrs) /\ Len(attrs) \in Nat
    OBVIOUS
  <2>2. IsFiniteSet(1..Len(attrs))
    BY <2>1, FS_Interval
  <2> QED BY <2>1, <2>2, FS_Subset
<1>8. Cardinality(E) = Cardinality(D) + 1
  <2> HIDE DEF D, E
  <2> QED BY <1>6, <1>7, FS_AddElement
<1> QED BY <1>2, <1>8, SameCollections DEF Pg!DroppedSlots, after

\* What a column's rename leaves of the live columns.
LEMMA LiveRenamed ==
    ASSUME NEW attrs \in Seq(Attr), NEW old \in Column, NEW new \in Column
    PROVE  /\ Pg!Live(Pg!EditNamed(attrs, old, Pg!Attribute(new))) =
                  [i \in DOMAIN Pg!Live(attrs) |->
                      IF Pg!Live(attrs)[i] = old THEN new ELSE Pg!Live(attrs)[i]]
           /\ Pg!DroppedSlots(Pg!EditNamed(attrs, old, Pg!Attribute(new))) =
                  Pg!DroppedSlots(attrs)
<1> DEFINE after == Pg!EditNamed(attrs, old, Pg!Attribute(new))
           D == DroppedIn(attrs)
           E == DroppedIn(after)
           Left(kept, left) ==
               /\ Len(left) = Len(kept)
               /\ \A i \in 1..Len(kept) :
                      left[i].name = IF kept[i].name = old THEN new ELSE kept[i].name
           G == {p \in Nat \X Seq(Attr) \X Seq(Attr) : Left(p[2], p[3])}
<1>1. /\ Pg!Attribute(new) \in Attr /\ ~Pg!Attribute(new).dropped
      /\ ~Pg!Attribute(old).dropped
      /\ Pg!Attribute(new).name = new /\ Pg!Attribute(old).name = old
      /\ \A attr \in Attr : ~attr.dropped => (attr.name = old <=> attr = Pg!Attribute(old))
  BY DEF Attr, Pg!Attribute
<1>2. /\ after \in Seq(Attr) /\ Len(after) = Len(attrs) /\ DOMAIN after = DOMAIN attrs
      /\ \A i \in DOMAIN attrs :
             after[i] = IF attrs[i] = Pg!Attribute(old) THEN Pg!Attribute(new) ELSE attrs[i]
  BY <1>1, EditNamedTyped
<1>3. \A m \in Nat, kept, left \in Seq(Attr) : << m, kept, left >> \in G <=> Left(kept, left)
  OBVIOUS
<1> HIDE DEF G, after
<1>4. << 0, << >>, << >> >> \in G
  <2>1. << >> \in Seq(Attr) /\ 0 \in Nat
    OBVIOUS
  <2>2. Left(<< >>, << >>)
    OBVIOUS
  <2> QED BY <1>3, <2>1, <2>2
<1>5. \A i \in 1..Len(attrs), kept \in Seq(Attr), left \in Seq(Attr) :
          << i - 1, kept, left >> \in G =>
              << i, IF attrs[i] \in D THEN kept ELSE Append(kept, attrs[i]),
                 IF after[i] \in E THEN left ELSE Append(left, after[i]) >> \in G
  <2> SUFFICES ASSUME NEW i \in 1..Len(attrs), NEW kept \in Seq(Attr), NEW left \in Seq(Attr),
                      << i - 1, kept, left >> \in G
               PROVE  << i, IF attrs[i] \in D THEN kept ELSE Append(kept, attrs[i]),
                         IF after[i] \in E THEN left ELSE Append(left, after[i]) >> \in G
    OBVIOUS
  <2>1. /\ i \in Nat /\ i - 1 \in Nat /\ attrs[i] \in Attr /\ i \in DOMAIN attrs
        /\ Len(attrs) \in Nat /\ after[i] \in Attr
    BY <1>2
  <2>2. Left(kept, left)
    BY <1>3, <2>1
  <2>3. /\ attrs[i] \in D <=> attrs[i].dropped
        /\ after[i] \in E <=> after[i].dropped
    BY <1>2, <2>1 DEF DroppedIn, Elements
  <2>4. after[i].dropped <=> attrs[i].dropped
    BY <1>1, <1>2, <2>1
  <2>5. CASE attrs[i].dropped
    BY <1>3, <2>1, <2>2, <2>3, <2>4, <2>5
  <2>6. CASE ~attrs[i].dropped
    <3> DEFINE more == Append(kept, attrs[i])
               less == Append(left, after[i])
    <3>1. /\ more \in Seq(Attr) /\ less \in Seq(Attr)
          /\ Len(kept) \in Nat
          /\ Len(more) = Len(kept) + 1 /\ Len(less) = Len(kept) + 1
          /\ more[Len(kept) + 1] = attrs[i] /\ less[Len(kept) + 1] = after[i]
          /\ \A x \in 1..Len(kept) : more[x] = kept[x] /\ less[x] = left[x]
      BY <2>1, <2>2
    <3> HIDE DEF more, less
    <3>2. after[i].name = IF attrs[i].name = old THEN new ELSE attrs[i].name
      BY <1>1, <1>2, <2>1, <2>6
    <3>3. \A x \in 1..(Len(kept) + 1) : x \in 1..Len(kept) \/ x = Len(kept) + 1
      BY <3>1
    <3>4. Left(more, less)
      BY <2>2, <3>1, <3>2, <3>3
    <3>5. << i, more, less >> \in G
      BY <1>3, <2>1, <3>1, <3>4
    <3> QED BY <2>3, <2>4, <2>6, <3>5 DEF more, less
  <2> QED BY <2>5, <2>6
<1>6. << Len(attrs), Retain(attrs, D), Retain(after, E) >> \in G
  <2>1. after \in Seq(Attr) /\ Len(after) = Len(attrs)
    BY <1>2
  <2> HIDE DEF D, E, Left
  <2> QED BY <1>4, <1>5, <2>1, RetainTogether, SMTT(40)
<1>7. Retain(attrs, D) \in Seq(Attr) /\ Retain(after, E) \in Seq(Attr) /\ Len(attrs) \in Nat
  BY <1>2, RetainFacts
<1>8. Left(Retain(attrs, D), Retain(after, E))
  BY <1>3, <1>6, <1>7
<1>9. Pg!Live(after) = [i \in DOMAIN Pg!Live(attrs) |->
                           IF Pg!Live(attrs)[i] = old THEN new ELSE Pg!Live(attrs)[i]]
  <2>1. Pg!Live(attrs) = Names(Retain(attrs, D)) /\ Pg!Live(after) = Names(Retain(after, E))
    BY LiveForm
  <2> DEFINE kept == Retain(attrs, D)
             left == Retain(after, E)
  <2>2. /\ DOMAIN kept = 1..Len(kept) /\ DOMAIN left = DOMAIN kept
        /\ \A i \in DOMAIN kept :
               left[i].name = IF kept[i].name = old THEN new ELSE kept[i].name
    BY <1>7, <1>8
  <2> HIDE DEF kept, left
  <2>3. Names(left) = [i \in DOMAIN Names(kept) |->
                          IF Names(kept)[i] = old THEN new ELSE Names(kept)[i]]
    BY <2>2 DEF Names
  <2> QED BY <2>1, <2>3 DEF kept, left
<1>10. Pg!DroppedSlots(after) = Pg!DroppedSlots(attrs)
  <2>1. {i \in DOMAIN after : after[i].dropped} = {i \in DOMAIN attrs : attrs[i].dropped}
    BY <1>1, <1>2
  <2> QED BY <2>1 DEF Pg!DroppedSlots
<1> QED BY <1>9, <1>10 DEF after

-----------------------------------------------------------------------------
(* The modeled columns, by their names. *)

KeysOf(columns) == [i \in DOMAIN columns |-> columns[i].key]

LEMMA KeysTyped ==
    ASSUME NEW columns \in Seq(FoldedColumn)
    PROVE  /\ KeysOf(columns) \in Seq(Column)
           /\ Len(KeysOf(columns)) = Len(columns) /\ DOMAIN KeysOf(columns) = DOMAIN columns
           /\ \A i \in DOMAIN columns : KeysOf(columns)[i] = columns[i].key
<1>1. Len(columns) \in Nat /\ DOMAIN columns = 1..Len(columns)
      /\ \A i \in 1..Len(columns) : columns[i] \in FoldedColumn
  OBVIOUS
<1>2. KeysOf(columns) = [i \in 1..Len(columns) |-> columns[i].key]
  BY <1>1 DEF KeysOf
<1>3. \A column \in FoldedColumn : column.key \in Column
  BY DEF FoldedColumn
<1> QED BY <1>1, <1>2, <1>3

LEMMA HasKey ==
    ASSUME NEW table, NEW key
    PROVE  HasColumn(table, key) <=> key \in Elements(Keys(table))
BY DEF HasColumn, Keys, Elements

LEMMA KeysAppended ==
    ASSUME NEW columns \in Seq(FoldedColumn), NEW column \in FoldedColumn
    PROVE  KeysOf(Append(columns, column)) = Append(KeysOf(columns), column.key)
<1> DEFINE longer == Append(columns, column)
<1>1. /\ longer \in Seq(FoldedColumn) /\ Len(columns) \in Nat
      /\ Len(longer) = Len(columns) + 1 /\ DOMAIN longer = 1..(Len(columns) + 1)
      /\ longer[Len(columns) + 1] = column
      /\ \A i \in 1..Len(columns) : longer[i] = columns[i]
  OBVIOUS
<1> HIDE DEF longer
<1>2. /\ KeysOf(columns) \in Seq(Column) /\ Len(KeysOf(columns)) = Len(columns)
      /\ \A i \in 1..Len(columns) : KeysOf(columns)[i] = columns[i].key
  BY KeysTyped
<1>3. /\ KeysOf(longer) \in Seq(Column) /\ Len(KeysOf(longer)) = Len(columns) + 1
      /\ \A i \in 1..(Len(columns) + 1) : KeysOf(longer)[i] = longer[i].key
  BY <1>1, KeysTyped
<1>4. column.key \in Column
  BY DEF FoldedColumn
<1>5. \A i \in 1..(Len(columns) + 1) : KeysOf(longer)[i] = Append(KeysOf(columns), column.key)[i]
  BY <1>1, <1>2, <1>3, <1>4
<1>6. KeysOf(longer) = Append(KeysOf(columns), column.key)
  BY <1>1, <1>2, <1>3, <1>4, <1>5
<1> QED BY <1>6 DEF longer

LEMMA KeysRetained ==
    ASSUME NEW columns \in Seq(FoldedColumn), NEW key
    PROVE  KeysOf(Retain(columns, {c \in Elements(columns) : c.key = key}))
               = Retain(KeysOf(columns), {key})
<1> DEFINE out == {c \in Elements(columns) : c.key = key}
           keys == KeysOf(columns)
           Left(kept, left) == left = KeysOf(kept)
           G == {p \in Nat \X Seq(FoldedColumn) \X Seq(Column) : Left(p[2], p[3])}
<1>1. /\ keys \in Seq(Column) /\ Len(keys) = Len(columns)
      /\ \A i \in 1..Len(columns) : keys[i] = columns[i].key
  BY KeysTyped
<1>2. \A m \in Nat, kept \in Seq(FoldedColumn), left \in Seq(Column) :
          << m, kept, left >> \in G <=> Left(kept, left)
  OBVIOUS
<1> HIDE DEF G, keys
<1>3. << 0, << >>, << >> >> \in G
  <2>1. << >> \in Seq(FoldedColumn) /\ << >> \in Seq(Column) /\ 0 \in Nat
    OBVIOUS
  <2>2. Left(<< >>, << >>)
    BY DEF KeysOf
  <2> QED BY <1>2, <2>1, <2>2
<1>4. \A i \in 1..Len(columns), kept \in Seq(FoldedColumn), left \in Seq(Column) :
          << i - 1, kept, left >> \in G =>
              << i, IF columns[i] \in out THEN kept ELSE Append(kept, columns[i]),
                 IF keys[i] \in {key} THEN left ELSE Append(left, keys[i]) >> \in G
  <2> SUFFICES ASSUME NEW i \in 1..Len(columns), NEW kept \in Seq(FoldedColumn),
                      NEW left \in Seq(Column), << i - 1, kept, left >> \in G
               PROVE  << i, IF columns[i] \in out THEN kept ELSE Append(kept, columns[i]),
                         IF keys[i] \in {key} THEN left ELSE Append(left, keys[i]) >> \in G
    OBVIOUS
  <2>1. /\ i \in Nat /\ i - 1 \in Nat /\ columns[i] \in FoldedColumn /\ i \in DOMAIN columns
        /\ keys[i] \in Column /\ keys[i] = columns[i].key
    BY <1>1
  <2>2. Left(kept, left)
    BY <1>2, <2>1
  <2>3. columns[i] \in out <=> keys[i] \in {key}
    BY <2>1 DEF Elements
  <2>4. KeysOf(Append(kept, columns[i])) = Append(left, keys[i])
    BY <2>1, <2>2, KeysAppended
  <2>5. Append(kept, columns[i]) \in Seq(FoldedColumn) /\ Append(left, keys[i]) \in Seq(Column)
    BY <2>1
  <2> HIDE DEF out
  <2> QED BY <1>2, <2>1, <2>2, <2>3, <2>4, <2>5
<1>5. << Len(columns), Retain(columns, out), Retain(keys, {key}) >> \in G
  <2>1. keys \in Seq(Column) /\ Len(keys) = Len(columns)
    BY <1>1
  <2> HIDE DEF out
  <2> QED BY <1>3, <1>4, <2>1, RetainTogether, SMTT(40)
<1>6. /\ Retain(columns, out) \in Seq(FoldedColumn) /\ Retain(keys, {key}) \in Seq(Column)
      /\ Len(columns) \in Nat
  BY <1>1, RetainFacts
<1> QED BY <1>2, <1>5, <1>6 DEF keys

LEMMA KeysEdited ==
    ASSUME NEW columns \in Seq(FoldedColumn), NEW n \in DOMAIN columns, NEW column
    PROVE  KeysOf([columns EXCEPT ![n] = column]) = [KeysOf(columns) EXCEPT ![n] = column.key]
BY DEF KeysOf

\* A statement that declares no columns of its own.
LEMMA DeclareNone ==
    ASSUME NEW name \in Table, NEW create \in CreateStatement,
           NEW inherited \in Seq(FoldedColumn), unknown_types_noted \subseteq TypeName,
           SessionOK(session), line' \in Nat, create.columns = << >>
    PROVE  DeclareColumns(name, create, inherited).columns = inherited
<1> DEFINE init == [ columns |-> inherited, noted |-> unknown_types_noted,
                     notes |-> << >>, duplicate |-> FALSE ]
           G == {<< 0, init >>}
<1>1. Len(create.columns) = 0 /\ 1..Len(create.columns) = {}
  OBVIOUS
<1>2. << 0, init >> \in G
  OBVIOUS
<1>3. \A i \in 1..Len(create.columns), before \in Declaration :
          << i - 1, before >> \in G =>
              << i, DeclareColumn(name, create, before, create.columns[i]) >> \in G
  BY <1>1
<1>4. << Len(create.columns), DeclareColumns(name, create, inherited) >> \in G
  <2> HIDE DEF G
  <2> QED BY <1>2, <1>3, DeclareInvariant
<1>5. DeclareColumns(name, create, inherited) = init
  BY <1>4
<1> QED BY <1>5

\* Columns of distinct names are declared as they come.
LEMMA DeclareFresh ==
    ASSUME NEW name \in Table, NEW create \in CreateStatement,
           unknown_types_noted \subseteq TypeName, SessionOK(session), line' \in Nat,
           \A i, j \in DOMAIN create.columns :
               create.columns[i].key = create.columns[j].key => i = j
    PROVE  /\ DeclareColumns(name, create, << >>).columns \in Seq(FoldedColumn)
           /\ KeysOf(DeclareColumns(name, create, << >>).columns) =
                  [i \in DOMAIN create.columns |-> create.columns[i].key]
<1> DEFINE n == Len(create.columns)
           none == << >>
           init == [ columns |-> none, noted |-> unknown_types_noted,
                     notes |-> none, duplicate |-> FALSE ]
           Fresh(m, d) == /\ Len(d.columns) = m
                          /\ \A i \in 1..m : d.columns[i].key = create.columns[i].key
           G == {p \in Nat \X Declaration : Fresh(p[1], p[2])}
<1>1. /\ n \in Nat /\ DOMAIN create.columns = 1..n
      /\ \A i \in 1..n : create.columns[i] \in RawColumn
  BY DEF CreateStatement
<1>2. \A m \in Nat, d \in Declaration : << m, d >> \in G <=> Fresh(m, d)
  OBVIOUS
<1>3. none \in Seq(FoldedColumn) /\ none \in Seq(NoteRecord) /\ Len(none) = 0
  OBVIOUS
<1> HIDE DEF none, G
<1>4. init \in Declaration /\ Fresh(0, init)
  BY <1>3 DEF Declaration
<1>5. << 0, init >> \in G
  <2> HIDE DEF init
  <2> QED BY <1>2, <1>4
<1>6. \A i \in 1..n, before \in Declaration :
          << i - 1, before >> \in G =>
              << i, DeclareColumn(name, create, before, create.columns[i]) >> \in G
  <2> SUFFICES ASSUME NEW i \in 1..n, NEW before \in Declaration, << i - 1, before >> \in G
               PROVE  << i, DeclareColumn(name, create, before, create.columns[i]) >> \in G
    OBVIOUS
  <2> DEFINE raw == create.columns[i]
             after == DeclareColumn(name, create, before, raw)
             column == [ResolveColumn(raw) EXCEPT !.not_null = @ \/ raw.key \in create.pk_columns]
  <2>1. i \in Nat /\ i - 1 \in Nat /\ raw \in RawColumn
    BY <1>1
  <2>2. Fresh(i - 1, before)
    BY <1>2, <2>1
  <2>3. after \in Declaration
    BY <2>1, DeclareColumnTyped
  <2>4. column \in FoldedColumn /\ column.key = raw.key
    <3>1. ResolveColumn(raw) \in FoldedColumn /\ ResolveColumn(raw).key = raw.key
      BY <2>1, ResolveColumnTyped DEF ResolveColumn
    <3> QED BY <3>1 DEF FoldedColumn
  <2>5. before.columns \in Seq(FoldedColumn)
    BY DEF Declaration
  <2>6. ~HasColumn(before, raw.key)
    <3>1. DOMAIN before.columns = 1..(i - 1)
      BY <2>1, <2>2, <2>5
    <3>2. ASSUME NEW j \in 1..(i - 1) PROVE before.columns[j].key # raw.key
      <4>1. /\ j \in DOMAIN create.columns /\ i \in DOMAIN create.columns /\ j # i
        BY <1>1, <2>1
      <4>2. create.columns[j].key # raw.key
        BY <4>1
      <4> HIDE DEF raw
      <4> QED BY <2>2, <4>2
    <3> QED BY <3>1, <3>2 DEF HasColumn, Elements
  <2>7. after.columns = Append(before.columns, column)
    BY <2>6 DEF DeclareColumn
  <2> HIDE DEF after, column
  <2>8. Fresh(i, after)
    BY <1>1, <2>1, <2>2, <2>4, <2>5, <2>7
  <2>9. << i, after >> \in G
    BY <1>2, <2>1, <2>3, <2>8
  <2> QED BY <2>9 DEF after
<1>7. /\ DeclareColumns(name, create, none) \in Declaration
      /\ << n, DeclareColumns(name, create, none) >> \in G
  <2> USE DEF init
  <2>1. << 0, [ columns |-> none, noted |-> unknown_types_noted,
                notes |-> << >>, duplicate |-> FALSE ] >> \in G
    BY <1>5 DEF none
  <2> QED BY <1>3, <1>6, <2>1, DeclareInvariant
<1> DEFINE d == DeclareColumns(name, create, none)
<1>8. Fresh(n, d) /\ d.columns \in Seq(FoldedColumn)
  BY <1>1, <1>2, <1>7 DEF Declaration
<1> HIDE DEF d
<1>9. KeysOf(d.columns) = [i \in DOMAIN create.columns |-> create.columns[i].key]
  BY <1>1, <1>8 DEF KeysOf
<1> QED BY <1>8, <1>9 DEF d, none

-----------------------------------------------------------------------------
(* What a statement does in Postgres. *)

Relation == [attrs : Seq(Attr), parent : Table \cup {NoName}]

\* Postgres never lets two live columns of a relation share a name.
RelationsOK ==
    \A r \in DOMAIN relations \ departed :
        relations[r] \in Relation /\ Injective(Pg!Live(relations[r].attrs))

\* A statement leaves every relation alone but t and those that depart.
Spares(t) ==
    /\ departed \subseteq departed'
    /\ \A r \in DOMAIN relations \ {t} :
           r \notin departed' => r \in DOMAIN relations' /\ relations'[r] = relations[r]

\* A statement gives t other attributes.
Alters(t, attrs) ==
    /\ t \in DOMAIN relations
    /\ relations'[t] = [relations[t] EXCEPT !.attrs = attrs]

\* A statement reaches no relation but t and its partitions.
ReachesFamily(t) ==
    /\ DOMAIN relations' = DOMAIN relations
    /\ \A r \in DOMAIN relations :
           r # t /\ relations[r].parent # t => relations'[r] = relations[r]
    /\ Departs(Pg!Partitions(t))

LEMMA FamilySpared ==
    ASSUME NEW t, ReachesFamily(t)
    PROVE  Spares(t)
BY DEF ReachesFamily, Spares, Departs, Pg!Partitions

LEMMA AltersTo ==
    ASSUME RelationsOK, NEW t, t \notin departed, NEW attrs, Alters(t, attrs),
           DOMAIN relations' = DOMAIN relations
    PROVE  t \in DOMAIN relations' /\ relations'[t].attrs = attrs
<1>1. t \in DOMAIN relations /\ relations[t] \in Relation
  BY DEF Alters, RelationsOK
<1>2. relations'[t] = [relations[t] EXCEPT !.attrs = attrs]
  BY DEF Alters
<1>3. [relations[t] EXCEPT !.attrs = attrs].attrs = attrs
  BY <1>1 DEF Relation
<1> QED BY <1>1, <1>2, <1>3

LEMMA AltersOK ==
    ASSUME RelationsOK, NEW t, ReachesFamily(t), NEW attrs,
           t \notin departed =>
               attrs \in Seq(Attr) /\ Injective(Pg!Live(attrs)) /\ Alters(t, attrs)
    PROVE  RelationsOK' /\ Spares(t)
<1>1. Spares(t) /\ DOMAIN relations' = DOMAIN relations
  BY FamilySpared DEF ReachesFamily
<1>2. ASSUME NEW r \in DOMAIN relations' \ departed'
      PROVE  relations'[r] \in Relation /\ Injective(Pg!Live(relations'[r].attrs))
  <2>1. r \in DOMAIN relations \ departed
    BY <1>1, <1>2 DEF Spares
  <2>2. CASE r = t
    <3>1. /\ attrs \in Seq(Attr) /\ Injective(Pg!Live(attrs)) /\ Alters(t, attrs)
          /\ relations[t] \in Relation
      BY <2>1, <2>2 DEF RelationsOK
    <3>2. relations'[t].attrs = attrs
      BY <1>1, <2>1, <2>2, <3>1, AltersTo
    <3>3. relations'[t] \in Relation
      BY <3>1 DEF Alters, Relation
    <3> QED BY <2>2, <3>1, <3>2, <3>3
  <2>3. CASE r # t
    BY <1>1, <1>2, <2>1, <2>3 DEF RelationsOK, Spares
  <2> QED BY <2>2, <2>3
<1>3. RelationsOK'
  BY <1>2 DEF RelationsOK
<1> QED BY <1>1, <1>3

LEMMA SameRelations ==
    ASSUME RelationsOK, UNCHANGED relations, departed \subseteq departed', NEW t
    PROVE  RelationsOK' /\ Spares(t)
BY DEF RelationsOK, Spares

LEMMA PgAdds ==
    ASSUME RelationsOK, NEW t, Departs(Pg!Partitions(t)), NEW column \in Column,
           NEW if_not_exists, Pg!AddColumn(t, column, if_not_exists)
    PROVE  /\ t \in DOMAIN relations
           /\ \/ /\ column \in Elements(Pg!Live(relations[t].attrs))
                 /\ UNCHANGED relations
              \/ /\ column \notin Elements(Pg!Live(relations[t].attrs))
                 /\ ReachesFamily(t)
                 /\ Alters(t, Append(relations[t].attrs, Pg!Attribute(column)))
           /\ RelationsOK' /\ Spares(t)
<1> DEFINE attrs == relations[t].attrs
           longer == Append(attrs, Pg!Attribute(column))
<1>1. t \in DOMAIN relations
  BY DEF Pg!AddColumn, Pg!Alterable, Pg!Exists
<1>2. t \notin departed => attrs \in Seq(Attr) /\ Injective(Pg!Live(attrs))
  BY <1>1 DEF RelationsOK, Relation
<1>3. Pg!IsLive(t, column) <=> column \in Elements(Pg!Live(attrs))
  BY SameCollections DEF Pg!IsLive
<1>4. CASE column \in Elements(Pg!Live(attrs))
  <2>1. UNCHANGED relations /\ departed \subseteq departed'
    BY <1>3, <1>4 DEF Pg!AddColumn, Departs
  <2> QED BY <1>1, <1>4, <2>1, SameRelations
<1>5. CASE column \notin Elements(Pg!Live(attrs))
  <2>1. relations' = [r \in DOMAIN relations |->
                         IF r = t \/ relations[r].parent = t
                         THEN [relations[r] EXCEPT
                                  !.attrs = Append(@, Pg!Attribute(column))]
                         ELSE relations[r]]
    BY <1>3, <1>5 DEF Pg!AddColumn, Pg!AlterFamily
  <2>2. Alters(t, longer) /\ ReachesFamily(t)
    BY <1>1, <2>1 DEF Alters, ReachesFamily
  <2>3. ASSUME t \notin departed
        PROVE  longer \in Seq(Attr) /\ Injective(Pg!Live(longer))
    <3>1. longer \in Seq(Attr) /\ Pg!Live(longer) = Append(Pg!Live(attrs), column)
      BY <1>2, <2>3, LiveAppended
    <3>2. Injective(Append(Pg!Live(attrs), column))
      BY <1>2, <1>5, <2>3, LiveTyped, AppendInjective
    <3> QED BY <3>1, <3>2
  <2> HIDE DEF longer
  <2>4. RelationsOK' /\ Spares(t)
    BY <2>2, <2>3, AltersOK
  <2> QED BY <1>1, <1>5, <2>2, <2>4 DEF longer
<1> QED BY <1>4, <1>5

LEMMA PgDrops ==
    ASSUME RelationsOK, NEW t, Departs(Pg!Partitions(t)), NEW column \in Column,
           NEW if_exists, Pg!DropColumn(t, column, if_exists)
    PROVE  /\ t \in DOMAIN relations
           /\ \/ /\ column \notin Elements(Pg!Live(relations[t].attrs))
                 /\ UNCHANGED relations
              \/ /\ column \in Elements(Pg!Live(relations[t].attrs))
                 /\ ReachesFamily(t)
                 /\ Alters(t, Pg!EditNamed(relations[t].attrs, column,
                                           [name |-> column, dropped |-> TRUE]))
           /\ RelationsOK' /\ Spares(t)
<1> DEFINE attrs == relations[t].attrs
           edited == [name |-> column, dropped |-> TRUE]
           cut == Pg!EditNamed(attrs, column, edited)
<1>1. t \in DOMAIN relations
  BY DEF Pg!DropColumn, Pg!Alterable, Pg!Exists
<1>2. t \notin departed => attrs \in Seq(Attr) /\ Injective(Pg!Live(attrs))
  BY <1>1 DEF RelationsOK, Relation
<1>3. Pg!IsLive(t, column) <=> column \in Elements(Pg!Live(attrs))
  BY SameCollections DEF Pg!IsLive
<1>4. CASE column \notin Elements(Pg!Live(attrs))
  <2>1. UNCHANGED relations /\ departed \subseteq departed'
    BY <1>3, <1>4 DEF Pg!DropColumn, Departs
  <2> QED BY <1>1, <1>4, <2>1, SameRelations
<1>5. CASE column \in Elements(Pg!Live(attrs))
  <2>1. relations' = [r \in DOMAIN relations |->
                         IF r = t \/ relations[r].parent = t
                         THEN [relations[r] EXCEPT !.attrs = Pg!EditNamed(@, column, edited)]
                         ELSE relations[r]]
    BY <1>3, <1>5 DEF Pg!DropColumn, Pg!AlterFamily
  <2>2. Alters(t, cut) /\ ReachesFamily(t)
    BY <1>1, <2>1 DEF Alters, ReachesFamily
  <2>3. edited \in Attr /\ edited.dropped
    BY DEF Attr
  <2> HIDE DEF edited
  <2>4. ASSUME t \notin departed
        PROVE  cut \in Seq(Attr) /\ Injective(Pg!Live(cut))
    <3>1. cut \in Seq(Attr) /\ Pg!Live(cut) = Retain(Pg!Live(attrs), {column})
      BY <1>2, <2>3, <2>4, EditNamedTyped, LiveDropped
    <3>2. Injective(Retain(Pg!Live(attrs), {column}))
      BY <1>2, <2>4, LiveTyped, RetainFacts
    <3> QED BY <3>1, <3>2
  <2> HIDE DEF cut
  <2>5. RelationsOK' /\ Spares(t)
    BY <2>2, <2>4, AltersOK
  <2> QED BY <1>1, <1>5, <2>2, <2>5 DEF edited, cut
<1> QED BY <1>4, <1>5

LEMMA PgRenames ==
    ASSUME RelationsOK, NEW t, Departs(Pg!Partitions(t)), NEW old \in Column,
           NEW new \in Column, Pg!RenameColumn(t, old, new)
    PROVE  /\ t \in DOMAIN relations
           /\ old \in Elements(Pg!Live(relations[t].attrs))
           /\ new \notin Elements(Pg!Live(relations[t].attrs))
           /\ ReachesFamily(t)
           /\ Alters(t, Pg!EditNamed(relations[t].attrs, old, Pg!Attribute(new)))
           /\ RelationsOK' /\ Spares(t)
<1> DEFINE attrs == relations[t].attrs
           live == Pg!Live(attrs)
           renamed == Pg!EditNamed(attrs, old, Pg!Attribute(new))
<1>1. t \in DOMAIN relations
  BY DEF Pg!RenameColumn, Pg!Alterable, Pg!Exists
<1>2. t \notin departed => attrs \in Seq(Attr) /\ Injective(live)
  BY <1>1 DEF RelationsOK, Relation
<1>3. old \in Elements(live) /\ new \notin Elements(live)
  BY SameCollections DEF Pg!RenameColumn, Pg!IsLive
<1>4. relations' = [r \in DOMAIN relations |->
                       IF r = t \/ relations[r].parent = t
                       THEN [relations[r] EXCEPT
                                !.attrs = Pg!EditNamed(@, old, Pg!Attribute(new))]
                       ELSE relations[r]]
  BY DEF Pg!RenameColumn, Pg!AlterFamily
<1>5. Alters(t, renamed) /\ ReachesFamily(t)
  BY <1>1, <1>4 DEF Alters, ReachesFamily
<1>6. Pg!Attribute(new) \in Attr
  BY DEF Pg!Attribute, Attr
<1>7. ASSUME t \notin departed
      PROVE  renamed \in Seq(Attr) /\ Injective(Pg!Live(renamed))
  <2>1. /\ renamed \in Seq(Attr)
        /\ Pg!Live(renamed) = [i \in DOMAIN live |-> IF live[i] = old THEN new ELSE live[i]]
    BY <1>2, <1>6, <1>7, EditNamedTyped, LiveRenamed
  <2> HIDE DEF live, renamed
  <2>2. \A i \in DOMAIN live : live[i] # new
    BY <1>3 DEF Elements
  <2> QED BY <1>2, <1>7, <2>1, <2>2 DEF Injective
<1> HIDE DEF renamed
<1>8. RelationsOK' /\ Spares(t)
  BY <1>5, <1>7, AltersOK
<1> QED BY <1>1, <1>3, <1>5, <1>8 DEF renamed

LEMMA PgCreates ==
    ASSUME RelationsOK, departed \subseteq departed', NEW t, NEW attrs,
           t \notin departed' => attrs \in Seq(Attr) /\ Injective(Pg!Live(attrs)),
           NEW parent \in Table \cup {NoName}, Pg!Create(t, attrs, parent)
    PROVE  /\ t \notin DOMAIN relations
           /\ RelationsOK' /\ Spares(t)
           /\ t \in DOMAIN relations' /\ relations'[t].attrs = attrs
<1> DEFINE new == [attrs |-> attrs, parent |-> parent]
<1>1. t \notin DOMAIN relations /\ relations' = Put(relations, t, new)
  BY SameCollections DEF Pg!Create, Pg!Exists
<1>2. new.attrs = attrs /\ (attrs \in Seq(Attr) => new \in Relation)
  BY DEF Relation
<1> HIDE DEF new
<1>3. /\ DOMAIN relations' = DOMAIN relations \cup {t} /\ relations'[t] = new
      /\ \A r \in DOMAIN relations \ {t} : relations'[r] = relations[r]
  BY <1>1 DEF Put
<1>4. ASSUME NEW r \in DOMAIN relations' \ departed'
      PROVE  relations'[r] \in Relation /\ Injective(Pg!Live(relations'[r].attrs))
  BY <1>2, <1>3 DEF RelationsOK
<1>5. RelationsOK'
  BY <1>4 DEF RelationsOK
<1> QED BY <1>1, <1>2, <1>3, <1>5 DEF Spares

LEMMA PgDropsTable ==
    ASSUME RelationsOK, NEW names, NEW if_exists, Pg!DropTables(names, if_exists),
           (departed \cup UNION {Pg!Partitions(t) : t \in names}) \ names \subseteq departed'
    PROVE  /\ RelationsOK'
           /\ \A r \in DOMAIN relations \ names :
                  r \notin departed' => /\ r \notin departed
                                        /\ r \in DOMAIN relations' /\ relations'[r] = relations[r]
<1> DEFINE children == UNION {Pg!Partitions(t) : t \in names}
<1>1. relations' = [r \in DOMAIN relations \ (names \cup children) |-> relations[r]]
  BY DEF Pg!DropTables
<1> HIDE DEF children
<1>2. (departed \cup children) \ names \subseteq departed'
  BY DEF children
<1> QED BY <1>1, <1>2 DEF RelationsOK

LEMMA PgRenamesTable ==
    ASSUME RelationsOK, NEW t, NEW new \in Table, Pg!RenameTable(t, new),
           departed' = (departed \ {t}) \cup {name \in {new} : t \in departed}
    PROVE  /\ t \in DOMAIN relations /\ new \notin DOMAIN relations
           /\ RelationsOK'
           /\ new \in DOMAIN relations'
           /\ t \notin departed => relations'[new].attrs = relations[t].attrs
           /\ \A r \in DOMAIN relations \ {t} :
                  /\ r \in DOMAIN relations'
                  /\ r \notin departed => relations'[r].attrs = relations[r].attrs
<1> DEFINE later(was) == [was EXCEPT !.parent = IF @ = t THEN new ELSE @]
<1>1. /\ t \in DOMAIN relations /\ new \notin DOMAIN relations
      /\ relations' = [r \in (DOMAIN relations \ {t}) \cup {new} |->
                          later(relations[IF r = new THEN t ELSE r])]
  BY DEF Pg!RenameTable, Pg!Exists
<1>2. \A was \in Relation : later(was) \in Relation /\ later(was).attrs = was.attrs
  BY DEF Relation
<1> HIDE DEF later
<1>3. /\ DOMAIN relations' = (DOMAIN relations \ {t}) \cup {new}
      /\ relations'[new] = later(relations[t])
      /\ \A r \in DOMAIN relations \ {t} : relations'[r] = later(relations[r])
  BY <1>1
<1>4. ASSUME NEW r \in DOMAIN relations' \ departed'
      PROVE  relations'[r] \in Relation /\ Injective(Pg!Live(relations'[r].attrs))
  <2>1. \E s \in DOMAIN relations \ departed : relations'[r] = later(relations[s])
    BY <1>1, <1>3, <1>4
  <2> QED BY <1>2, <2>1 DEF RelationsOK
<1>5. RelationsOK'
  BY <1>4 DEF RelationsOK
<1>6. \A r \in DOMAIN relations \ departed : later(relations[r]).attrs = relations[r].attrs
  BY <1>2 DEF RelationsOK
<1> QED BY <1>1, <1>3, <1>5, <1>6

\* What a query or an unreadable CREATE TABLE may declare.
LEMMA UnknownTyped ==
    ASSUME NEW attrs \in UnknownColumns
    PROVE  attrs \in Seq(Attr) /\ Injective(Pg!Live(attrs))
<1>1. PICK names \in Seq(Column) : attrs = Pg!Attributes(names) /\ Injective(names)
  <2>1. CASE attrs = << >>
    <3>1. << >> \in Seq(Column)
      OBVIOUS
    <3>2. Pg!Attributes(<< >>) = << >>
      BY DEF Pg!Attributes
    <3>3. Injective(<< >>)
      BY DEF Injective
    <3> QED BY <2>1, <3>1, <3>2, <3>3
  <2>2. ASSUME NEW column \in Column, attrs = << Pg!Attribute(column) >>
        PROVE  \E names \in Seq(Column) : attrs = Pg!Attributes(names) /\ Injective(names)
    <3>1. << column >> \in Seq(Column)
      OBVIOUS
    <3>2. Pg!Attributes(<< column >>) = << Pg!Attribute(column) >>
      BY DEF Pg!Attributes
    <3>3. Injective(<< column >>)
      BY DEF Injective
    <3> QED BY <2>2, <3>1, <3>2, <3>3
  <2> QED BY <2>1, <2>2 DEF UnknownColumns
<1> QED BY <1>1, LiveAttributes

\* An unreadable statement about t.
LEMMA UnseenSpares ==
    ASSUME RelationsOK, NEW t \in Table, PgUnseen(t)
    PROVE  RelationsOK' /\ Spares(t)
<1>1. CASE UNCHANGED <<relations, departed>>
  BY <1>1, SameRelations
<1>2. CASE /\ \E attrs \in UnknownColumns : Pg!Create(t, attrs, NoName)
           /\ UNCHANGED departed
  BY <1>2, UnknownTyped, PgCreates
<1>3. CASE Departs(Pg!Partitions(t)) /\ \E column \in Column : Pg!AddColumn(t, column, FALSE)
  BY <1>3, PgAdds
<1>4. CASE Departs(Pg!Partitions(t)) /\ \E column \in Column : Pg!DropColumn(t, column, FALSE)
  BY <1>4, PgDrops
<1>5. CASE /\ Departs(Pg!Partitions(t))
           /\ \E old, new \in Column : Pg!RenameColumn(t, old, new)
  BY <1>5, PgRenames
<1>6. CASE Departs(Pg!Partitions(t)) /\ Pg!DropTables({t}, FALSE)
  <2>1. UNION {Pg!Partitions(r) : r \in {t}} = Pg!Partitions(t)
    OBVIOUS
  <2>2. /\ departed \subseteq departed'
        /\ (departed \cup UNION {Pg!Partitions(r) : r \in {t}}) \ {t} \subseteq departed'
    BY <1>6, <2>1 DEF Departs
  <2> QED BY <1>6, <2>2, PgDropsTable DEF Spares
<1> QED BY <1>1, <1>2, <1>3, <1>4, <1>5, <1>6 DEF PgUnseen

-----------------------------------------------------------------------------
(* The tables the replay calls complete. *)

AgreesWith(table, attrs) ==
    Keys(table) = Pg!Live(attrs) /\ table.dropped_count = Pg!DroppedSlots(attrs)

LEMMA AgreesForm ==
    ASSUME NEW t
    PROVE  /\ Agrees(t) <=> /\ t \in DOMAIN relations
                            /\ AgreesWith(tables[t], relations[t].attrs)
           /\ Agrees(t)' <=> /\ t \in DOMAIN relations'
                             /\ AgreesWith(tables'[t], relations'[t].attrs)
BY DEF Agrees, AgreesWith, Pg!Exists, Keys, Pg!Live, Pg!DroppedSlots

Right == \A t \in DOMAIN tables \ departed : tables[t].incomplete \/ Agrees(t)

\* A step of the replay that leaves every table alone but t.
FolderSpares(t) ==
    \A key \in DOMAIN tables' \ {t} : key \in DOMAIN tables /\ tables'[key] = tables[key]

LEMMA SpareRight ==
    ASSUME Right, NEW t, Spares(t), FolderSpares(t),
           t \in DOMAIN tables' \ departed' =>
               \/ tables'[t].incomplete
               \/ /\ t \in DOMAIN relations'
                  /\ AgreesWith(tables'[t], relations'[t].attrs)
    PROVE  Right'
<1>1. ASSUME NEW key \in DOMAIN tables' \ departed'
      PROVE  \/ tables'[key].incomplete
             \/ /\ key \in DOMAIN relations'
                /\ AgreesWith(tables'[key], relations'[key].attrs)
  <2>1. CASE key = t
    BY <2>1
  <2>2. CASE key # t
    <3>1. key \in DOMAIN tables \ departed /\ tables'[key] = tables[key]
      BY <2>2 DEF FolderSpares, Spares
    <3>2. tables[key].incomplete \/ Agrees(key)
      BY <3>1 DEF Right
    <3>3. key \in DOMAIN relations =>
              key \in DOMAIN relations' /\ relations'[key] = relations[key]
      BY <2>2 DEF Spares
    <3> QED BY <3>1, <3>2, <3>3, AgreesForm
  <2> QED BY <2>1, <2>2
<1> QED BY <1>1, AgreesForm DEF Right

-----------------------------------------------------------------------------
(* CREATE TABLE, in both. *)

LEMMA DeclaredTyped ==
    ASSUME NEW create \in CreateStatement
    PROVE  /\ Declared(create) \in Seq(Attr)
           /\ [i \in DOMAIN create.columns |-> create.columns[i].key] \in Seq(Column)
           /\ Pg!Live(Declared(create)) = [i \in DOMAIN create.columns |-> create.columns[i].key]
           /\ Pg!DroppedSlots(Declared(create)) = 0
<1> DEFINE keys == [i \in DOMAIN create.columns |-> create.columns[i].key]
           n == Len(create.columns)
<1>1. /\ n \in Nat /\ DOMAIN create.columns = 1..n
      /\ \A i \in 1..n : create.columns[i] \in RawColumn
  BY DEF CreateStatement
<1>2. \A raw \in RawColumn : raw.key \in Column
  BY DEF RawColumn
<1>3. keys \in Seq(Column)
  <2>1. keys = [i \in 1..n |-> create.columns[i].key]
    BY <1>1
  <2> HIDE DEF keys, n
  <2> QED BY <1>1, <1>2, <2>1
<1>4. Declared(create) = Pg!Attributes(keys)
  BY DEF Declared
<1> HIDE DEF keys
<1> QED BY <1>3, <1>4, LiveAttributes DEF keys

LEMMA CreatedTyped ==
    ASSUME RelationsOK, NEW create \in CreateStatement, ~CopiesMore(create),
           NEW attrs \in CreatedAttrs(create)
    PROVE  attrs \in Seq(Attr)
<1>1. \A source \in DOMAIN relations \ departed : CopiedAttrs(source) \in Seq(Attr)
  <2> SUFFICES ASSUME NEW source \in DOMAIN relations \ departed
               PROVE  CopiedAttrs(source) \in Seq(Attr)
    OBVIOUS
  <2>1. relations[source].attrs \in Seq(Attr)
    BY DEF RelationsOK, Relation
  <2> QED BY <2>1, LiveTyped, LiveAttributes DEF CopiedAttrs
<1>2. Declared(create) \in Seq(Attr)
  BY DeclaredTyped
<1>3. CASE create.partition_of # NoName
  <2>1. /\ create.partition_of \in DOMAIN relations \ departed
        /\ attrs = CopiedAttrs(create.partition_of)
    BY <1>3 DEF CreatedAttrs, Pg!Alterable, Pg!Exists, CopiesMore
  <2> QED BY <1>1, <2>1
<1>4. CASE create.partition_of = NoName /\ create.like_source # NoName
  <2>1. /\ create.like_source \in DOMAIN relations \ departed
        /\ attrs = CopiedAttrs(create.like_source) \o Declared(create)
    BY <1>4 DEF CreatedAttrs, Pg!Exists, CopiesMore
  <2>2. CopiedAttrs(create.like_source) \in Seq(Attr)
    BY <1>1, <2>1
  <2> QED BY <1>2, <2>1, <2>2
<1>5. CASE create.partition_of = NoName /\ create.like_source = NoName
  <2>1. \/ attrs = Declared(create)
        \/ \E unknown \in UnknownColumns : attrs = unknown \o Declared(create)
    BY <1>5 DEF CreatedAttrs
  <2>2. \A unknown \in UnknownColumns : unknown \in Seq(Attr)
    BY UnknownTyped
  <2>3. ASSUME NEW unknown \in UnknownColumns, attrs = unknown \o Declared(create)
        PROVE  attrs \in Seq(Attr)
    <3>1. unknown \in Seq(Attr)
      BY <2>2
    <3> HIDE DEF UnknownColumns
    <3> QED BY <1>2, <2>3, <3>1, SMT
  <2> QED BY <1>2, <2>1, <2>3, Zenon
<1> QED BY <1>3, <1>4, <1>5

\* A new table that is not flagged has the columns its statement, or the complete
\* table it copies, has.
LEMMA EstablishedAgrees ==
    ASSUME StateOK, line' \in Nat, RelationsOK, Right,
           NEW name \in Table, NEW create \in CreateStatement, ~CopiesMore(create),
           ~create.is_ctas, ~create.incomplete_columns, ~Inherit(name, create).incomplete,
           NEW attrs \in CreatedAttrs(create), DistinctNames(attrs),
           NEW table,
           table.columns = DeclareColumns(name, create, Inherit(name, create).columns).columns,
           table.dropped_count = Inherit(name, create).dropped
    PROVE  AgreesWith(table, attrs)
<1> DEFINE from == IF create.partition_of # NoName THEN create.partition_of
                   ELSE create.like_source
           keys == [i \in DOMAIN create.columns |-> create.columns[i].key]
<1>1. unknown_types_noted \subseteq TypeName /\ SessionOK(session)
  BY DEF StateOK
<1>2. CASE from = NoName
  <2>1. Inherit(name, create).columns = << >> /\ Inherit(name, create).dropped = 0
    BY <1>2 DEF Inherit
  <2>2. attrs = Declared(create)
    BY <1>2 DEF CreatedAttrs
  <2>3. Pg!Live(attrs) = keys /\ Pg!DroppedSlots(attrs) = 0
    BY <2>2, DeclaredTyped
  <2>4. \A i, j \in DOMAIN create.columns :
            create.columns[i].key = create.columns[j].key => i = j
    BY <2>3 DEF DistinctNames
  <2>5. KeysOf(DeclareColumns(name, create, << >>).columns) = keys
    BY <1>1, <2>4, DeclareFresh
  <2> QED BY <2>1, <2>3, <2>5 DEF AgreesWith, Keys, KeysOf
<1>3. CASE from # NoName
  <2>1. /\ from \in DOMAIN tables /\ ~tables[from].incomplete
        /\ create.partition_of # NoName \/ create.columns = << >>
        /\ Inherit(name, create).columns = tables[from].columns
        /\ Inherit(name, create).dropped = tables[from].dropped_count
    BY <1>3 DEF Inherit
  <2> DEFINE source == relations[from].attrs
  <2>0. from \notin departed /\ ~(Pg!DroppedSlots(source) > 0)
    BY <1>3 DEF CopiesMore
  <2>2. from \in DOMAIN relations /\ AgreesWith(tables[from], source)
    BY <2>0, <2>1, AgreesForm DEF Right
  <2>3. source \in Seq(Attr)
    BY <2>0, <2>2 DEF RelationsOK, Relation
  <2>4. /\ create.columns = << >>
        /\ attrs = CopiedAttrs(from) \o Declared(create)
    <3>1. CASE create.partition_of # NoName
      <4>1. create.columns = << >> /\ attrs = CopiedAttrs(from)
        BY <3>1 DEF CreatedAttrs
      <4>2. Declared(create) = << >>
        BY <4>1 DEF Declared, Pg!Attributes
      <4>3. attrs \in Seq(Attr)
        BY CreatedTyped
      <4> QED BY <4>1, <4>2, <4>3
    <3>2. CASE create.partition_of = NoName
      BY <1>3, <2>1, <3>2 DEF CreatedAttrs
    <3> QED BY <3>1, <3>2
  <2>5. /\ attrs = Pg!Attributes(Pg!Live(source))
        /\ Pg!DroppedSlots(source) = 0
    <3>1. Declared(create) = << >>
      BY <2>4 DEF Declared, Pg!Attributes
    <3>2. Pg!Attributes(Pg!Live(source)) \in Seq(Attr)
      BY <2>3, LiveTyped, LiveAttributes
    <3>3. tables[from].dropped_count \in Nat
      BY <2>1 DEF StateOK, TablesOK, FoldedTable
    <3>4. Pg!DroppedSlots(source) = 0
      BY <2>0, <2>2, <3>3 DEF AgreesWith
    <3> QED BY <2>4, <3>1, <3>2, <3>4 DEF CopiedAttrs
  <2>6. Pg!Live(attrs) = Pg!Live(source) /\ Pg!DroppedSlots(attrs) = 0
    BY <2>3, <2>5, LiveTyped, LiveAttributes
  <2>7. table.columns = tables[from].columns
    <3>1. tables[from].columns \in Seq(FoldedColumn)
      BY <2>1 DEF StateOK, TablesOK, FoldedTable
    <3> QED BY <1>1, <2>1, <2>4, <3>1, DeclareNone
  <2> QED BY <2>1, <2>2, <2>5, <2>6, <2>7 DEF AgreesWith, Keys
<1> QED BY <1>2, <1>3

LEMMA EstablishRight ==
    ASSUME StateOK, line' \in Nat, RelationsOK, Right, departed \subseteq departed',
           NEW name \in Table, NEW create \in CreateStatement, NEW ignore_marker,
           CopiesMore(create) => name \in departed',
           Establish(name, create, ignore_marker),
           NEW attrs \in CreatedAttrs(create), DistinctNames(attrs),
           Pg!Create(name, attrs, create.partition_of)
    PROVE  Right'
<1> DEFINE declared == DeclareColumns(name, create, Inherit(name, create).columns)
           table == [ origin |-> line', altered_in |-> << >>, ignored |-> ignore_marker,
                      incomplete |-> \/ create.incomplete_columns
                                     \/ Inherit(name, create).incomplete
                                     \/ declared.duplicate,
                      columns |-> declared.columns,
                      dropped_count |-> Inherit(name, create).dropped ]
<1>1. tables' = Put(tables, name, table) /\ ~create.is_ctas
  BY DEF Establish
<1>2. /\ table.columns = declared.columns
      /\ table.dropped_count = Inherit(name, create).dropped
      /\ ~table.incomplete => ~create.incomplete_columns /\ ~Inherit(name, create).incomplete
  OBVIOUS
<1> HIDE DEF table
<1>3. tables'[name] = table /\ FolderSpares(name)
  BY <1>1 DEF Put, FolderSpares
<1>4. /\ Spares(name) /\ name \in DOMAIN relations'
      /\ relations'[name].attrs = attrs
  <2>1. name \notin departed' => attrs \in Seq(Attr) /\ Injective(Pg!Live(attrs))
    BY CreatedTyped DEF DistinctNames, Injective
  <2>2. create.partition_of \in Table \cup {NoName}
    BY DEF CreateStatement
  <2> QED BY <2>1, <2>2, PgCreates
<1>5. name \notin departed' => table.incomplete \/ AgreesWith(table, attrs)
  BY <1>1, <1>2, EstablishedAgrees
<1> QED BY <1>3, <1>4, <1>5, SpareRight

-----------------------------------------------------------------------------
(* What each statement of a series does. *)

\* What a statement is asked to preserve; an unattributable one releases the claim.
Sound ==
    /\ StateOK /\ PositionOK /\ RelationsOK
    /\ NeverSilentlyWrong

LEMMA UnattributedStays == NotesKept /\ Unattributed => Unattributed'
BY KeptNotes DEF Unattributed

LEMMA NeverWrongForm ==
    /\ NeverSilentlyWrong <=> Unattributed \/ Right
    /\ NeverSilentlyWrong' <=> Unattributed' \/ Right'
BY DEF NeverSilentlyWrong, Right

\* A step that is typed, keeps the notes, and is right about what was right.
LEMMA SoundStep ==
    ASSUME Sound, StateOK', PositionOK', RelationsOK', NotesKept,
           Right => Right' \/ Unattributed'
    PROVE  Sound'
BY UnattributedStays, NeverWrongForm DEF Sound

\* A statement about a table the replay does not call complete afterwards.
LEMMA FlaggedRight ==
    ASSUME Right, NEW t, Spares(t), FolderSpares(t),
           t \in DOMAIN tables' \ departed' => tables'[t].incomplete
    PROVE  Right'
BY SpareRight

LEMMA StillRight ==
    ASSUME Right, tables' = tables, UNCHANGED relations, departed \subseteq departed'
    PROVE  Right'
BY AgreesForm DEF Right

\* A table Postgres does not have is not called complete.
LEMMA MissingIsFlagged ==
    ASSUME Right, NEW t \in DOMAIN tables \ departed, t \notin DOMAIN relations
    PROVE  tables[t].incomplete
BY AgreesForm DEF Right

LEMMA SeriesCreateSound ==
    ASSUME Sound, NEW t \in Table, NEW create \in Creates, SeriesCreate(t, create)
    PROVE  Sound'
<1>1. /\ ~create.temporary /\ CreateTable(t, create, FALSE) /\ create \in CreateStatement
  BY WorkloadAssumption DEF SeriesCreate
<1>2. StateOK' /\ PositionOK' /\ NotesKept /\ line' \in Nat
  BY <1>1, CreateTableTyped, CreateTableTraced, NewStatementPosition
  DEF Sound, Traced, CreateTable
<1>3. tables' = tables \/ Establish(t, create, FALSE)
  BY <1>1 DEF CreateTable, SkipTemporary, SkipCtas, KeepExisting
<1>4. ASSUME create.if_not_exists, Pg!KeepExisting(t), Departs({t} \ DOMAIN tables)
      PROVE  RelationsOK' /\ (Right => Right')
  <2>1. UNCHANGED relations /\ departed \subseteq departed'
    BY <1>4 DEF Pg!KeepExisting, Departs
  <2>2. RelationsOK' /\ Spares(t)
    BY <2>1, SameRelations DEF Sound
  <2>3. CASE tables' = tables
    BY <2>1, <2>2, <2>3, StillRight
  <2>4. CASE Establish(t, create, FALSE)
    <3>1. FolderSpares(t) /\ t \notin DOMAIN tables
      BY <1>4, <2>4 DEF Establish, FolderSpares, Put
    <3>2. t \in departed'
      BY <1>4, <3>1 DEF Departs
    <3> QED BY <2>2, <3>1, <3>2, FlaggedRight
  <2> QED BY <1>3, <2>2, <2>3, <2>4
<1>5. ASSUME NEW attrs \in CreatedAttrs(create), DistinctNames(attrs),
             Pg!Create(t, attrs, create.partition_of),
             Departs({name \in {t} : CopiesMore(create)})
      PROVE  RelationsOK' /\ (Right => Right')
  <2>0. departed \subseteq departed' /\ (CopiesMore(create) => t \in departed')
    BY <1>5 DEF Departs
  <2>1. RelationsOK' /\ Spares(t) /\ t \notin DOMAIN relations
    <3>1. t \notin departed' => attrs \in Seq(Attr) /\ Injective(Pg!Live(attrs))
      BY <1>1, <1>5, <2>0, CreatedTyped DEF DistinctNames, Injective, Sound
    <3>2. create.partition_of \in Table \cup {NoName}
      BY <1>1 DEF CreateStatement
    <3> QED BY <1>5, <2>0, <3>1, <3>2, PgCreates DEF Sound
  <2>2. CASE tables' = tables
    BY <2>0, <2>1, <2>2, FlaggedRight, MissingIsFlagged DEF FolderSpares
  <2>3. CASE Establish(t, create, FALSE)
    BY <1>1, <1>2, <1>5, <2>0, <2>1, <2>3, EstablishRight DEF Sound
  <2> QED BY <1>3, <2>1, <2>2, <2>3
<1>6. RelationsOK' /\ (Right => Right')
  BY <1>4, <1>5 DEF SeriesCreate
<1> QED BY <1>2, <1>6, SoundStep

-----------------------------------------------------------------------------
(* ALTER TABLE, in both. *)

LEMMA MarkKeeps ==
    ASSUME NEW table \in FoldedTable, NEW columns
    PROVE  /\ LET later == MarkAltered([table EXCEPT !.columns = columns])
              IN  /\ later.columns = columns /\ later.dropped_count = table.dropped_count
                  /\ later.incomplete = table.incomplete
           /\ MarkAltered(table).columns = table.columns
           /\ MarkAltered(table).dropped_count = table.dropped_count
           /\ MarkAltered(table).incomplete = table.incomplete
BY DEF MarkAltered, FoldedTable

\* The replay gives t another model.
LEMMA EditedTable ==
    ASSUME NEW t \in DOMAIN tables, NEW table, tables' = [tables EXCEPT ![t] = table]
    PROVE  tables'[t] = table /\ FolderSpares(t)
BY DEF FolderSpares

LEMMA TableTyped ==
    ASSUME StateOK, NEW t \in DOMAIN tables
    PROVE  /\ tables[t] \in FoldedTable /\ tables[t].columns \in Seq(FoldedColumn)
           /\ tables[t].dropped_count \in Nat /\ tables[t].incomplete \in BOOLEAN
BY DEF StateOK, TablesOK, FoldedTable

LEMMA AddColumnRight ==
    ASSUME StateOK, RelationsOK, Right, NEW t, Departs(Pg!Partitions(t)),
           NEW raw \in RawColumn, NEW if_not_exists,
           AddColumn(t, raw, if_not_exists), Pg!AddColumn(t, raw.key, if_not_exists)
    PROVE  Right'
<1> DEFINE attrs == relations[t].attrs
           longer == Append(attrs, Pg!Attribute(raw.key))
           columns == Append(tables[t].columns, ResolveColumn(raw))
<1>1. raw.key \in Column
  BY DEF RawColumn
<1>2. /\ t \in DOMAIN relations /\ Spares(t) /\ RelationsOK'
      /\ \/ raw.key \in Elements(Pg!Live(attrs)) /\ UNCHANGED relations
         \/ /\ raw.key \notin Elements(Pg!Live(attrs))
            /\ ReachesFamily(t) /\ Alters(t, longer)
  BY <1>1, PgAdds
<1>3. /\ t \in DOMAIN tables /\ tables[t] \in FoldedTable
      /\ tables[t].columns \in Seq(FoldedColumn)
  BY TableTyped DEF AddColumn
<1>0. CASE t \in departed
  <2>1. t \in departed' /\ FolderSpares(t)
    BY <1>0, <1>2, <1>3, EditedTable DEF Spares, FolderSpares, AddColumn
  <2> QED BY <1>2, <2>1, FlaggedRight
<1>4. t \notin departed => attrs \in Seq(Attr)
  BY <1>2 DEF RelationsOK, Relation
<1>5. CASE t \notin departed /\ HasColumn(tables[t], raw.key)
  <2>1. tables' = tables
    BY <1>5 DEF AddColumn
  <2>2. CASE tables[t].incomplete
    BY <1>2, <2>1, <2>2, FlaggedRight DEF FolderSpares
  <2>3. CASE Agrees(t)
    BY <1>2, <1>5, <2>1, <2>3, AgreesForm, HasKey, StillRight DEF AgreesWith, Spares
  <2> QED BY <1>3, <1>5, <2>2, <2>3 DEF Right
<1>6. CASE t \notin departed /\ ~HasColumn(tables[t], raw.key)
  <2> DEFINE later == MarkAltered([tables[t] EXCEPT !.columns = columns])
  <2>1. tables' = [tables EXCEPT ![t] = later]
    BY <1>6 DEF AddColumn
  <2>2. /\ later.columns = columns /\ later.dropped_count = tables[t].dropped_count
        /\ later.incomplete = tables[t].incomplete
    BY <1>3, MarkKeeps
  <2> HIDE DEF later
  <2>3. tables'[t] = later /\ FolderSpares(t)
    BY <1>3, <2>1, EditedTable
  <2>4. CASE tables[t].incomplete
    BY <1>2, <2>2, <2>3, <2>4, FlaggedRight
  <2>5. CASE Agrees(t)
    <3>1. AgreesWith(tables[t], attrs) /\ raw.key \notin Elements(Pg!Live(attrs))
      BY <1>6, <2>5, AgreesForm, HasKey DEF AgreesWith
    <3>2. t \in DOMAIN relations' /\ relations'[t].attrs = longer
      BY <1>2, <1>6, <3>1, AltersTo DEF ReachesFamily
    <3>3. KeysOf(columns) = Append(KeysOf(tables[t].columns), raw.key)
      <4>1. ResolveColumn(raw) \in FoldedColumn /\ ResolveColumn(raw).key = raw.key
        BY ResolveColumnTyped DEF ResolveColumn, StateOK
      <4> QED BY <1>3, <4>1, KeysAppended
    <3>4. /\ Pg!Live(longer) = Append(Pg!Live(attrs), raw.key)
          /\ Pg!DroppedSlots(longer) = Pg!DroppedSlots(attrs)
      BY <1>1, <1>4, <1>6, LiveAppended
    <3>5. AgreesWith(later, longer)
      <4> HIDE DEF columns, longer
      <4> QED BY <2>2, <3>1, <3>3, <3>4 DEF AgreesWith, Keys, KeysOf
    <3> QED BY <1>2, <2>3, <3>2, <3>5, SpareRight
  <2> QED BY <1>3, <1>6, <2>4, <2>5 DEF Right
<1> QED BY <1>0, <1>5, <1>6

LEMMA DropColumnsRight ==
    ASSUME StateOK, RelationsOK, Right, NEW t, Departs(Pg!Partitions(t)),
           NEW column \in Column, NEW if_exists,
           DropColumns(t, column, if_exists), Pg!DropColumn(t, column, if_exists)
    PROVE  Right'
<1> DEFINE attrs == relations[t].attrs
           edited == [name |-> column, dropped |-> TRUE]
           cut == Pg!EditNamed(attrs, column, edited)
           columns == WithoutColumn(tables[t], column)
<1>1. edited \in Attr /\ edited.dropped
  BY DEF Attr
<1>2. /\ t \in DOMAIN relations /\ Spares(t) /\ RelationsOK'
      /\ \/ column \notin Elements(Pg!Live(attrs)) /\ UNCHANGED relations
         \/ /\ column \in Elements(Pg!Live(attrs))
            /\ ReachesFamily(t) /\ Alters(t, cut)
  BY PgDrops
<1> HIDE DEF edited
<1>3. /\ t \in DOMAIN tables /\ tables[t] \in FoldedTable
      /\ tables[t].columns \in Seq(FoldedColumn)
  BY TableTyped DEF DropColumns
<1>0. CASE t \in departed
  <2>1. t \in departed' /\ FolderSpares(t)
    BY <1>0, <1>2, <1>3, EditedTable DEF Spares, FolderSpares, DropColumns
  <2> QED BY <1>2, <2>1, FlaggedRight
<1>4. t \notin departed => attrs \in Seq(Attr) /\ Injective(Pg!Live(attrs))
  BY <1>2 DEF RelationsOK, Relation
<1>5. CASE t \notin departed /\ ~HasColumn(tables[t], column)
  <2>1. tables' = tables
    BY <1>5 DEF DropColumns
  <2>2. CASE tables[t].incomplete
    BY <1>2, <2>1, <2>2, FlaggedRight DEF FolderSpares
  <2>3. CASE Agrees(t)
    BY <1>2, <1>5, <2>1, <2>3, AgreesForm, HasKey, StillRight DEF AgreesWith, Spares
  <2> QED BY <1>3, <1>5, <2>2, <2>3 DEF Right
<1>6. CASE t \notin departed /\ HasColumn(tables[t], column)
  <2> DEFINE later == MarkAltered([tables[t] EXCEPT
                          !.columns = columns,
                          !.dropped_count = tables[t].dropped_count + 1])
  <2>1. tables' = [tables EXCEPT ![t] = later]
    BY <1>6 DEF DropColumns
  <2>2. /\ later.columns = columns /\ later.dropped_count = tables[t].dropped_count + 1
        /\ later.incomplete = tables[t].incomplete
    <3> HIDE DEF columns
    <3> QED BY <1>3 DEF MarkAltered, FoldedTable
  <2> HIDE DEF later
  <2>3. tables'[t] = later /\ FolderSpares(t)
    BY <1>3, <2>1, EditedTable
  <2>4. CASE tables[t].incomplete
    BY <1>2, <2>2, <2>3, <2>4, FlaggedRight
  <2>5. CASE Agrees(t)
    <3>1. AgreesWith(tables[t], attrs) /\ column \in Elements(Pg!Live(attrs))
      BY <1>6, <2>5, AgreesForm, HasKey DEF AgreesWith
    <3>2. t \in DOMAIN relations' /\ relations'[t].attrs = cut
      BY <1>2, <1>6, <3>1, AltersTo DEF ReachesFamily
    <3>3. KeysOf(columns) = Retain(KeysOf(tables[t].columns), {column})
      BY <1>3, KeysRetained DEF WithoutColumn
    <3>4. /\ Pg!Live(cut) = Retain(Pg!Live(attrs), {column})
          /\ Pg!DroppedSlots(cut) = Pg!DroppedSlots(attrs) + 1
      BY <1>1, <1>4, <1>6, <3>1, LiveDropped, SlotDropped
    <3>5. AgreesWith(later, cut)
      <4> HIDE DEF columns, cut
      <4> QED BY <2>2, <3>1, <3>3, <3>4 DEF AgreesWith, Keys, KeysOf
    <3> QED BY <1>2, <2>3, <3>2, <3>5, SpareRight
  <2> QED BY <1>3, <1>6, <2>4, <2>5 DEF Right
<1> QED BY <1>0, <1>5, <1>6

LEMMA RenameColumnRight ==
    ASSUME StateOK, RelationsOK, Right, NEW t, Departs(Pg!Partitions(t)),
           NEW old \in Column, NEW new \in Column,
           RenameColumn(t, old, new), Pg!RenameColumn(t, old, new)
    PROVE  Right'
<1> DEFINE attrs == relations[t].attrs
           live == Pg!Live(attrs)
           renamed == Pg!EditNamed(attrs, old, Pg!Attribute(new))
           n == FirstColumn(tables[t], old)
           column == [tables[t].columns[n] EXCEPT !.key = new]
           columns == [tables[t].columns EXCEPT ![n] = column]
<1>2. /\ t \in DOMAIN relations /\ Spares(t) /\ RelationsOK'
      /\ old \in Elements(live) /\ ReachesFamily(t) /\ Alters(t, renamed)
  BY PgRenames
<1>3. /\ t \in DOMAIN tables /\ tables[t] \in FoldedTable
      /\ tables[t].columns \in Seq(FoldedColumn)
  BY TableTyped DEF RenameColumn
<1>0. CASE t \in departed
  <2>1. t \in departed' /\ FolderSpares(t)
    BY <1>0, <1>2, <1>3, EditedTable DEF Spares, FolderSpares, RenameColumn, EditColumn
  <2> QED BY <1>2, <2>1, FlaggedRight
<1>4. t \notin departed => attrs \in Seq(Attr) /\ Injective(live)
  BY <1>2 DEF RelationsOK, Relation
<1>5. CASE t \notin departed /\ ~HasColumn(tables[t], old)
  <2>1. tables' = tables
    BY <1>5 DEF RenameColumn, EditColumn
  <2>2. tables[t].incomplete
    BY <1>2, <1>3, <1>5, AgreesForm, HasKey DEF Right, AgreesWith
  <2> QED BY <1>2, <2>1, <2>2, FlaggedRight DEF FolderSpares
<1>6. CASE t \notin departed /\ HasColumn(tables[t], old)
  <2> DEFINE later == MarkAltered([tables[t] EXCEPT !.columns = columns])
  <2>1. tables' = [tables EXCEPT ![t] = later]
    BY <1>6 DEF RenameColumn, EditColumn
  <2>2. /\ later.columns = columns /\ later.dropped_count = tables[t].dropped_count
        /\ later.incomplete = tables[t].incomplete
    <3> HIDE DEF columns
    <3> QED BY <1>3, MarkKeeps
  <2> HIDE DEF later
  <2>3. tables'[t] = later /\ FolderSpares(t)
    BY <1>3, <2>1, EditedTable
  <2>4. CASE tables[t].incomplete
    BY <1>2, <2>2, <2>3, <2>4, FlaggedRight
  <2>5. CASE Agrees(t)
    <3>1. AgreesWith(tables[t], attrs)
      BY <2>5, AgreesForm
    <3>2. t \in DOMAIN relations' /\ relations'[t].attrs = renamed
      BY <1>2, <1>6, AltersTo DEF ReachesFamily
    <3>3. n \in DOMAIN tables[t].columns /\ tables[t].columns[n].key = old
      BY <1>3, <1>6, FirstColumnFound
    <3>4. KeysOf(columns) = [KeysOf(tables[t].columns) EXCEPT ![n] = new]
      <4>1. column.key = new
        BY <1>3, <3>3 DEF FoldedColumn
      <4> HIDE DEF n, column
      <4> QED BY <1>3, <3>3, <4>1, KeysEdited
    <3>5. KeysOf(tables[t].columns) = live
      BY <3>1 DEF AgreesWith, Keys, KeysOf
    <3>6. /\ Pg!Live(renamed) = [i \in DOMAIN live |-> IF live[i] = old THEN new ELSE live[i]]
          /\ Pg!DroppedSlots(renamed) = Pg!DroppedSlots(attrs)
      BY <1>4, <1>6, LiveRenamed
    <3>7. \A i \in DOMAIN live : live[i] = old <=> i = n
      <4>1. n \in DOMAIN live /\ live[n] = old
        BY <3>3, <3>5 DEF KeysOf
      <4> HIDE DEF n, live
      <4> QED BY <1>4, <1>6, <4>1 DEF Injective
    <3>8. Pg!Live(renamed) = KeysOf(columns)
      <4> HIDE DEF n, live, renamed, columns
      <4>1. \A i \in DOMAIN live :
                (IF live[i] = old THEN new ELSE live[i]) = [live EXCEPT ![n] = new][i]
        BY <3>7
      <4>2. live = [i \in DOMAIN live |-> live[i]]
        BY <3>5 DEF KeysOf
      <4> QED BY <3>4, <3>5, <3>6, <3>7, <4>1, <4>2
    <3>9. AgreesWith(later, renamed)
      <4> HIDE DEF columns, renamed
      <4> QED BY <2>2, <3>1, <3>6, <3>8 DEF AgreesWith, Keys, KeysOf
    <3> QED BY <1>2, <2>3, <3>2, <3>9, SpareRight
  <2> QED BY <1>3, <1>6, <2>4, <2>5 DEF Right
<1> QED BY <1>0, <1>5, <1>6

LEMMA UnanalyzableRight ==
    ASSUME Right, NEW t, Unanalyzable(t), Spares(t)
    PROVE  Right'
BY FlaggedRight DEF Unanalyzable, FolderSpares

LEMMA SeriesAlterSound ==
    ASSUME Sound, NEW t \in Table, SeriesAlter(t)
    PROVE  Sound'
<1>1. ASSUME AlterTable(t)
      PROVE  PositionOK' /\ line' \in Nat
  BY <1>1, AlterTablePosition DEF Sound
<1>2. ASSUME NEW raw \in Raws, NEW ine \in BOOLEAN,
             Altered(t, AddColumn(t, raw, ine), Pg!AddColumn(t, raw.key, ine))
      PROVE  Sound'
  <2>1. /\ raw \in RawColumn /\ raw.key \in Column
        /\ AlterTable(t) /\ Departs(Pg!Partitions(t))
        /\ Unanalyzable(t) \/ AddColumn(t, raw, ine)
        /\ Pg!AddColumn(t, raw.key, ine)
    BY <1>2, WorkloadAssumption DEF Altered, RawColumn
  <2>2. PositionOK' /\ line' \in Nat
    BY <1>1, <2>1
  <2>3. RelationsOK' /\ Spares(t)
    BY <2>1, <2>2, PgAdds DEF Sound
  <2>4. StateOK' /\ NotesKept
    BY <2>1, <2>2, UnanalyzableTyped, UnanalyzableTraced, AddColumnTyped, AddColumnTraced
    DEF Sound, Traced
  <2>5. Right => Right'
    BY <2>1, <2>2, <2>3, UnanalyzableRight, AddColumnRight DEF Sound
  <2> QED BY <2>2, <2>3, <2>4, <2>5, SoundStep
<1>3. ASSUME NEW column \in Column, NEW if_exists \in BOOLEAN,
             Altered(t, DropColumns(t, column, if_exists), Pg!DropColumn(t, column, if_exists))
      PROVE  Sound'
  <2>1. /\ AlterTable(t) /\ Departs(Pg!Partitions(t))
        /\ Unanalyzable(t) \/ DropColumns(t, column, if_exists)
        /\ Pg!DropColumn(t, column, if_exists)
    BY <1>3 DEF Altered
  <2>2. PositionOK' /\ line' \in Nat
    BY <1>1, <2>1
  <2>3. RelationsOK' /\ Spares(t)
    BY <2>1, <2>2, PgDrops DEF Sound
  <2>4. StateOK' /\ NotesKept
    BY <2>1, <2>2, UnanalyzableTyped, UnanalyzableTraced, DropColumnsTyped, DropColumnsTraced
    DEF Sound, Traced
  <2>5. Right => Right'
    BY <2>1, <2>2, <2>3, UnanalyzableRight, DropColumnsRight DEF Sound
  <2> QED BY <2>2, <2>3, <2>4, <2>5, SoundStep
<1> QED BY <1>2, <1>3 DEF SeriesAlter

-----------------------------------------------------------------------------
(* Renames and drops, in both. *)

LEMMA RenameTableRight ==
    ASSUME StateOK, RelationsOK, Right, NEW t, NEW new \in Table,
           Unanalyzable(t) \/ RenameTable(t, new), Pg!RenameTable(t, new),
           departed' = (departed \ {t}) \cup {name \in {new} : t \in departed}
    PROVE  Right'
<1>1. /\ t \in DOMAIN relations /\ new \notin DOMAIN relations
      /\ new \in DOMAIN relations'
      /\ t \notin departed => relations'[new].attrs = relations[t].attrs
      /\ \A r \in DOMAIN relations \ {t} :
             /\ r \in DOMAIN relations'
             /\ r \notin departed => relations'[r].attrs = relations[r].attrs
  BY PgRenamesTable
<1>2. ASSUME NEW key \in DOMAIN tables' \ departed', key # t, key \in DOMAIN tables,
             tables'[key] = tables[key]
      PROVE  tables'[key].incomplete \/ Agrees(key)'
  <2>1. key \notin departed
    BY <1>2
  <2>2. tables[key].incomplete \/ Agrees(key)
    BY <1>2, <2>1 DEF Right
  <2> QED BY <1>1, <1>2, <2>1, <2>2, AgreesForm
<1>3. CASE Unanalyzable(t)
  <2>1. tables' = tables /\ t \notin DOMAIN tables
    BY <1>3 DEF Unanalyzable
  <2> QED BY <1>2, <2>1 DEF Right
<1>4. CASE RenameTable(t, new)
  <2> DEFINE moved == MarkAltered(tables[t])
  <2>1. t \in DOMAIN tables /\ tables' = Put(Remove(tables, t), new, moved)
    BY <1>4 DEF RenameTable
  <2>2. /\ moved.columns = tables[t].columns /\ moved.incomplete = tables[t].incomplete
        /\ moved.dropped_count = tables[t].dropped_count
    BY <2>1, TableTyped, MarkKeeps
  <2> HIDE DEF moved
  <2>3. /\ tables'[new] = moved
        /\ \A key \in DOMAIN tables' \ {new} :
               key # t /\ key \in DOMAIN tables /\ tables'[key] = tables[key]
    BY <2>1 DEF Put, Remove
  <2>4. t \notin departed => moved.incomplete \/ AgreesWith(moved, relations[t].attrs)
    BY <2>1, <2>2, AgreesForm DEF Right, AgreesWith, Keys
  <2>5. new \notin departed' => tables'[new].incomplete \/ Agrees(new)'
    <3>1. new \notin departed' => t \notin departed
      OBVIOUS
    <3> QED BY <1>1, <2>3, <2>4, <3>1, AgreesForm
  <2> QED BY <1>2, <2>3, <2>5 DEF Right
<1> QED BY <1>3, <1>4

LEMMA SeriesRenameSound ==
    ASSUME Sound, NEW t \in Table, SeriesRename(t)
    PROVE  Sound'
<1>1. PositionOK' /\ line' \in Nat
  BY NewStatementPosition DEF Sound, SeriesRename
<1>2. ASSUME NEW old \in Column, NEW new \in Column, Departs(Pg!Partitions(t)),
             Unanalyzable(t) \/ RenameColumn(t, old, new), Pg!RenameColumn(t, old, new)
      PROVE  Sound'
  <2>1. RelationsOK' /\ Spares(t)
    BY <1>2, PgRenames DEF Sound
  <2>2. StateOK' /\ NotesKept
    BY <1>1, <1>2, UnanalyzableTyped, UnanalyzableTraced, RenameColumnTyped, RenameColumnTraced
    DEF Sound, Traced
  <2>3. Right => Right'
    BY <1>2, <2>1, UnanalyzableRight, RenameColumnRight DEF Sound
  <2> QED BY <1>1, <2>1, <2>2, <2>3, SoundStep
<1>3. ASSUME NEW new \in Table, Unanalyzable(t) \/ RenameTable(t, new), Pg!RenameTable(t, new),
             departed' = (departed \ {t}) \cup {name \in {new} : t \in departed}
      PROVE  Sound'
  <2>1. RelationsOK'
    BY <1>3, PgRenamesTable DEF Sound
  <2>2. StateOK' /\ NotesKept
    BY <1>1, <1>3, UnanalyzableTyped, UnanalyzableTraced, RenameTableTyped, RenameTableTraced
    DEF Sound, Traced
  <2>3. Right => Right'
    BY <1>3, RenameTableRight DEF Sound
  <2> QED BY <1>1, <2>1, <2>2, <2>3, SoundStep
<1> QED BY <1>2, <1>3 DEF SeriesRename

LEMMA SeriesDropSound ==
    ASSUME Sound, NEW names \in DropLists, NEW if_exists \in BOOLEAN,
           SeriesDrop(names, if_exists)
    PROVE  Sound'
<1>1. /\ DropTables(names, if_exists)
      /\ Pg!DropTables(Elements(names), if_exists)
      /\ departed' = (departed \cup UNION {Pg!Partitions(t) : t \in Elements(names)})
                         \ Elements(names)
  BY DEF SeriesDrop
<1>2. StateOK' /\ PositionOK' /\ NotesKept
  BY <1>1, DropTablesTyped, DropTablesTraced DEF Sound, Traced
<1>3. /\ RelationsOK'
      /\ \A r \in DOMAIN relations \ Elements(names) :
             r \notin departed' => /\ r \notin departed
                                   /\ r \in DOMAIN relations' /\ relations'[r] = relations[r]
  BY <1>1, PgDropsTable DEF Sound
<1>4. Right => Right'
  <2>1. \A key \in DOMAIN tables' :
            /\ key \in DOMAIN tables \ Elements(names)
            /\ tables'[key] = tables[key]
    BY <1>1 DEF DropTables
  <2>2. ASSUME Right, NEW key \in DOMAIN tables' \ departed'
        PROVE  tables'[key].incomplete \/ Agrees(key)'
    <3>1. key \in DOMAIN tables \ departed /\ key \notin Elements(names)
      BY <1>1, <2>1, <2>2
    <3>2. tables[key].incomplete \/ Agrees(key)
      BY <2>2, <3>1 DEF Right
    <3> QED BY <1>3, <2>1, <2>2, <3>1, <3>2, AgreesForm
  <2> QED BY <2>2 DEF Right
<1> QED BY <1>2, <1>3, <1>4, SoundStep

-----------------------------------------------------------------------------
(* Statements the replay cannot read. *)

LEMMA Unattributable ==
    ASSUME Sound, line' \in Nat, NEW kind \in {"SkippedStatement", "DoBlockDdl"},
           notes' = Append(notes, Note(kind, NoName))
    PROVE  Unattributed'
<1>1. Note(kind, NoName) \in Elements(notes')
  BY NoteAdded DEF Sound, NoteKind
<1>2. Note(kind, NoName).kind = kind /\ Note(kind, NoName).about = NoName
  BY OneNote
<1> QED BY <1>1, <1>2 DEF Unattributed

LEMMA SeriesSkippedSound ==
    ASSUME Sound, NEW t \in Table, SeriesSkipped(t)
    PROVE  Sound'
<1>1. ASSUME NEW sniffs, Skipped(sniffs, t)
      PROVE  StateOK' /\ PositionOK' /\ NotesKept /\ line' \in Nat
  <2>1. StateOK' /\ PositionOK'
    BY <1>1, SkippedTyped DEF Sound
  <2>2. NotesKept
    BY <1>1, SkippedTraced DEF Sound, Traced
  <2>3. line' \in Nat
    BY <1>1, NewStatementPosition DEF Sound, Skipped
  <2> QED BY <2>1, <2>2, <2>3
<1>2. CASE Skipped("alter", t) /\ PgUnseen(t)
  <2>1. RelationsOK' /\ Spares(t)
    BY <1>2, UnseenSpares DEF Sound
  <2>2. FolderSpares(t) /\ (t \in DOMAIN tables' => tables'[t].incomplete)
    <3>1. /\ t \in DOMAIN tables =>
                 tables' = [tables EXCEPT ![t] = [tables[t] EXCEPT !.incomplete = TRUE]]
          /\ t \notin DOMAIN tables => tables' = tables
      BY <1>2 DEF Skipped
    <3>2. t \in DOMAIN tables => [tables[t] EXCEPT !.incomplete = TRUE].incomplete
      BY TableTyped DEF Sound, FoldedTable
    <3> QED BY <3>1, <3>2, EditedTable DEF FolderSpares
  <2>3. Right => Right'
    BY <2>1, <2>2, FlaggedRight
  <2> QED BY <1>1, <1>2, <2>1, <2>3, SoundStep
<1>3. CASE /\ Skipped("create", t)
           /\ Pg!KeepExisting(t) \/ \E attrs \in UnknownColumns : Pg!Create(t, attrs, NoName)
           /\ UNCHANGED departed
  <2>1. tables' = tables
    BY <1>3 DEF Skipped
  <2>2. CASE Pg!KeepExisting(t)
    <3>1. RelationsOK' /\ (Right => Right')
      BY <1>3, <2>1, <2>2, SameRelations, StillRight DEF Pg!KeepExisting, Sound
    <3> QED BY <1>1, <1>3, <3>1, SoundStep
  <2>3. CASE \E attrs \in UnknownColumns : Pg!Create(t, attrs, NoName)
    <3>1. RelationsOK' /\ Spares(t) /\ t \notin DOMAIN relations
      BY <1>3, <2>3, UnknownTyped, PgCreates DEF Sound
    <3>2. Right => Right'
      BY <1>3, <2>1, <3>1, FlaggedRight, MissingIsFlagged DEF FolderSpares
    <3> QED BY <1>1, <1>3, <3>1, <3>2, SoundStep
  <2> QED BY <1>3, <2>2, <2>3
<1>4. CASE Skipped("nothing", t) /\ PgUnseen(t)
  <2>1. RelationsOK'
    BY <1>4, UnseenSpares DEF Sound
  <2>2. Unattributed'
    BY <1>1, <1>4, Unattributable DEF Skipped
  <2> QED BY <1>1, <1>4, <2>1, <2>2, SoundStep
<1> QED BY <1>2, <1>3, <1>4 DEF SeriesSkipped

LEMMA SeriesDoBlockSound ==
    ASSUME Sound, NEW t \in Table, SeriesDoBlock(t)
    PROVE  Sound'
<1>1. PgUnseen(t) /\ (ConditionalTableDdl(t) \/ DoBlockNote)
  BY DEF SeriesDoBlock
<1>2. RelationsOK' /\ Spares(t)
  BY <1>1, UnseenSpares DEF Sound
<1>3. StateOK' /\ PositionOK' /\ NotesKept /\ line' \in Nat
  BY <1>1, DoBlockTyped, DoBlockTraced, NewStatementPosition
  DEF Sound, Traced, ConditionalTableDdl, DoBlockNote
<1>4. CASE ConditionalTableDdl(t)
  <2>1. FolderSpares(t) /\ (t \in DOMAIN tables' => tables'[t].incomplete)
    <3>1. /\ t \in DOMAIN tables =>
                 tables' = [tables EXCEPT ![t] = [tables[t] EXCEPT !.incomplete = TRUE]]
          /\ t \notin DOMAIN tables => tables' = tables
      BY <1>4 DEF ConditionalTableDdl
    <3>2. t \in DOMAIN tables => [tables[t] EXCEPT !.incomplete = TRUE].incomplete
      BY TableTyped DEF Sound, FoldedTable
    <3> QED BY <3>1, <3>2, EditedTable DEF FolderSpares
  <2> QED BY <1>2, <1>3, <2>1, FlaggedRight, SoundStep
<1>5. CASE DoBlockNote
  <2>1. Unattributed'
    BY <1>3, <1>5, Unattributable DEF DoBlockNote
  <2> QED BY <1>2, <1>3, <2>1, SoundStep
<1> QED BY <1>1, <1>4, <1>5

-----------------------------------------------------------------------------

LEMMA SoundKept ==
    ASSUME Sound, [PgNext]_pgvars
    PROVE  Sound'
<1>1. CASE \E t \in Table, create \in Creates : SeriesCreate(t, create)
  BY <1>1, SeriesCreateSound
<1>2. CASE \E t \in Table : SeriesAlter(t)
  BY <1>2, SeriesAlterSound
<1>3. CASE \E t \in Table : SeriesRename(t)
  BY <1>3, SeriesRenameSound
<1>4. CASE \E names \in DropLists, if_exists \in BOOLEAN : SeriesDrop(names, if_exists)
  BY <1>4, SeriesDropSound
<1>5. CASE \E t \in Table : SeriesSkipped(t)
  BY <1>5, SeriesSkippedSound
<1>6. CASE \E t \in Table : SeriesDoBlock(t)
  BY <1>6, SeriesDoBlockSound
<1>7. CASE UNCHANGED pgvars
  <2>1. UNCHANGED relations /\ UNCHANGED vars /\ departed' = departed
    BY <1>7 DEF pgvars
  <2>2. StateOK' /\ PositionOK'
    BY <2>1, StateOKPrime DEF Sound, StateOK, PositionOK, vars
  <2>3. NotesKept /\ tables' = tables
    BY <2>1, SameNotes DEF vars
  <2>4. RelationsOK' /\ (Right => Right')
    BY <2>1, <2>3, SameRelations, StillRight DEF Sound
  <2> QED BY <2>2, <2>3, <2>4, SoundStep
<1> QED BY <1>1, <1>2, <1>3, <1>4, <1>5, <1>6, <1>7 DEF PgNext

LEMMA SoundAtFirst == PgInit => Sound
<1> SUFFICES ASSUME PgInit PROVE Sound
  OBVIOUS
<1>1. Init /\ relations = EmptyMap
  BY DEF PgInit
<1>2. StateOK /\ PositionOK
  BY <1>1, InitTyped
<1>3. DOMAIN relations = {} /\ DOMAIN tables = {}
  BY <1>1 DEF Init, EmptyMap
<1> QED BY <1>2, <1>3 DEF Sound, RelationsOK, NeverSilentlyWrong

\* "A linter must never be silently wrong": after any series of statements that
\* Postgres accepts, as long as every unreadable one could be attributed to a table,
\* a table the replay calls complete exists in Postgres with exactly the modeled
\* columns, in the modeled order, and with the modeled number of dropped slots,
\* unless it has departed: it is a partition of a table altered or dropped later, a
\* table CREATE TABLE IF NOT EXISTS found in Postgres only, or a copy of a table
\* with dropped slots.
THEOREM CompleteIsRight == PgSpec => []NeverSilentlyWrong
<1>1. Sound /\ [PgNext]_pgvars => Sound'
  BY SoundKept
<1>2. Sound => NeverSilentlyWrong
  BY DEF Sound
<1> QED BY <1>1, <1>2, SoundAtFirst, PTL DEF PgSpec
=============================================================================
