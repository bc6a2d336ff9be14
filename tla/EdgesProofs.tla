----------------------------- MODULE EdgesProofs -----------------------------
(***************************************************************************)
(* Where the program meets what is around it: the baseline file; what      *)
(* comes in, names, trees and files; and what goes out.                    *)
(***************************************************************************)
EXTENDS BaselineFile, Inputs, Outputs, CollectionsProofs, FiniteSetTheorems

-----------------------------------------------------------------------------
(* The baseline file, for any number of runs, tables and commands: as long   *)
(* as no run uses the file while another writes it, nothing is loaded but    *)
(* what was written to the end, wherever runs are killed; and runs that      *)
(* follow each other neither lose what was written nor touch entries they    *)
(* were not asked to.                                                        *)

\* Each variable of a run is what the actions keep it to be.
RunsTyped ==
    /\ command \in [Run -> Commands]
    /\ pc \in [Run -> Label]
    /\ found \in [Run -> Baselines]
    /\ got \in [Run -> Seq(Piece)]
    /\ loaded \in [Run -> Baselines \cup {NoBaseline}]
    /\ updated \in [Run -> Baselines \cup {NoBaseline}]
    /\ sent \in [Run -> Nat]
    /\ exit \in [Run -> Outcome]
    /\ \A r \in Run : pc[r] \in {"open", "write"} => updated[r] \in Baselines
    /\ \A r \in Run : pc[r] # "write" => sent[r] = 0
    /\ \A r \in Run : pc[r] = "write" => sent[r] < Length(r)
    /\ \A r \in Run : pc[r] # "read" => got[r] = << >>
    /\ \A r \in Run : exit[r] = "none" <=> pc[r] # "done"

FileTyped ==
    /\ file \in {NoFile} \cup Seq(Piece)
    /\ written \in Seq(Baselines)
    /\ \A r \in Run : pc[r] \in {"read", "write"} => file # NoFile

Typed == RunsTyped /\ FileTyped

-----------------------------------------------------------------------------
(* Texts. *)

LEMMA PieceKinds ==
    /\ Opening.kind = "opening" /\ Closing.kind = "closing" /\ LineEnd.kind = "line end"
    /\ Zeros.kind = "zeros" /\ Broken.kind = "broken"
    /\ \A key, comma : /\ Entry(key, comma).kind = "entry"
                         /\ Entry(key, comma).table = key
BY DEF Opening, Closing, LineEnd, Zeros, Broken, Entry

LEMMA EntryTable ==
    ASSUME NEW piece \in Piece, piece.kind = "entry"
    PROVE  piece.table \in Table
<1>1. piece \notin {Opening, Closing, LineEnd, Zeros, Broken}
  BY PieceKinds
<1>2. PICK key \in Table, comma \in BOOLEAN : piece = Entry(key, comma)
  BY <1>1 DEF Piece
<1> QED BY <1>2, PieceKinds

LEMMA TextFacts ==
    ASSUME NEW baseline \in Baselines
    PROVE  LET keys == TableOrder[baseline]
               text == Text(baseline)
               n == Len(TableOrder[baseline])
           IN  /\ n \in Nat /\ keys \in Seq(Table)
               /\ text \in Seq(Piece) /\ Len(text) = n + 3 /\ DOMAIN text = 1..(n + 3)
               /\ text[1] = Opening /\ text[n + 2] = Closing /\ text[n + 3] = LineEnd
               /\ \A i \in 2..(n + 1) : text[i].kind = "entry" /\ text[i].table = keys[i - 1]
<1> DEFINE keys == TableOrder[baseline]
           text == Text(baseline)
           n == Len(TableOrder[baseline])
<1>1. keys \in Seq(Table) /\ n \in Nat
  BY BaselineFileAssumption DEF Baselines
<1>2. text = [i \in 1..(n + 3) |->
                 CASE i = 1 -> Opening
                   [] i \in 2..(n + 1) -> Entry(keys[i - 1], i # n + 1)
                   [] i = n + 2 -> Closing
                   [] i = n + 3 -> LineEnd]
  BY DEF Text
<1> HIDE DEF text
<1>3. text[1] = Opening /\ text[n + 2] = Closing /\ text[n + 3] = LineEnd
  BY <1>1, <1>2
<1>4. ASSUME NEW i \in 2..(n + 1)
      PROVE  text[i].kind = "entry" /\ text[i].table = keys[i - 1] /\ text[i] \in Piece
  <2>1. i - 1 \in 1..n /\ i \in 1..(n + 3) /\ i # 1
    BY <1>1
  <2>2. keys[i - 1] \in Table
    BY <1>1, <2>1
  <2> DEFINE comma == i # n + 1
             key == keys[i - 1]
  <2>3. text[i] = Entry(key, comma)
    BY <1>2, <2>1
  <2>4. comma \in BOOLEAN
    OBVIOUS
  <2> HIDE DEF comma, key
  <2>5. Entry(key, comma) \in Piece
    BY <2>2, <2>4 DEF Piece, key
  <2>6. Entry(key, comma).kind = "entry" /\ Entry(key, comma).table = key
    BY DEF Entry
  <2> QED BY <2>3, <2>5, <2>6 DEF key
<1>5. ASSUME NEW i \in 1..(n + 3) PROVE text[i] \in Piece
  <2>1. i \in 2..(n + 1) \/ i = 1 \/ i = n + 2 \/ i = n + 3
    BY <1>1
  <2>2. {Opening, Closing, LineEnd} \subseteq Piece
    BY DEF Piece
  <2> QED BY <1>3, <1>4, <2>1, <2>2
<1>6. text \in Seq(Piece) /\ Len(text) = n + 3 /\ DOMAIN text = 1..(n + 3)
  <2>1. text = [i \in 1..(n + 3) |-> text[i]] /\ n + 3 \in Nat
    BY <1>1, <1>2
  <2> DEFINE m == n + 3
  <2> HIDE DEF m, n
  <2>2. text = [i \in 1..m |-> text[i]] /\ m \in Nat /\ \A i \in 1..m : text[i] \in Piece
    BY <1>5, <2>1 DEF m
  <2>3. text \in Seq(Piece) /\ Len(text) = m /\ DOMAIN text = 1..m
    BY <2>2
  <2> QED BY <2>3 DEF m
<1> QED BY <1>1, <1>3, <1>4, <1>6 DEF text

\* A text of m pieces that closes at `end`, cut off where it may be from a whole one with n
\* entries.
CutOff(n, whole, text, m, end) ==
    /\ n \in Nat /\ m \in Nat /\ end \in 1..m /\ m <= n + 3 /\ DOMAIN text = 1..m
    /\ whole[1] = Opening /\ whole[n + 3] = LineEnd
    /\ \A i \in 2..(n + 1) : whole[i].kind = "entry"
    /\ \A i \in 1..m : text[i] = whole[i] \/ text[i] = Broken
    /\ text[1] = Opening /\ text[end] = Closing
    /\ \A i \in 2..(end - 1) : text[i].kind = "entry"
    /\ \A i \in DOMAIN text : i > end => text[i] = LineEnd

LEMMA Closed ==
    ASSUME NEW n, NEW whole, NEW text, NEW m, NEW end, CutOff(n, whole, text, m, end)
    PROVE  end = n + 2 /\ {j \in DOMAIN text : text[j].kind = "entry"} = 2..(n + 1)
<1> USE DEF CutOff
<1>1. whole[end] = Closing
  BY PieceKinds
<1>2. end \in 1..(n + 3)
  OBVIOUS
<1>3. end # 1 /\ end # n + 3
  BY <1>1, PieceKinds
<1>4. end \notin 2..(n + 1)
  BY <1>1, PieceKinds
<1>5. end = n + 2
  BY <1>2, <1>3, <1>4
<1>6. ASSUME NEW j \in 1..m, text[j].kind = "entry" PROVE j \in 2..(n + 1)
  <2>1. j # 1 /\ j # end
    BY <1>6, PieceKinds
  <2>2. ~(j > end)
    <3>1. j > end => text[j] = LineEnd
      OBVIOUS
    <3> QED BY <1>6, <3>1, PieceKinds
  <2> QED BY <1>5, <2>1, <2>2
<1>7. \A j \in 2..(n + 1) : j \in 1..m /\ text[j].kind = "entry"
  BY <1>5
<1> QED BY <1>5, <1>6, <1>7

\* A text is JSON with its closing or not at all: what agrees with a baseline's text, but
\* perhaps for a last piece cut short, closes where that does, and says the same.
LEMMA JsonToTheEnd ==
    ASSUME NEW baseline \in Baselines, NEW text \in Seq(Piece), IsJson(text),
           Len(text) <= Len(Text(baseline)),
           \A i \in 1..Len(text) :
               text[i] = Text(baseline)[i] \/ (i = Len(text) /\ text[i] = Broken)
    PROVE  /\ Len(TableOrder[baseline]) + 2 \in 1..Len(text)
           /\ text[Len(TableOrder[baseline]) + 2] = Closing
           /\ Parsed(text) = baseline
<1> DEFINE n == Len(TableOrder[baseline])
           keys == TableOrder[baseline]
           whole == Text(baseline)
<1>1. /\ n \in Nat /\ keys \in Seq(Table)
      /\ Len(whole) = n + 3
      /\ whole[1] = Opening /\ whole[n + 2] = Closing /\ whole[n + 3] = LineEnd
      /\ \A i \in 2..(n + 1) : whole[i].kind = "entry" /\ whole[i].table = keys[i - 1]
  BY TextFacts
<1>2. PICK end \in DOMAIN text :
          /\ text[1] = Opening /\ text[end] = Closing
          /\ \A i \in 2..(end - 1) : text[i].kind = "entry" /\ text[i].comma = (i # end - 1)
          /\ \A i \in DOMAIN text : i > end => text[i] = LineEnd
  BY DEF IsJson
<1>3. /\ Len(text) \in Nat /\ end \in 1..Len(text) /\ Len(text) <= n + 3
      /\ DOMAIN text = 1..Len(text)
      /\ \A i \in 1..Len(text) : text[i] = whole[i] \/ text[i] = Broken
  BY <1>1
<1>4. end = n + 2 /\ {j \in DOMAIN text : text[j].kind = "entry"} = 2..(n + 1)
  <2> HIDE DEF n, keys, whole
  <2> DEFINE m == Len(text)
  <2>1. CutOff(n, whole, text, m, end)
    BY <1>1, <1>2, <1>3 DEF CutOff
  <2> HIDE DEF n, whole, m
  <2> QED BY <2>1, Closed
<1>5. \A j \in 2..(n + 1) : text[j].table = keys[j - 1]
  <2> SUFFICES ASSUME NEW j \in 2..(n + 1) PROVE text[j].table = keys[j - 1]
    OBVIOUS
  <2>1. whole[j].table = keys[j - 1]
    BY <1>1
  <2>2. j \in DOMAIN text /\ text[j].kind = "entry"
    BY <1>4
  <2>3. text[j] = whole[j]
    BY <1>3, <2>2, PieceKinds
  <2> HIDE DEF n, keys, whole
  <2> QED BY <2>1, <2>3
<1>6. Parsed(text) = {keys[i] : i \in 1..n}
  <2>1. Parsed(text) = {text[j].table : j \in 2..(n + 1)}
    BY <1>4 DEF Parsed
  <2> HIDE DEF n, keys, whole
  <2>2. \A j \in 2..(n + 1) : j - 1 \in 1..n /\ text[j].table = keys[j - 1]
    BY <1>1, <1>5
  <2>3. ASSUME NEW i \in 1..n PROVE \E j \in 2..(n + 1) : text[j].table = keys[i]
    <3>1. i + 1 \in 2..(n + 1) /\ (i + 1) - 1 = i
      BY <1>1
    <3> QED BY <2>2, <3>1
  <2>4. ASSUME NEW key \in Parsed(text) PROVE \E i \in 1..n : key = keys[i]
    <3>1. PICK j \in 2..(n + 1) : key = text[j].table
      BY <2>1
    <3> QED BY <2>2, <3>1
  <2>5. ASSUME NEW i \in 1..n PROVE keys[i] \in Parsed(text)
    <3>1. PICK j \in 2..(n + 1) : text[j].table = keys[i]
      BY <2>3
    <3> QED BY <2>1, <3>1
  <2> DEFINE tables == {keys[i] : i \in 1..n}
  <2>6. \A key : key \in tables <=> \E i \in 1..n : key = keys[i]
    OBVIOUS
  <2> HIDE DEF tables
  <2>7. Parsed(text) = tables
    BY <2>4, <2>5, <2>6
  <2> QED BY <2>7 DEF tables
<1>7. baseline = {keys[i] : i \in DOMAIN keys}
  BY BaselineFileAssumption DEF Baselines
<1>8. Parsed(text) = baseline
  <2>1. DOMAIN keys = 1..n
    BY <1>1
  <2> HIDE DEF n, keys
  <2> QED BY <1>6, <1>7, <2>1
<1>9. n + 2 \in 1..Len(text) /\ text[n + 2] = Closing
  <2> HIDE DEF n
  <2> QED BY <1>2, <1>3, <1>4
<1> QED BY <1>8, <1>9

LEMMA TextParsed ==
    ASSUME NEW baseline \in Baselines
    PROVE  IsJson(Text(baseline)) /\ Parsed(Text(baseline)) = baseline
<1> DEFINE n == Len(TableOrder[baseline])
           keys == TableOrder[baseline]
           whole == Text(baseline)
<1>1. /\ n \in Nat /\ whole \in Seq(Piece) /\ Len(whole) = n + 3 /\ DOMAIN whole = 1..(n + 3)
      /\ whole[1] = Opening /\ whole[n + 2] = Closing /\ whole[n + 3] = LineEnd
      /\ \A i \in 2..(n + 1) : whole[i].kind = "entry"
  BY TextFacts
<1>2. \A i \in 2..(n + 1) : whole[i].comma = (i # n + 1)
  <2> SUFFICES ASSUME NEW i \in 2..(n + 1) PROVE whole[i].comma = (i # n + 1)
    OBVIOUS
  <2> DEFINE comma == i # n + 1
             key == keys[i - 1]
  <2>1. i \in 1..(n + 3) /\ i # 1
    BY <1>1
  <2>2. whole[i] = Entry(key, comma)
    BY <1>1, <2>1 DEF Text
  <2> HIDE DEF comma, key, whole
  <2>3. whole[i].comma = comma
    BY <2>2 DEF Entry
  <2> QED BY <2>3 DEF comma
<1>3. IsJson(whole)
  <2> DEFINE end == n + 2
  <2> HIDE DEF whole, n
  <2>1. end \in DOMAIN whole /\ end - 1 = n + 1 /\ \A i \in DOMAIN whole : i > end => i = n + 3
    BY <1>1
  <2> HIDE DEF end
  <2>2. /\ whole[1] = Opening /\ whole[end] = Closing
        /\ \A i \in 2..(end - 1) : whole[i].kind = "entry" /\ whole[i].comma = (i # end - 1)
        /\ \A i \in DOMAIN whole : i > end => whole[i] = LineEnd
    BY <1>1, <1>2, <2>1 DEF end
  <2> QED BY <2>1, <2>2 DEF IsJson
<1>4. Parsed(whole) = baseline
  <2> HIDE DEF whole
  <2>1. \A i \in 1..Len(whole) : whole[i] = Text(baseline)[i]
    BY DEF whole
  <2>2. Len(whole) <= Len(Text(baseline))
    BY <1>1 DEF whole
  <2> QED BY <1>1, <1>3, <2>1, <2>2, JsonToTheEnd
<1> QED BY <1>3, <1>4

LEMMA ParsedTyped ==
    ASSUME NEW text \in Seq(Piece)
    PROVE  Parsed(text) \in Baselines
BY EntryTable DEF Parsed, Baselines

LEMMA OverlayTyped ==
    ASSUME NEW text \in Seq(Piece), NEW at \in Nat \ {0}, NEW piece \in Piece
    PROVE  Overlay(text, at, piece) \in Seq(Piece)
<1> DEFINE n == IF at > Len(text) THEN at ELSE Len(text)
           new == Overlay(text, at, piece)
<1>1. n \in Nat /\ Len(text) \in Nat
  OBVIOUS
<1>2. new = [i \in 1..n |-> IF i = at THEN piece
                            ELSE IF i <= Len(text) THEN text[i] ELSE Zeros]
  BY DEF Overlay
<1>3. \A i \in 1..Len(text) : text[i] \in Piece
  OBVIOUS
<1>4. Zeros \in Piece
  BY DEF Piece
<1> HIDE DEF n, new
<1>5. new = [i \in 1..n |-> new[i]] /\ \A i \in 1..n : new[i] \in Piece
  BY <1>1, <1>2, <1>3, <1>4
<1>6. new \in Seq(Piece)
  BY <1>1, <1>5
<1> QED BY <1>6 DEF new

\* The next piece of a text, where it goes.
LEMMA OverlayAtEnd ==
    ASSUME NEW text \in Seq(Piece), NEW piece \in Piece
    PROVE  LET new == Overlay(text, Len(text) + 1, piece)
           IN  /\ new \in Seq(Piece) /\ Len(new) = Len(text) + 1
               /\ new[Len(text) + 1] = piece
               /\ \A i \in 1..Len(text) : new[i] = text[i]
<1> DEFINE n == Len(text) + 1
           new == Overlay(text, n, piece)
<1>1. n \in Nat \ {0} /\ Len(text) \in Nat /\ n > Len(text)
  OBVIOUS
<1>2. new = [i \in 1..n |-> IF i = n THEN piece
                            ELSE IF i <= Len(text) THEN text[i] ELSE Zeros]
  BY <1>1 DEF Overlay
<1>3. new[n] = piece /\ \A i \in 1..Len(text) : new[i] = text[i]
  BY <1>1, <1>2
<1>4. \A i \in 1..n : new[i] \in Piece
  BY <1>1, <1>3
<1> HIDE DEF n, new
<1>5. new = [i \in 1..n |-> new[i]]
  BY <1>2
<1>6. new \in Seq(Piece) /\ Len(new) = n
  BY <1>1, <1>4, <1>5
<1> QED BY <1>3, <1>6 DEF n, new

-----------------------------------------------------------------------------
(* The runs. *)

LEMMA ExitTyped ==
    ASSUME RunsTyped, NEW r \in Run, NEW how \in Outcome \ {"none"}, Exit(r, how),
           UNCHANGED <<command, updated>>
    PROVE  RunsTyped'
<1> USE DEF RunsTyped, Exit, Goto
<1>1. /\ found' \in [Run -> Baselines] /\ loaded' \in [Run -> Baselines \cup {NoBaseline}]
      /\ got' \in [Run -> Seq(Piece)] /\ sent' \in [Run -> Nat]
  BY DEF Baselines
<1>2. pc' \in [Run -> Label] /\ exit' \in [Run -> Outcome]
  BY DEF Label
<1>3. \A s \in Run : pc'[s] = "write" => s # r
  OBVIOUS
<1>4. \A s \in Run : Length(s)' = Length(s)
  BY DEF Length
<1> QED BY <1>1, <1>2, <1>3, <1>4

\* A step of a run that goes on, and writes no piece.
LEMMA GoesOn ==
    ASSUME RunsTyped, NEW r \in Run, NEW label \in Label \ {"done", "write"}, Goto(r, label),
           pc[r] \notin {"done", "write"},
           found' \in [Run -> Baselines], got' \in [Run -> Seq(Piece)],
           loaded' \in [Run -> Baselines \cup {NoBaseline}],
           updated' \in [Run -> Baselines \cup {NoBaseline}],
           label = "open" => updated'[r] \in Baselines,
           label # "read" => got'[r] = << >>,
           \A s \in Run \ {r} : updated'[s] = updated[s] /\ got'[s] = got[s],
           UNCHANGED <<command, sent, exit>>
    PROVE  RunsTyped'
<1> USE DEF RunsTyped, Goto
<1>1. \A s \in Run : pc'[s] = "write" => s # r
  OBVIOUS
<1>2. \A s \in Run \ {r} : Length(s)' = Length(s)
  BY DEF Length
<1> QED BY <1>1, <1>2

LEMMA PrepareTyped ==
    ASSUME RunsTyped, NEW r \in Run, NEW baseline \in Baselines, Prepare(r, baseline),
           pc[r] = "edit"
    PROVE  RunsTyped'
<1>1. updated' = [updated EXCEPT ![r] = baseline] /\ updated'[r] = baseline
  BY DEF Prepare, RunsTyped
<1>2. updated' \in [Run -> Baselines \cup {NoBaseline}]
  BY <1>1 DEF RunsTyped
<1>3. Goto(r, "open") /\ UNCHANGED <<found, got, loaded, command, sent, exit>>
  BY DEF Prepare
<1>4. "open" \in Label \ {"done", "write"}
  BY DEF Label
<1> QED BY <1>1, <1>2, <1>3, <1>4, GoesOn DEF RunsTyped

LEMMA UpdateTyped ==
    ASSUME RunsTyped, NEW r \in Run, Update(r)
    PROVE  RunsTyped'
<1>1. found[r] \in Baselines /\ pc[r] = "edit"
  BY DEF Update, RunsTyped
<1> QED BY <1>1, PrepareTyped, ExitTyped DEF Update, Reject, Outcome

LEMMA AcceptTyped ==
    ASSUME RunsTyped, NEW r \in Run, Accept(r)
    PROVE  RunsTyped'
<1>1. pc[r] = "edit"
  BY DEF Accept, RunsTyped
<1>2. loaded[r] # NoBaseline => Accepted(r) \in Baselines
  BY DEF RunsTyped, Accepted, Baselines
<1> QED BY <1>1, <1>2, PrepareTyped, ExitTyped DEF Accept, Reject, Outcome

LEMMA LoadTyped ==
    ASSUME RunsTyped, NEW r \in Run, Load(r)
    PROVE  RunsTyped'
<1>1. CASE IsJson(got[r])
  <2> DEFINE label == IF command[r].kind = "gate" THEN "gate" ELSE "edit"
             baseline == Parsed(got[r])
  <2>1. baseline \in Baselines
    BY ParsedTyped DEF RunsTyped
  <2>2. /\ loaded' = [loaded EXCEPT ![r] = baseline] /\ got' = [got EXCEPT ![r] = << >>]
        /\ Goto(r, label) /\ UNCHANGED <<found, sent, exit, command, updated>>
        /\ pc[r] = "read"
    BY <1>1 DEF Load, Loads
  <2>3. label \in Label \ {"done", "write", "open"}
    BY DEF Label
  <2> HIDE DEF label, baseline
  <2>4. loaded' \in [Run -> Baselines \cup {NoBaseline}] /\ got' \in [Run -> Seq(Piece)]
    BY <2>1, <2>2 DEF RunsTyped
  <2> QED BY <2>2, <2>3, <2>4, GoesOn DEF RunsTyped
<1>2. CASE ~IsJson(got[r])
  BY <1>2, ExitTyped DEF Load, Outcome
<1> QED BY <1>1, <1>2

LEMMA AnalyzeTyped ==
    ASSUME RunsTyped, NEW r \in Run, Analyze(r)
    PROVE  RunsTyped'
<1> DEFINE label == IF command[r].kind = "gate" THEN "load" ELSE "exists"
<1>1. /\ pc[r] = "idle" /\ Goto(r, label)
      /\ UNCHANGED <<command, got, loaded, updated, sent, exit>>
      /\ found' \in [Run -> Baselines]
  BY BaselineFileAssumption DEF Analyze, RunsTyped, Baselines
<1>2. label \in Label \ {"done", "write", "open"}
  BY DEF Label
<1> HIDE DEF label
<1> QED BY <1>1, <1>2, GoesOn DEF RunsTyped

LEMMA CheckExistsTyped ==
    ASSUME RunsTyped, NEW r \in Run, CheckExists(r)
    PROVE  RunsTyped'
<1> DEFINE label == IF file = NoFile THEN "edit" ELSE "load"
<1>1. /\ pc[r] = "exists" /\ Goto(r, label)
      /\ UNCHANGED <<command, found, got, loaded, updated, sent, exit>>
  BY DEF CheckExists
<1>2. label \in Label \ {"done", "write", "open"}
  BY DEF Label
<1> HIDE DEF label
<1> QED BY <1>1, <1>2, GoesOn DEF RunsTyped

LEMMA OpenToReadTyped ==
    ASSUME RunsTyped, NEW r \in Run, OpenToRead(r)
    PROVE  RunsTyped'
<1>1. CASE file = NoFile
  BY <1>1, ExitTyped DEF OpenToRead, Outcome
<1>2. CASE file # NoFile
  <2>1. /\ pc[r] = "load" /\ Goto(r, "read")
        /\ UNCHANGED <<command, found, got, loaded, updated, sent, exit>>
    BY <1>2 DEF OpenToRead
  <2>2. "read" \in Label \ {"done", "write", "open"}
    BY DEF Label
  <2> QED BY <2>1, <2>2, GoesOn DEF RunsTyped
<1> QED BY <1>1, <1>2

LEMMA ReadPieceTyped ==
    ASSUME Typed, NEW r \in Run, ReadPiece(r)
    PROVE  RunsTyped'
<1>1. file \in Seq(Piece) /\ got[r] \in Seq(Piece) /\ Len(got[r]) < Len(file)
  BY DEF ReadPiece, AtEnd, Typed, RunsTyped, FileTyped
<1>2. file[Len(got[r]) + 1] \in Piece
  BY <1>1
<1>3. got' = [got EXCEPT ![r] = Append(got[r], file[Len(got[r]) + 1])]
  BY DEF ReadPiece
<1>4. got' \in [Run -> Seq(Piece)]
  BY <1>1, <1>2, <1>3 DEF Typed, RunsTyped
<1>5. UNCHANGED <<command, pc, found, loaded, updated, sent, exit>> /\ pc[r] = "read"
  BY DEF ReadPiece
<1>6. \A s \in Run : pc'[s] # "read" => got'[s] = << >>
  BY <1>3, <1>5 DEF Typed, RunsTyped
<1> HIDE DEF ReadPiece
<1> QED BY <1>4, <1>5, <1>6 DEF Typed, RunsTyped, Length

LEMMA OpenTyped ==
    ASSUME RunsTyped, NEW r \in Run, Open(r)
    PROVE  RunsTyped'
<1>1. updated[r] \in Baselines /\ sent[r] = 0 /\ exit[r] = "none"
  BY DEF Open, RunsTyped
<1>2. 0 < Length(r)
  BY <1>1, TextFacts DEF Length
<1>3. \A s \in Run : Length(s)' = Length(s)
  BY DEF Open, Length
<1> QED BY <1>1, <1>2, <1>3 DEF Open, Goto, RunsTyped, Label

LEMMA WriteTyped ==
    ASSUME RunsTyped, NEW r \in Run, Write(r)
    PROVE  RunsTyped'
<1>1. CASE sent[r] + 1 < Length(r)
  <2>1. /\ sent' = [sent EXCEPT ![r] = sent[r] + 1] /\ pc[r] = "write"
        /\ UNCHANGED <<command, pc, found, got, loaded, updated, exit>>
    BY <1>1 DEF Write, Writing
  <2>2. \A s \in Run : Length(s)' = Length(s)
    BY <2>1 DEF Length
  <2> QED BY <1>1, <2>1, <2>2 DEF RunsTyped
<1>2. CASE ~(sent[r] + 1 < Length(r))
  BY <1>2, ExitTyped DEF Write, Outcome
<1> QED BY <1>1, <1>2

LEMMA RunsTypedStep ==
    ASSUME Typed, [Next]_vars
    PROVE  RunsTyped'
<1> USE DEF Typed
<1>1. ASSUME NEW r \in Run, Gate(r) PROVE RunsTyped'
  BY <1>1, ExitTyped DEF Gate, Outcome
<1>2. ASSUME NEW r \in Run, Fault(r) PROVE RunsTyped'
  BY <1>2, ExitTyped DEF Fault, OpenFails, WriteFails, Kill, Reject, Outcome
<1>3. CASE UNCHANGED vars
  BY <1>3 DEF vars, RunsTyped, Length
<1> QED BY <1>1, <1>2, <1>3, AnalyzeTyped, CheckExistsTyped, OpenToReadTyped, ReadPieceTyped,
           LoadTyped, UpdateTyped, AcceptTyped, OpenTyped, WriteTyped DEF Next, Step, Done

-----------------------------------------------------------------------------
(* The file. *)

LEMMA WriteFile ==
    ASSUME Typed, NEW r \in Run, Writing(r), NEW piece \in Piece,
           file' = Overlay(file, sent[r] + 1, piece)
    PROVE  file' \in Seq(Piece) /\ file' # NoFile
<1>1. file \in Seq(Piece) /\ sent[r] + 1 \in Nat \ {0}
  BY DEF Typed, RunsTyped, FileTyped, Writing
<1>2. file' \in Seq(Piece)
  <2> DEFINE at == sent[r] + 1
  <2>1. at \in Nat \ {0}
    BY <1>1
  <2> HIDE DEF at
  <2>2. Overlay(file, at, piece) \in Seq(Piece)
    BY <1>1, <2>1, OverlayTyped
  <2> QED BY <2>2 DEF at
<1> QED BY <1>2, BaselineFileAssumption

\* The piece a run writes next.
LEMMA NextPiece ==
    ASSUME Typed, NEW r \in Run, Writing(r)
    PROVE  /\ updated[r] \in Baselines /\ sent[r] \in Nat /\ Length(r) \in Nat
           /\ sent[r] + 1 \in 1..Length(r)
           /\ Text(updated[r])[sent[r] + 1] \in Piece
<1>1. /\ updated[r] \in Baselines /\ sent[r] \in Nat /\ sent[r] < Length(r)
  BY DEF Typed, RunsTyped, Writing
<1>2. Text(updated[r]) \in Seq(Piece) /\ Length(r) \in Nat
  BY <1>1, TextFacts DEF Length
<1>3. sent[r] + 1 \in 1..Length(r)
  BY <1>1, <1>2
<1> QED BY <1>1, <1>2, <1>3 DEF Length

LEMMA CutShortFile ==
    ASSUME Typed, NEW r \in Run, Writing(r), CutShort(r)
    PROVE  file' \in Seq(Piece) /\ file' # NoFile /\ written' \in Seq(Baselines)
<1>1. written' \in Seq(Baselines)
  <2>1. updated[r] \in Baselines /\ written \in Seq(Baselines)
    BY NextPiece DEF Typed, FileTyped
  <2>2. written' = written \/ written' = Append(written, updated[r])
    BY DEF CutShort, StopBetween, StopWithin
  <2> QED BY <2>1, <2>2
<1>2. CASE StopBetween(r)
  BY <1>1, <1>2, BaselineFileAssumption DEF StopBetween, Typed, FileTyped, Writing
<1>3. CASE StopWithin(r)
  <2>1. PICK piece \in Piece : file' = Overlay(file, sent[r] + 1, piece)
    BY <1>3 DEF StopWithin, Piece
  <2> QED BY <1>1, <2>1, WriteFile
<1> QED BY <1>2, <1>3 DEF CutShort

\* Only Open and those who write change the file.
LEMMA FileAlone ==
    ASSUME NEW r \in Run,
           \/ Analyze(r) \/ CheckExists(r) \/ OpenToRead(r) \/ ReadPiece(r) \/ Load(r) \/ Gate(r)
           \/ Update(r) \/ Accept(r) \/ OpenFails(r) \/ (Kill(r) /\ ~Writing(r))
    PROVE  UNCHANGED <<file, written>>
BY DEF Analyze, CheckExists, OpenToRead, ReadPiece, Load, Gate, Update, Accept, Prepare, Reject,
       OpenFails, Kill, histories

\* And only they and who opens it to read come to use it.
LEMMA NotAtFile ==
    ASSUME Typed, NEW r \in Run,
           \/ Analyze(r) \/ CheckExists(r) \/ Load(r) \/ Gate(r) \/ Update(r) \/ Accept(r)
           \/ OpenFails(r) \/ WriteFails(r) \/ Kill(r) \/ (OpenToRead(r) /\ file = NoFile)
    PROVE  pc'[r] \notin {"read", "write"}
BY DEF Analyze, CheckExists, OpenToRead, Load, Loads, Gate, Update, Accept, Prepare, Reject,
       OpenFails, WriteFails, Kill, Exit, Goto, Typed, RunsTyped

\* What the steps of one run leave to another.
LEMMA OthersKept ==
    ASSUME Typed, NEW r \in Run, NEW s \in Run \ {r}, Analyze(r) \/ Step(r) \/ Fault(r)
    PROVE  /\ pc'[s] = pc[s] /\ exit'[s] = exit[s] /\ loaded'[s] = loaded[s]
           /\ updated'[s] = updated[s] /\ found'[s] = found[s] /\ got'[s] = got[s]
           /\ sent'[s] = sent[s] /\ command' = command
<1> USE DEF Typed, RunsTyped, Goto, histories
<1>1. CASE Analyze(r)
  BY <1>1 DEF Analyze
<1>2. CASE CheckExists(r)
  BY <1>2 DEF CheckExists
<1>3. CASE OpenToRead(r)
  BY <1>3 DEF OpenToRead, Exit
<1>4. CASE ReadPiece(r)
  BY <1>4 DEF ReadPiece
<1>5. CASE Load(r)
  BY <1>5 DEF Load, Loads, Exit
<1>6. CASE Gate(r)
  BY <1>6 DEF Gate, Exit
<1>7. CASE Update(r)
  BY <1>7 DEF Update, Prepare, Reject, Exit
<1>8. CASE Accept(r)
  BY <1>8 DEF Accept, Prepare, Reject, Exit
<1>9. CASE Open(r)
  BY <1>9 DEF Open
<1>10. CASE Write(r)
  BY <1>10 DEF Write, Exit
<1>11. CASE Fault(r)
  BY <1>11 DEF Fault, OpenFails, WriteFails, Kill, Reject, Exit
<1> QED BY <1>1, <1>2, <1>3, <1>4, <1>5, <1>6, <1>7, <1>8, <1>9, <1>10, <1>11 DEF Step

LEMMA FileTypedStep ==
    ASSUME Typed, [Next]_vars
    PROVE  FileTyped'
<1>1. ASSUME NEW r \in Run, Open(r) PROVE FileTyped'
  <2>1. file' = << >> /\ written' = written
    BY <1>1 DEF Open
  <2>2. file' \in Seq(Piece)
    BY <2>1
  <2> QED BY <2>1, <2>2, BaselineFileAssumption DEF FileTyped, Typed
<1>2. ASSUME NEW r \in Run, Write(r) PROVE FileTyped'
  <2>1. Writing(r) /\ file' = Overlay(file, sent[r] + 1, Text(updated[r])[sent[r] + 1])
        /\ (written' = written \/ written' = Append(written, updated[r]))
    BY <1>2 DEF Write
  <2>2. file' \in Seq(Piece) /\ file' # NoFile
    BY <2>1, NextPiece, WriteFile
  <2>3. written' \in Seq(Baselines)
    BY <2>1, NextPiece DEF Typed, FileTyped
  <2> QED BY <2>2, <2>3 DEF FileTyped
<1>3. ASSUME NEW r \in Run, Writing(r), WriteFails(r) \/ Kill(r) PROVE FileTyped'
  BY <1>3, CutShortFile DEF WriteFails, Kill, FileTyped
<1>4. ASSUME NEW r \in Run,
             \/ Analyze(r) \/ CheckExists(r) \/ OpenToRead(r) \/ ReadPiece(r) \/ Load(r) \/ Gate(r)
             \/ Update(r) \/ Accept(r) \/ OpenFails(r) \/ (Kill(r) /\ ~Writing(r))
      PROVE  FileTyped'
  <2>1. UNCHANGED <<file, written>>
    BY <1>4, FileAlone
  <2>2. \A s \in Run \ {r} : pc'[s] = pc[s]
    BY <1>4, OthersKept DEF Step, Fault
  <2>3. pc'[r] \in {"read", "write"} => file # NoFile
    <3>1. CASE OpenToRead(r) /\ file # NoFile
      BY <3>1
    <3>2. CASE ReadPiece(r)
      BY <3>2 DEF ReadPiece, Typed, FileTyped
    <3> QED BY <1>4, <3>1, <3>2, NotAtFile
  <2> QED BY <2>1, <2>2, <2>3 DEF Typed, FileTyped
<1>5. CASE UNCHANGED vars
  BY <1>5 DEF vars, histories, Typed, FileTyped
<1> QED BY <1>1, <1>2, <1>3, <1>4, <1>5 DEF Next, Step, Fault, Done, WriteFails

\* What the first file holds.
LEMMA FirstFile ==
    ASSUME Init, file # NoFile
    PROVE  \E baseline \in Baselines : file = Text(baseline) /\ written = << baseline >>
BY BaselineFileAssumption DEF Init, Baselines

LEMMA TypedAlways == Spec => []Typed
<1>1. Init => Typed
  <2> SUFFICES ASSUME Init PROVE Typed
    OBVIOUS
  <2>1. RunsTyped
    BY DEF Init, RunsTyped, Baselines, Label, Outcome
  <2>2. ASSUME file = NoFile PROVE FileTyped
    <3>1. written = << >>
      BY <2>2, TextFacts, BaselineFileAssumption DEF Init, Baselines
    <3> QED BY <2>2, <3>1 DEF Init, FileTyped
  <2>3. ASSUME file # NoFile PROVE FileTyped
    <3>1. PICK baseline \in Baselines : file = Text(baseline) /\ written = << baseline >>
      BY <2>3, FirstFile
    <3>2. written \in Seq(Baselines) /\ file \in Seq(Piece)
      BY <3>1, TextFacts
    <3> QED BY <2>3, <3>2 DEF FileTyped
  <2> QED BY <2>1, <2>2, <2>3 DEF Typed
<1>2. Typed /\ [Next]_vars => Typed'
  BY RunsTypedStep, FileTypedStep DEF Typed
<1> QED BY <1>1, <1>2, PTL DEF Spec

-----------------------------------------------------------------------------
(* Runs that overlap, are killed, and meet a failing disk, but do not use    *)
(* the file while another writes it.                                         *)

WrittenBefore(baseline) == \E i \in DOMAIN written : written[i] = baseline

Undisturbed == \A w \in Run : Writing(w) => \A r \in Run \ {w} : pc[r] \notin {"read", "write"}

\* Who writes has put what it has sent into the file, and nothing else is there.
InHand ==
    \A w \in Run : Writing(w) =>
        /\ Len(file) = sent[w]
        /\ \A i \in 1..sent[w] : file[i] = Text(updated[w])[i]

\* A file nobody writes says what was written, or is not JSON.
Kept ==
    (\A w \in Run : ~Writing(w)) /\ file # NoFile /\ IsJson(file) => WrittenBefore(Parsed(file))

\* Who reads has read the beginning of the file.
ReadSoFar ==
    \A r \in Run : pc[r] = "read" =>
        /\ Len(got[r]) <= Len(file)
        /\ \A i \in 1..Len(got[r]) : got[r][i] = file[i]

LoadedBefore == \A r \in Run : loaded[r] # NoBaseline => WrittenBefore(loaded[r])

Safe == Undisturbed /\ InHand /\ Kept /\ ReadSoFar /\ LoadedBefore

SafeInv == collided \in BOOLEAN /\ (~collided => Safe)

LEMMA WrittenGrows ==
    ASSUME Typed, [Next]_vars
    PROVE  \A i \in DOMAIN written : i \in DOMAIN written' /\ written'[i] = written[i]
<1>1. ASSUME NEW r \in Run, Writing(r), written' = Append(written, updated[r])
      PROVE  \A i \in DOMAIN written : i \in DOMAIN written' /\ written'[i] = written[i]
  <2>1. updated[r] \in Baselines /\ written \in Seq(Baselines)
    BY <1>1, NextPiece DEF Typed, FileTyped
  <2> QED BY <1>1, <2>1
<1>2. ASSUME NEW r \in Run, Analyze(r) \/ Step(r) \/ Fault(r)
      PROVE  \/ written' = written
             \/ Writing(r) /\ written' = Append(written, updated[r])
  BY <1>2, FileAlone DEF Step, Fault, Open, Write, WriteFails, Kill, CutShort,
                           StopBetween, StopWithin
<1>3. CASE UNCHANGED vars
  BY <1>3 DEF vars, histories
<1> QED BY <1>1, <1>2, <1>3 DEF Next, Done

LEMMA BeforeStays ==
    ASSUME Typed, [Next]_vars, NEW baseline, WrittenBefore(baseline)
    PROVE  WrittenBefore(baseline)'
BY WrittenGrows DEF WrittenBefore

\* What is appended to the history is in it.
LEMMA BeforeAppended ==
    ASSUME Typed, NEW baseline \in Baselines, written' = Append(written, baseline)
    PROVE  \E i \in DOMAIN written' : written'[i] = baseline
<1>1. written \in Seq(Baselines)
  BY DEF Typed, FileTyped
<1>2. Len(written) + 1 \in DOMAIN written' /\ written'[Len(written) + 1] = baseline
  BY <1>1
<1> QED BY <1>2

LEMMA CollisionSticks ==
    ASSUME collided \in BOOLEAN, [Next]_vars
    PROVE  collided' \in BOOLEAN /\ (collided => collided')
BY DEF Next, Step, Fault, Done, vars, histories, Analyze, CheckExists, OpenToRead, ReadPiece, Load,
       Gate, Update, Accept, Open, Write, OpenFails, WriteFails, Kill, Prepare, Reject

\* What a reader at the file's end has is the file.
LEMMA ReadAll ==
    ASSUME Typed, ReadSoFar, NEW r \in Run, pc[r] = "read", AtEnd(r)
    PROVE  got[r] = file
<1>1. file \in Seq(Piece) /\ got[r] \in Seq(Piece)
  BY DEF Typed, RunsTyped, FileTyped
<1>2. Len(got[r]) = Len(file) /\ \A i \in 1..Len(got[r]) : got[r][i] = file[i]
  BY <1>1 DEF ReadSoFar, AtEnd
<1> QED BY <1>1, <1>2

\* A writer between two steps, and one that has got no further than its last piece.
LEMMA WriterExtends ==
    ASSUME Typed, InHand, NEW r \in Run, Writing(r), NEW piece \in Piece,
           file' = Overlay(file, sent[r] + 1, piece)
    PROVE  /\ file' \in Seq(Piece) /\ Len(file') = sent[r] + 1 /\ file'[sent[r] + 1] = piece
           /\ \A i \in 1..sent[r] : file'[i] = Text(updated[r])[i]
<1>1. /\ file \in Seq(Piece) /\ Len(file) = sent[r]
      /\ \A i \in 1..sent[r] : file[i] = Text(updated[r])[i]
  BY DEF Typed, FileTyped, InHand, Writing
<1> DEFINE new == Overlay(file, Len(file) + 1, piece)
<1>2. /\ new \in Seq(Piece) /\ Len(new) = Len(file) + 1 /\ new[Len(file) + 1] = piece
      /\ \A i \in 1..Len(file) : new[i] = file[i]
  BY <1>1, OverlayAtEnd
<1>3. file' = new
  BY <1>1
<1> HIDE DEF new
<1> QED BY <1>1, <1>2, <1>3

\* What is in the file of a text cut short is not JSON, or all of it but the newline.
LEMMA CutShortJson ==
    ASSUME Typed, InHand, NEW r \in Run, Writing(r), CutShort(r), IsJson(file)'
    PROVE  Parsed(file)' = updated[r] /\ written' = Append(written, updated[r])
<1> DEFINE n == Len(TableOrder[updated[r]])
           whole == Text(updated[r])
<1>1. /\ updated[r] \in Baselines /\ sent[r] \in Nat /\ Length(r) \in Nat
      /\ sent[r] + 1 \in 1..Length(r)
  BY NextPiece
<1>2. n \in Nat /\ Length(r) = n + 3 /\ whole[n + 2] = Closing
  BY <1>1, TextFacts DEF Length
<1>3. IsJson(file')
  BY DEF IsJson
<1>4. CASE StopBetween(r)
  <2>1. /\ file' \in Seq(Piece) /\ Len(file') = sent[r]
        /\ \A i \in 1..Len(file') : file'[i] = whole[i]
    BY <1>4 DEF StopBetween, InHand, Typed, FileTyped, Writing
  <2>2. Len(file') <= Len(whole)
    BY <1>1, <2>1 DEF Length
  <2>3. n + 2 \in 1..Len(file') /\ Parsed(file') = updated[r]
    BY <1>1, <1>3, <2>1, <2>2, JsonToTheEnd
  <2>4. sent[r] + 1 = Length(r)
    <3> HIDE DEF n
    <3> QED BY <1>1, <1>2, <2>1, <2>3
  <2> QED BY <1>4, <2>3, <2>4 DEF StopBetween, Parsed
<1>5. CASE StopWithin(r)
  <2>1. file \in Seq(Piece) /\ Len(file) = sent[r]
    BY DEF InHand, Typed, FileTyped, Writing
  <2>2. file' = Overlay(file, sent[r] + 1, Broken) /\ sent[r] + 1 < Length(r) /\ Broken \in Piece
    BY <1>1, <1>5, <2>1 DEF StopWithin, Piece
  <2>3. /\ file' \in Seq(Piece) /\ Len(file') = sent[r] + 1 /\ file'[sent[r] + 1] = Broken
        /\ \A i \in 1..sent[r] : file'[i] = whole[i]
    BY <2>2, WriterExtends
  <2>4. /\ Len(file') <= Len(whole)
        /\ \A i \in 1..Len(file') : file'[i] = whole[i] \/ (i = Len(file') /\ file'[i] = Broken)
    BY <1>1, <2>2, <2>3 DEF Length
  <2>5. n + 2 \in 1..Len(file') /\ file'[n + 2] = Closing
    BY <1>1, <1>3, <2>3, <2>4, JsonToTheEnd
  <2>6. n + 2 = sent[r] + 1
    <3> HIDE DEF n
    <3> QED BY <1>1, <1>2, <2>2, <2>3, <2>5
  <2>7. Closing = Broken
    BY <2>3, <2>5, <2>6
  <2> QED BY <2>7, PieceKinds
<1> QED BY <1>4, <1>5 DEF CutShort

\* What a step that does not come to the file leaves of all that.
LEMMA AwayFromFile ==
    ASSUME Typed, Undisturbed, InHand, Kept, ReadSoFar, [Next]_vars,
           NEW r \in Run, Analyze(r) \/ Step(r) \/ Fault(r), ~Writing(r),
           pc'[r] \notin {"read", "write"}, UNCHANGED <<file, written>>
    PROVE  (Undisturbed /\ InHand /\ Kept /\ ReadSoFar)'
<1>1. \A s \in Run \ {r} : /\ pc'[s] = pc[s] /\ got'[s] = got[s]
                           /\ updated'[s] = updated[s] /\ sent'[s] = sent[s]
  BY OthersKept
<1>2. \A s \in Run : Writing(s)' <=> Writing(s)
  BY <1>1 DEF Writing
<1>3. \A s \in Run : pc'[s] \in {"read", "write"} => s # r /\ pc[s] \in {"read", "write"}
  BY <1>1
<1>4. Undisturbed'
  BY <1>2, <1>3 DEF Undisturbed
<1>5. InHand'
  <2> SUFFICES ASSUME NEW w \in Run, Writing(w)'
               PROVE  /\ Len(file') = sent'[w]
                      /\ \A i \in 1..sent'[w] : file'[i] = Text(updated'[w])[i]
    BY DEF InHand, Text
  <2>1. w # r /\ Writing(w)
    BY <1>2
  <2> QED BY <1>1, <2>1 DEF InHand
<1>6. Kept'
  BY <1>2 DEF Kept, IsJson, Parsed, WrittenBefore
<1>7. ReadSoFar'
  BY <1>1 DEF ReadSoFar
<1> QED BY <1>4, <1>5, <1>6, <1>7

\* The runs but one, when they are not at the file.
LEMMA OthersAway ==
    ASSUME Typed, NEW r \in Run, Analyze(r) \/ Step(r) \/ Fault(r),
           \A s \in Run \ {r} : pc[s] \notin {"read", "write"}
    PROVE  \A s \in Run \ {r} : pc'[s] \notin {"read", "write"} /\ ~Writing(s)'
BY OthersKept DEF Writing

LEMMA OpenToReadSafe ==
    ASSUME Typed, Undisturbed, InHand, Kept, ReadSoFar, ~collided', NEW r \in Run, OpenToRead(r),
           file # NoFile
    PROVE  (Undisturbed /\ InHand /\ Kept /\ ReadSoFar)'
<1>1. /\ \A w \in Run : ~Writing(w)
      /\ pc' = [pc EXCEPT ![r] = "read"]
      /\ UNCHANGED <<file, got, updated, sent, written>>
  BY DEF OpenToRead, Goto
<1>2. \A w \in Run : ~Writing(w)'
  BY <1>1 DEF Writing, Typed, RunsTyped
<1>3. got[r] = << >> /\ file \in Seq(Piece)
  BY DEF OpenToRead, Typed, RunsTyped, FileTyped
<1>4. Len(got[r]) = 0 /\ Len(file) \in Nat
  BY <1>3
<1>5. Undisturbed' /\ InHand'
  BY <1>2 DEF Undisturbed, InHand
<1>6. Kept'
  BY <1>1 DEF Kept, IsJson, Parsed, WrittenBefore
<1>7. ReadSoFar'
  BY <1>1, <1>4 DEF ReadSoFar, Typed, RunsTyped
<1> QED BY <1>5, <1>6, <1>7

LEMMA ReadPieceSafe ==
    ASSUME Typed, Undisturbed, InHand, Kept, ReadSoFar, NEW r \in Run, ReadPiece(r)
    PROVE  (Undisturbed /\ InHand /\ Kept /\ ReadSoFar)'
<1>1. /\ pc[r] = "read" /\ Len(got[r]) < Len(file)
      /\ got' = [got EXCEPT ![r] = Append(got[r], file[Len(got[r]) + 1])]
      /\ UNCHANGED <<file, pc, updated, sent, written>>
  BY DEF ReadPiece, AtEnd, histories
<1>2. file \in Seq(Piece) /\ got[r] \in Seq(Piece)
  BY <1>1 DEF Typed, RunsTyped, FileTyped
<1>3. Undisturbed' /\ InHand' /\ Kept'
  BY <1>1 DEF Undisturbed, InHand, Kept, IsJson, Parsed, WrittenBefore, Writing, Text
<1>4. /\ Len(got'[r]) = Len(got[r]) + 1
      /\ \A i \in 1..Len(got'[r]) : got'[r][i] = file[i]
  <2> DEFINE n == Len(got[r])
             next == file[n + 1]
  <2>1. n \in Nat /\ next \in Piece
    BY <1>1, <1>2
  <2>2. got'[r] = Append(got[r], next) /\ \A i \in 1..n : got[r][i] = file[i]
    BY <1>1 DEF ReadSoFar, Typed, RunsTyped
  <2> HIDE DEF next
  <2>3. Len(got'[r]) = n + 1 /\ got'[r][n + 1] = next /\ \A i \in 1..n : got'[r][i] = got[r][i]
    BY <1>2, <2>1, <2>2
  <2>4. \A i \in 1..(n + 1) : i \in 1..n \/ i = n + 1
    BY <2>1
  <2> QED BY <2>2, <2>3, <2>4 DEF next
<1>5. Len(got'[r]) <= Len(file)
  BY <1>1, <1>2, <1>4
<1>6. ReadSoFar'
  BY <1>1, <1>4, <1>5 DEF ReadSoFar, Typed, RunsTyped
<1> QED BY <1>3, <1>6

LEMMA OpenSafe ==
    ASSUME Typed, Undisturbed, InHand, Kept, ReadSoFar, ~collided', NEW r \in Run, Open(r)
    PROVE  (Undisturbed /\ InHand /\ Kept /\ ReadSoFar)'
<1>1. /\ \A s \in Run \ {r} : pc[s] \notin {"read", "write"}
      /\ file' = << >> /\ pc'[r] = "write" /\ sent'[r] = 0
  BY DEF Open, Collides, Goto, Typed, RunsTyped
<1>2. \A s \in Run \ {r} : pc'[s] \notin {"read", "write"} /\ ~Writing(s)'
  BY <1>1, OthersAway DEF Step
<1>3. Writing(r)' /\ Len(file') = 0
  BY <1>1 DEF Writing
<1>4. Undisturbed' /\ Kept' /\ ReadSoFar'
  BY <1>1, <1>2, <1>3 DEF Undisturbed, Kept, ReadSoFar
<1>5. InHand'
  BY <1>1, <1>2, <1>3 DEF InHand
<1> QED BY <1>4, <1>5

\* A run that ends at the file, and leaves none there.
LEMMA LeftAlone ==
    ASSUME Typed, NEW r \in Run, Step(r) \/ Fault(r), Writing(r), Undisturbed,
           pc'[r] \notin {"read", "write"},
           IsJson(file)' => WrittenBefore(Parsed(file))'
    PROVE  (Undisturbed /\ InHand /\ Kept /\ ReadSoFar)'
<1>1. \A s \in Run \ {r} : pc[s] \notin {"read", "write"}
  BY DEF Undisturbed
<1>2. \A s \in Run \ {r} : pc'[s] \notin {"read", "write"} /\ ~Writing(s)'
  BY <1>1, OthersAway
<1>3. \A s \in Run : pc'[s] \notin {"read", "write"} /\ ~Writing(s)'
  BY <1>2 DEF Writing
<1> QED BY <1>3 DEF Undisturbed, InHand, Kept, ReadSoFar

LEMMA CutShortSafe ==
    ASSUME Typed, Undisturbed, InHand, NEW r \in Run, Writing(r), WriteFails(r) \/ Kill(r)
    PROVE  (Undisturbed /\ InHand /\ Kept /\ ReadSoFar)'
<1>1. CutShort(r) /\ Fault(r)
  BY DEF WriteFails, Kill, Fault
<1>2. pc'[r] \notin {"read", "write"}
  BY NotAtFile
<1>3. ASSUME IsJson(file)' PROVE WrittenBefore(Parsed(file))'
  <2>1. Parsed(file)' = updated[r] /\ written' = Append(written, updated[r])
    BY <1>1, <1>3, CutShortJson
  <2>2. updated[r] \in Baselines
    BY NextPiece
  <2>3. \E i \in DOMAIN written' : written'[i] = updated[r]
    BY <2>1, <2>2, BeforeAppended
  <2> QED BY <2>1, <2>3 DEF WrittenBefore
<1> QED BY <1>1, <1>2, <1>3, LeftAlone

\* The last piece is in.
LEMMA WriteEnds ==
    ASSUME Typed, InHand, NEW r \in Run, Write(r), ~(sent[r] + 1 < Length(r))
    PROVE  /\ file' = Text(updated[r]) /\ written' = Append(written, updated[r])
           /\ pc'[r] = "done" /\ exit'[r] = "success"
           /\ updated[r] \in Baselines /\ Parsed(file)' = updated[r]
<1> DEFINE whole == Text(updated[r])
           n == Len(TableOrder[updated[r]])
<1>1. /\ Writing(r) /\ file' = Overlay(file, sent[r] + 1, whole[sent[r] + 1])
      /\ written' = Append(written, updated[r]) /\ Exit(r, "success")
  BY DEF Write
<1>2. /\ updated[r] \in Baselines /\ sent[r] \in Nat /\ Length(r) \in Nat
      /\ sent[r] + 1 \in 1..Length(r) /\ whole[sent[r] + 1] \in Piece
  BY <1>1, NextPiece
<1>3. sent[r] + 1 = Length(r) /\ Length(r) = Len(whole) /\ whole \in Seq(Piece)
  BY <1>2, TextFacts DEF Length
<1>4. /\ file' \in Seq(Piece) /\ Len(file') = sent[r] + 1
      /\ file'[sent[r] + 1] = whole[sent[r] + 1]
      /\ \A i \in 1..sent[r] : file'[i] = whole[i]
  <2> DEFINE piece == whole[sent[r] + 1]
  <2>1. piece \in Piece /\ file' = Overlay(file, sent[r] + 1, piece)
    BY <1>1, <1>2
  <2> HIDE DEF piece
  <2>2. /\ file' \in Seq(Piece) /\ Len(file') = sent[r] + 1 /\ file'[sent[r] + 1] = piece
        /\ \A i \in 1..sent[r] : file'[i] = Text(updated[r])[i]
    BY <1>1, <2>1, WriterExtends
  <2> QED BY <2>2 DEF piece
<1>5. file' = whole
  <2>1. \A i \in 1..Len(whole) : i \in 1..sent[r] \/ i = sent[r] + 1
    BY <1>2, <1>3
  <2>2. \A i \in 1..Len(whole) : file'[i] = whole[i]
    BY <1>4, <2>1
  <2>3. Len(file') = Len(whole)
    BY <1>3, <1>4
  <2> HIDE DEF whole
  <2> QED BY <1>3, <1>4, <2>2, <2>3
<1>6. pc'[r] = "done" /\ exit'[r] = "success"
  BY <1>1 DEF Exit, Goto, Typed, RunsTyped
<1>7. Parsed(file') = updated[r]
  BY <1>2, <1>5, TextParsed
<1> QED BY <1>1, <1>2, <1>5, <1>6, <1>7 DEF Parsed

LEMMA WriteSafe ==
    ASSUME Typed, Undisturbed, InHand, NEW r \in Run, Write(r)
    PROVE  (Undisturbed /\ InHand /\ Kept /\ ReadSoFar)'
<1>1. Writing(r) /\ Step(r)
  BY DEF Write, Step
<1>2. CASE ~(sent[r] + 1 < Length(r))
  <2>1. /\ written' = Append(written, updated[r]) /\ pc'[r] = "done"
        /\ updated[r] \in Baselines /\ Parsed(file)' = updated[r]
    BY <1>2, WriteEnds
  <2>2. \E i \in DOMAIN written' : written'[i] = updated[r]
    BY <2>1, BeforeAppended
  <2>3. WrittenBefore(Parsed(file))'
    BY <2>1, <2>2 DEF WrittenBefore
  <2> QED BY <1>1, <2>1, <2>3, LeftAlone
<1>3. CASE sent[r] + 1 < Length(r)
  <2> DEFINE piece == Text(updated[r])[sent[r] + 1]
  <2>1. /\ file' = Overlay(file, sent[r] + 1, piece)
        /\ sent' = [sent EXCEPT ![r] = sent[r] + 1]
        /\ UNCHANGED <<pc, updated>>
    BY <1>3 DEF Write
  <2>2. piece \in Piece /\ sent[r] \in Nat
    BY <1>1, NextPiece
  <2>3. \A s \in Run \ {r} : pc[s] \notin {"read", "write"}
    BY <1>1 DEF Undisturbed
  <2>4. \A s \in Run \ {r} : pc'[s] \notin {"read", "write"} /\ ~Writing(s)'
    BY <2>1, <2>3 DEF Writing
  <2>5. pc'[r] = "write" /\ Writing(r)'
    BY <1>1, <2>1 DEF Writing
  <2>6. Undisturbed' /\ Kept' /\ ReadSoFar'
    BY <2>4, <2>5 DEF Undisturbed, Kept, ReadSoFar
  <2>7. /\ Len(file') = sent'[r]
        /\ \A i \in 1..sent'[r] : file'[i] = Text(updated[r])[i]
    <3> HIDE DEF piece
    <3>1. /\ file' \in Seq(Piece) /\ Len(file') = sent[r] + 1 /\ file'[sent[r] + 1] = piece
          /\ \A i \in 1..sent[r] : file'[i] = Text(updated[r])[i]
      BY <1>1, <2>1, <2>2, WriterExtends
    <3>2. sent'[r] = sent[r] + 1
      BY <2>1 DEF Typed, RunsTyped
    <3>3. \A i \in 1..(sent[r] + 1) : i \in 1..sent[r] \/ i = sent[r] + 1
      BY <2>2
    <3> QED BY <3>1, <3>2, <3>3 DEF piece
  <2>8. InHand'
    <3> SUFFICES ASSUME NEW w \in Run, Writing(w)'
                 PROVE  /\ Len(file') = sent'[w]
                        /\ \A i \in 1..sent'[w] : file'[i] = Text(updated'[w])[i]
      BY DEF InHand, Text
    <3>1. w = r
      BY <2>4
    <3> QED BY <2>1, <2>7, <3>1
  <2> QED BY <2>6, <2>8
<1> QED BY <1>2, <1>3

LEMMA SafeStep ==
    ASSUME Typed, Safe, ~collided', [Next]_vars
    PROVE  (Undisturbed /\ InHand /\ Kept /\ ReadSoFar)'
<1> USE DEF Safe
<1>1. ASSUME NEW r \in Run,
             \/ Analyze(r) \/ CheckExists(r) \/ Load(r) \/ Gate(r) \/ Update(r) \/ Accept(r)
             \/ OpenFails(r) \/ (Kill(r) /\ ~Writing(r)) \/ (OpenToRead(r) /\ file = NoFile)
      PROVE  (Undisturbed /\ InHand /\ Kept /\ ReadSoFar)'
  <2>1. pc'[r] \notin {"read", "write"} /\ UNCHANGED <<file, written>>
    BY <1>1, NotAtFile, FileAlone
  <2>2. ~Writing(r)
    BY <1>1 DEF Writing, Analyze, CheckExists, Load, Gate, Update, Accept, OpenFails, OpenToRead
  <2>3. Analyze(r) \/ Step(r) \/ Fault(r)
    BY <1>1 DEF Step, Fault
  <2> QED BY <2>1, <2>2, <2>3, AwayFromFile
<1>2. ASSUME NEW r \in Run, OpenToRead(r), file # NoFile
      PROVE  (Undisturbed /\ InHand /\ Kept /\ ReadSoFar)'
  BY <1>2, OpenToReadSafe
<1>3. ASSUME NEW r \in Run, ReadPiece(r) PROVE (Undisturbed /\ InHand /\ Kept /\ ReadSoFar)'
  BY <1>3, ReadPieceSafe
<1>4. ASSUME NEW r \in Run, Open(r) PROVE (Undisturbed /\ InHand /\ Kept /\ ReadSoFar)'
  BY <1>4, OpenSafe
<1>5. ASSUME NEW r \in Run, Write(r) PROVE (Undisturbed /\ InHand /\ Kept /\ ReadSoFar)'
  BY <1>5, WriteSafe
<1>6. ASSUME NEW r \in Run, WriteFails(r) \/ (Kill(r) /\ Writing(r))
      PROVE  (Undisturbed /\ InHand /\ Kept /\ ReadSoFar)'
  BY <1>6, CutShortSafe DEF WriteFails
<1>7. CASE UNCHANGED vars
  <2>1. UNCHANGED <<file, pc, got, updated, sent, written>>
    BY <1>7 DEF vars, histories
  <2>2. Undisturbed' /\ Kept' /\ ReadSoFar'
    BY <2>1 DEF Undisturbed, Kept, ReadSoFar, IsJson, Parsed, WrittenBefore, Writing
  <2>3. InHand'
    <3> SUFFICES ASSUME NEW w \in Run, Writing(w)'
                 PROVE  /\ Len(file') = sent'[w]
                        /\ \A i \in 1..sent'[w] : file'[i] = Text(updated'[w])[i]
      BY DEF InHand, Text
    <3>1. Writing(w)
      BY <2>1 DEF Writing
    <3> QED BY <2>1, <3>1 DEF InHand
  <2> QED BY <2>2, <2>3
<1> QED BY <1>1, <1>2, <1>3, <1>4, <1>5, <1>6, <1>7 DEF Next, Step, Fault, Done

LEMMA LoadedStep ==
    ASSUME Typed, Safe, [Next]_vars
    PROVE  LoadedBefore'
<1>1. ASSUME NEW r \in Run, Load(r), IsJson(got[r])
      PROVE  LoadedBefore'
  <2>1. /\ loaded' = [loaded EXCEPT ![r] = Parsed(got[r])] /\ written' = written
        /\ pc[r] = "read" /\ AtEnd(r)
    BY <1>1 DEF Load, Loads, histories
  <2>2. got[r] = file
    BY <2>1, ReadAll DEF Safe
  <2>3. (\A w \in Run : ~Writing(w)) /\ file # NoFile
    BY <2>1 DEF Safe, Undisturbed, Writing, Typed, FileTyped
  <2>4. WrittenBefore(Parsed(got[r]))
    BY <1>1, <2>2, <2>3 DEF Safe, Kept
  <2> QED BY <2>1, <2>4 DEF LoadedBefore, WrittenBefore, Typed, RunsTyped, Safe
<1>2. ASSUME NEW r \in Run, Analyze(r) \/ Step(r) \/ Fault(r), ~(Load(r) /\ IsJson(got[r]))
      PROVE  \A s \in Run : loaded'[s] \in {loaded[s], NoBaseline}
  <2>1. \A s \in Run \ {r} : loaded'[s] = loaded[s]
    BY <1>2, OthersKept
  <2>2. loaded'[r] \in {loaded[r], NoBaseline}
    BY <1>2 DEF Step, Fault, Analyze, CheckExists, OpenToRead, ReadPiece, Load, Gate, Update,
                Accept, Open, Write, Prepare, Reject, OpenFails, WriteFails, Kill, Exit,
                Typed, RunsTyped
  <2> QED BY <2>1, <2>2
<1>3. CASE UNCHANGED vars
  BY <1>3 DEF vars, histories, Safe, LoadedBefore, WrittenBefore
<1>4. (\A s \in Run : loaded'[s] \in {loaded[s], NoBaseline}) => LoadedBefore'
  BY BeforeStays DEF Safe, LoadedBefore, WrittenBefore
<1> QED BY <1>1, <1>2, <1>3, <1>4 DEF Next, Done

LEMMA SafeInvAlways == Spec => []SafeInv
<1>1. Init => SafeInv
  <2> SUFFICES ASSUME Init PROVE Safe
    BY DEF Init, SafeInv
  <2>1. \A r \in Run : pc[r] = "idle" /\ loaded[r] = NoBaseline
    BY DEF Init
  <2>2. Undisturbed /\ InHand /\ ReadSoFar /\ LoadedBefore
    BY <2>1 DEF Undisturbed, InHand, ReadSoFar, LoadedBefore, Writing
  <2>3. Kept
    <3> SUFFICES ASSUME file # NoFile PROVE WrittenBefore(Parsed(file))
      BY DEF Kept
    <3>1. PICK baseline \in Baselines : file = Text(baseline) /\ written = << baseline >>
      BY FirstFile
    <3>2. Parsed(file) = baseline
      BY <3>1, TextParsed
    <3>3. 1 \in DOMAIN written /\ written[1] = baseline
      BY <3>1
    <3> QED BY <3>2, <3>3 DEF WrittenBefore
  <2> QED BY <2>2, <2>3 DEF Safe
<1>2. Typed /\ SafeInv /\ [Next]_vars => SafeInv'
  <2> SUFFICES ASSUME Typed, SafeInv, [Next]_vars PROVE SafeInv'
    OBVIOUS
  <2>1. collided' \in BOOLEAN /\ (~collided' => ~collided)
    BY CollisionSticks DEF SafeInv
  <2>2. ASSUME ~collided' PROVE Safe'
    <3>1. Safe
      BY <2>1, <2>2 DEF SafeInv
    <3>2. (Undisturbed /\ InHand /\ Kept /\ ReadSoFar)'
      BY <2>2, <3>1, SafeStep
    <3>3. LoadedBefore'
      BY <3>1, LoadedStep
    <3> QED BY <3>2, <3>3 DEF Safe
  <2> QED BY <2>1, <2>2 DEF SafeInv
<1> QED BY <1>1, <1>2, TypedAlways, PTL DEF Spec

\* Crash safety: wherever runs are killed or failed by the disk in the middle of a write,
\* and however they overlap but in the use of the file, no gate and no edit is by a
\* baseline other than one whose text was written to its last brace.
THEOREM LoadedAlwaysWritten == Spec => []LoadedWasWritten
<1>1. SafeInv => LoadedWasWritten
  BY DEF SafeInv, Safe, LoadedBefore, WrittenBefore, LoadedWasWritten
<1> QED BY <1>1, SafeInvAlways, PTL

-----------------------------------------------------------------------------
(* Runs that follow each other. *)

OneAtATime == \A r, s \in Run : Running(r) /\ Running(s) => r = s

\* The file is the last baseline written, but for a run in the middle of its write and
\* for what an interrupted one has left, which says that baseline or is not JSON.
FileLast ==
    /\ (\A r \in Run : ~Writing(r)) /\ file # NoFile /\ IsJson(file) =>
           written # << >> /\ Parsed(file) = Last
    /\ (\A r \in Run : ~Interrupted(r) /\ ~Writing(r)) =>
           file = IF written = << >> THEN NoFile ELSE Text(Last)

\* A run going on has loaded the last baseline written, and --accept edits that one.
EditsLastBy(r) ==
    /\ pc[r] \in {"idle", "exists", "load", "read"} => loaded[r] = NoBaseline
    /\ pc[r] = "gate" => command[r].kind = "gate"
    /\ Running(r) /\ loaded[r] # NoBaseline => written # << >> /\ loaded[r] = Last
    /\ pc[r] \in {"open", "write"} /\ command[r].kind = "accept" =>
           loaded[r] # NoBaseline /\ updated[r] = Accepted(r)

EditsLast == \A r \in Run : EditsLastBy(r)

Serial == OneAtATime /\ ~collided /\ FileLast /\ EditsLast

SerialInv == overlapped \in BOOLEAN /\ (~overlapped => Serial)

LEMMA AtWork ==
    ASSUME Typed, NEW r \in Run, pc[r] \notin {"idle", "done"}
    PROVE  Running(r) /\ exit[r] = "none" /\ ~Interrupted(r)
BY DEF Typed, RunsTyped, Running, Interrupted

LEMMA Halted ==
    ASSUME Typed, NEW r \in Run, pc[r] \in {"idle", "done"}
    PROVE  ~Running(r)
BY DEF Typed, RunsTyped, Running

LEMMA OverlapSticks ==
    ASSUME overlapped \in BOOLEAN, [Next]_vars
    PROVE  overlapped' \in BOOLEAN /\ (overlapped => overlapped')
BY DEF Next, Step, Fault, Done, vars, histories, Analyze, CheckExists, OpenToRead, ReadPiece, Load,
       Gate, Update, Accept, Open, Write, OpenFails, WriteFails, Kill, Prepare, Reject

LEMMA StepAtWork ==
    ASSUME Typed, NEW r \in Run, Step(r) \/ Fault(r)
    PROVE  Running(r) /\ exit[r] = "none"
BY AtWork DEF Step, Fault, CheckExists, OpenToRead, ReadPiece, Load, Gate, Update, Accept, Open,
              Write, OpenFails, WriteFails, Kill, Writing, Running

\* Only what the run itself does moves it.
LEMMA OneAtATimeStep ==
    ASSUME ~overlapped', Typed, OneAtATime, [Next]_vars
    PROVE  OneAtATime'
<1>1. ASSUME NEW r \in Run, Analyze(r) \/ Step(r) \/ Fault(r) PROVE OneAtATime'
  <2>1. \A s \in Run \ {r} : ~Running(s)
    BY <1>1, StepAtWork DEF Analyze, OneAtATime
  <2>2. \A s \in Run \ {r} : ~Running(s)'
    BY <1>1, <2>1, OthersKept DEF Running
  <2> QED BY <2>2 DEF OneAtATime
<1>2. CASE UNCHANGED vars
  BY <1>2 DEF vars, OneAtATime, Running
<1> QED BY <1>1, <1>2 DEF Next, Done

\* Whoever is at work is the only one.
LEMMA Alone ==
    ASSUME Typed, OneAtATime, NEW r \in Run, pc[r] \notin {"idle", "done"},
           NEW s \in Run \ {r}
    PROVE  pc[s] \in {"idle", "done"}
BY AtWork DEF OneAtATime

LEMMA NoCollision ==
    ASSUME Typed, OneAtATime, ~collided, [Next]_vars
    PROVE  ~collided'
<1>1. ASSUME NEW r \in Run, OpenToRead(r) PROVE ~collided'
  BY <1>1, Alone DEF OpenToRead, Writing
<1>2. ASSUME NEW r \in Run, Open(r) PROVE ~collided'
  BY <1>2, Alone DEF Open, Collides
<1>3. (\A r \in Run : ~OpenToRead(r) /\ ~Open(r)) => UNCHANGED collided
  BY DEF Next, Step, Fault, Done, vars, histories, Analyze, CheckExists, ReadPiece, Load, Gate,
         Update, Accept, Write, OpenFails, WriteFails, Kill, Prepare, Reject
<1> QED BY <1>1, <1>2, <1>3

\* What leaves the file alone, and ends no write.
LEMMA QuietStepKeepsFile ==
    ASSUME Typed, FileLast, NEW r \in Run,
           \/ Analyze(r) \/ CheckExists(r) \/ OpenToRead(r) \/ ReadPiece(r) \/ Load(r) \/ Gate(r)
           \/ Update(r) \/ Accept(r) \/ OpenFails(r) \/ (Kill(r) /\ ~Writing(r))
    PROVE  FileLast'
<1>1. ~Writing(r) /\ exit[r] = "none"
  BY AtWork DEF Analyze, CheckExists, OpenToRead, ReadPiece, Load, Gate, Update, Accept, OpenFails,
                Kill, Running, Writing, Typed, RunsTyped
<1>2. UNCHANGED <<file, written>>
  BY FileAlone
<1>3. \A s \in Run \ {r} : /\ Writing(s)' <=> Writing(s)
                           /\ Interrupted(s)' <=> Interrupted(s)
  BY OthersKept DEF Step, Fault, Writing, Interrupted
<1>4. (\A s \in Run : ~Writing(s)') => \A s \in Run : ~Writing(s)
  BY <1>1, <1>3
<1>5. (\A s \in Run : ~Interrupted(s)' /\ ~Writing(s)')
      => \A s \in Run : ~Interrupted(s) /\ ~Writing(s)
  BY <1>1, <1>3 DEF Interrupted
<1> QED BY <1>2, <1>4, <1>5 DEF FileLast, Last, IsJson, Parsed, Text

LEMMA LastAppended ==
    ASSUME Typed, NEW baseline \in Baselines, written' = Append(written, baseline)
    PROVE  written' # << >> /\ Last' = baseline
<1>1. written \in Seq(Baselines)
  BY DEF Typed, FileTyped
<1> QED BY <1>1 DEF Last

LEMMA WritingStepKeepsFile ==
    ASSUME Typed, InHand, NEW r \in Run, Write(r) \/ (Writing(r) /\ (WriteFails(r) \/ Kill(r)))
    PROVE  FileLast'
<1>1. updated[r] \in Baselines /\ exit[r] = "none"
  BY NextPiece, AtWork DEF Write, Writing
<1>2. CASE Write(r) /\ sent[r] + 1 < Length(r)
  <2>1. Writing(r)'
    BY <1>2 DEF Write, Writing
  <2> QED BY <2>1 DEF FileLast
<1>3. CASE Write(r) /\ ~(sent[r] + 1 < Length(r))
  <2>1. /\ file' = Text(updated[r]) /\ written' = Append(written, updated[r])
        /\ Parsed(file)' = updated[r]
    BY <1>3, WriteEnds
  <2>2. written' # << >> /\ Last' = updated[r]
    BY <1>1, <2>1, LastAppended
  <2>3. Text(Last') = file'
    BY <2>1, <2>2
  <2>4. Text(Last)' = Text(Last')
    BY DEF Text
  <2> QED BY <2>1, <2>2, <2>3, <2>4 DEF FileLast
<1>4. CASE Writing(r) /\ (WriteFails(r) \/ Kill(r))
  <2>1. CutShort(r)
    BY <1>4 DEF WriteFails, Kill
  <2>2. IsJson(file)' => Parsed(file)' = updated[r] /\ written' = Append(written, updated[r])
    BY <1>4, <2>1, CutShortJson
  <2>3. IsJson(file)' => written' # << >> /\ Parsed(file)' = Last'
    BY <1>1, <2>2, LastAppended
  <2>4. exit'[r] \in {"error", "killed"} /\ updated' = updated
    BY <1>4 DEF WriteFails, Kill, Exit, Typed, RunsTyped
  <2>5. Interrupted(r)'
    BY <1>1, <2>4, BaselineFileAssumption DEF Interrupted, Baselines
  <2> QED BY <2>3, <2>5 DEF FileLast
<1> QED BY <1>2, <1>3, <1>4

LEMMA FileLastStep ==
    ASSUME Typed, InHand, FileLast, [Next]_vars
    PROVE  FileLast'
<1>1. ASSUME NEW r \in Run, Open(r) PROVE FileLast'
  <2>1. Writing(r)'
    BY <1>1 DEF Open, Goto, Writing, Typed, RunsTyped
  <2> QED BY <2>1 DEF FileLast
<1>2. CASE UNCHANGED vars
  BY <1>2 DEF vars, histories, FileLast, IsJson, Parsed, Text, Last, Interrupted, Writing
<1> QED BY <1>1, <1>2, QuietStepKeepsFile, WritingStepKeepsFile
    DEF Next, Step, Fault, Done, WriteFails

LEMMA WrittenByWriters ==
    ASSUME NEW r \in Run, Analyze(r) \/ Step(r) \/ Fault(r), ~Writing(r)
    PROVE  written' = written
BY FileAlone DEF Step, Fault, Open, Write, WriteFails

\* The steps of one run leave what another has in hand, and write only when no other
\* is at work.
LEMMA OthersEditLast ==
    ASSUME Typed, OneAtATime, EditsLast, NEW r \in Run, NEW s \in Run \ {r},
           Analyze(r) \/ Step(r) \/ Fault(r)
    PROVE  EditsLastBy(s)'
<1>1. /\ pc'[s] = pc[s] /\ exit'[s] = exit[s] /\ loaded'[s] = loaded[s]
      /\ updated'[s] = updated[s] /\ found'[s] = found[s] /\ command' = command
  BY OthersKept
<1>2. Running(s)' <=> Running(s)
  BY <1>1 DEF Running
<1>3. CASE Writing(r)
  <2>1. ~Running(s)'
    BY <1>2, <1>3, Alone, Halted DEF Writing
  <2> QED BY <1>1, <2>1 DEF EditsLast, EditsLastBy, Accepted, Named
<1>4. CASE ~Writing(r)
  <2>1. written' = written
    BY <1>4, WrittenByWriters
  <2> QED BY <1>1, <1>2, <2>1 DEF EditsLast, EditsLastBy, Accepted, Named, Last
<1> QED BY <1>3, <1>4

\* A run that has ended has nothing in hand.
LEMMA EndedEditsNothing ==
    ASSUME NEW r \in Run, Typed, NEW how \in Outcome \ {"none"}, Exit(r, how)
    PROVE  EditsLastBy(r)'
<1>1. pc'[r] = "done" /\ exit'[r] # "none"
  BY DEF Exit, Goto, Typed, RunsTyped
<1>2. ~Running(r)'
  BY <1>1 DEF Running
<1> QED BY <1>1, <1>2 DEF EditsLastBy

LEMMA OwnEditLast ==
    ASSUME Typed, Safe, OneAtATime, FileLast, EditsLast, NEW r \in Run,
           Analyze(r) \/ Step(r) \/ Fault(r)
    PROVE  EditsLastBy(r)'
<1> USE DEF EditsLast, EditsLastBy, Typed, RunsTyped, Goto
<1>1. CASE Analyze(r)
  BY <1>1 DEF Analyze
<1>2. CASE CheckExists(r)
  BY <1>2 DEF CheckExists
<1>3. CASE OpenToRead(r)
  BY <1>3, EndedEditsNothing DEF OpenToRead, Outcome
<1>4. CASE ReadPiece(r)
  BY <1>4 DEF ReadPiece
<1>5. CASE Load(r)
  <2>1. CASE IsJson(got[r])
    <3>1. /\ loaded'[r] = Parsed(got[r]) /\ written' = written /\ command' = command
          /\ pc'[r] = IF command[r].kind = "gate" THEN "gate" ELSE "edit"
      BY <1>5, <2>1 DEF Load, Loads, histories
    <3>2. pc[r] = "read" /\ got[r] = file
      BY <1>5, ReadAll DEF Load, Safe
    <3>3. (\A w \in Run : ~Writing(w)) /\ file # NoFile
      BY <3>2 DEF Safe, Undisturbed, Writing, FileTyped
    <3>4. written # << >> /\ Parsed(got[r]) = Last
      BY <2>1, <3>2, <3>3 DEF FileLast
    <3> QED BY <3>1, <3>4 DEF Last
  <2>2. CASE ~IsJson(got[r])
    BY <1>5, <2>2, EndedEditsNothing DEF Load, Outcome
  <2> QED BY <2>1, <2>2
<1>6. CASE Update(r)
  <2>1. CASE Reject(r)
    BY <2>1, EndedEditsNothing DEF Reject, Outcome
  <2>2. CASE Prepare(r, found[r])
    BY <1>6, <2>2, AtWork DEF Update, Prepare, Last, histories
  <2> QED BY <1>6, <2>1, <2>2 DEF Update
<1>7. CASE Accept(r)
  <2>1. CASE Reject(r)
    BY <2>1, EndedEditsNothing DEF Reject, Outcome
  <2>2. CASE Prepare(r, Accepted(r)) /\ loaded[r] # NoBaseline
    <3>1. /\ pc'[r] = "open" /\ updated'[r] = Accepted(r) /\ Accepted(r)' = Accepted(r)
          /\ loaded' = loaded /\ written' = written
      BY <2>2 DEF Prepare, Accepted, Named, histories
    <3>2. written # << >> /\ loaded[r] = Last
      BY <1>7, <2>2, AtWork DEF Accept
    <3> QED BY <2>2, <3>1, <3>2 DEF Last
  <2> QED BY <1>7, <2>1, <2>2 DEF Accept
<1>8. CASE Open(r)
  BY <1>8, AtWork DEF Open, Accepted, Named, Last
<1>9. CASE Write(r)
  <2>1. CASE sent[r] + 1 < Length(r)
    <3>1. UNCHANGED <<pc, found, loaded, exit, written, command, updated>>
      BY <1>9, <2>1 DEF Write
    <3> QED BY <3>1 DEF Accepted, Named, Last, Running
  <2>2. CASE ~(sent[r] + 1 < Length(r))
    BY <1>9, <2>2, EndedEditsNothing DEF Write, Outcome
  <2> QED BY <2>1, <2>2
<1>10. CASE Gate(r) \/ Fault(r)
  BY <1>10, EndedEditsNothing DEF Gate, Fault, OpenFails, WriteFails, Kill, Reject, Outcome
<1> QED BY <1>1, <1>2, <1>3, <1>4, <1>5, <1>6, <1>7, <1>8, <1>9, <1>10 DEF Step

LEMMA EditsLastStep ==
    ASSUME Typed, Safe, OneAtATime, FileLast, EditsLast, [Next]_vars
    PROVE  EditsLast'
<1>1. ASSUME NEW r \in Run, Analyze(r) \/ Step(r) \/ Fault(r)
      PROVE  EditsLast'
  BY <1>1, OthersEditLast, OwnEditLast DEF EditsLast
<1>2. CASE UNCHANGED vars
  BY <1>2 DEF vars, histories, EditsLast, EditsLastBy, Running, Last, Accepted, Named
<1> QED BY <1>1, <1>2 DEF Next, Done

LEMMA SerialInvAlways == Spec => []SerialInv
<1>1. Init => SerialInv
  <2> SUFFICES ASSUME Init PROVE Serial
    BY DEF Init, SerialInv
  <2>1. OneAtATime /\ ~collided /\ EditsLast
    BY DEF Init, OneAtATime, EditsLast, EditsLastBy, Running
  <2>2. CASE file = NoFile
    <3>1. written = << >>
      BY <2>2, TextFacts, BaselineFileAssumption DEF Init, Baselines
    <3> QED BY <2>1, <2>2, <3>1 DEF FileLast, Serial
  <2>3. CASE file # NoFile
    <3>1. PICK baseline \in Baselines : file = Text(baseline) /\ written = << baseline >>
      BY <2>3, FirstFile
    <3>2. written # << >> /\ Last = baseline
      BY <3>1 DEF Last
    <3>3. Parsed(file) = baseline
      BY <3>1, TextParsed
    <3>4. FileLast
      BY <3>1, <3>2, <3>3 DEF FileLast
    <3> QED BY <2>1, <3>4 DEF Serial
  <2> QED BY <2>2, <2>3
<1>2. Typed /\ SafeInv /\ SerialInv /\ [Next]_vars => SerialInv'
  <2> SUFFICES ASSUME Typed, SafeInv, SerialInv, [Next]_vars PROVE SerialInv'
    OBVIOUS
  <2>1. overlapped' \in BOOLEAN /\ (~overlapped' => ~overlapped)
    BY OverlapSticks DEF SerialInv
  <2>2. ASSUME ~overlapped' PROVE Serial'
    <3>1. Serial /\ Safe /\ InHand
      BY <2>1, <2>2 DEF SerialInv, SafeInv, Serial, Safe
    <3>2. OneAtATime' /\ ~collided'
      BY <2>2, <3>1, OneAtATimeStep, NoCollision DEF Serial
    <3>3. FileLast' /\ EditsLast'
      BY <3>1, FileLastStep, EditsLastStep DEF Serial
    <3> QED BY <3>2, <3>3 DEF Serial
  <2> QED BY <2>1, <2>2 DEF SerialInv
<1> QED BY <1>1, <1>2, TypedAlways, SafeInvAlways, PTL DEF Spec

\* When runs follow each other, what a run leaves is what the last complete write made
\* it, unless a write was cut short: setup errors, gates and rejected names touch nothing.
THEOREM FileAlwaysLastWritten == Spec => []FileIsLastWritten
<1>1. Typed /\ SerialInv => FileIsLastWritten
  BY AtWork DEF SerialInv, Serial, FileLast, FileIsLastWritten, Writing
<1> QED BY <1>1, TypedAlways, SerialInvAlways, PTL

\* "Accept one table's current state into the baseline, leaving other entries untouched"
\* (lib.rs:49), when runs follow each other and whatever became of the earlier ones.
THEOREM AcceptAlwaysTouchesNamedOnly == Spec => AcceptTouchesNamedOnly
<1>1. ASSUME Typed, Safe, Serial, [Next]_vars, NEW r \in Run,
             exit[r] = "none", exit'[r] = "success", command[r].kind = "accept"
      PROVE  file' = Text((Last \ Named(r)) \cup (Named(r) \cap found[r]))
  <2>1. ASSUME Write(r), ~(sent[r] + 1 < Length(r))
        PROVE  file' = Text((Last \ Named(r)) \cup (Named(r) \cap found[r]))
    <3>1. Running(r) /\ pc[r] = "write"
      BY <1>1, <2>1, AtWork DEF Write, Writing
    <3>2. updated[r] = Accepted(r) /\ loaded[r] = Last
      BY <1>1, <3>1 DEF Serial, EditsLast, EditsLastBy
    <3>3. file' = Text(updated[r])
      BY <1>1, <2>1, WriteEnds DEF Safe
    <3> QED BY <3>2, <3>3 DEF Accepted
  <2>2. ~Gate(r)
    BY <1>1 DEF Gate, Serial, EditsLast, EditsLastBy
  <2>3. ASSUME NEW s \in Run, Analyze(s) \/ Step(s) \/ Fault(s)
        PROVE  s = r /\ (Gate(r) \/ (Write(r) /\ ~(sent[r] + 1 < Length(r))))
    <3>1. s = r
      BY <1>1, <2>3, OthersKept
    <3> QED BY <1>1, <2>3, <3>1
        DEF Step, Fault, Analyze, CheckExists, OpenToRead, ReadPiece, Load, Loads, Update, Accept,
            Open, OpenFails, WriteFails, Kill, Write, Prepare, Reject, Exit, Typed, RunsTyped
  <2> QED BY <1>1, <2>1, <2>2, <2>3 DEF Next, Done, vars
<1>2. Typed /\ SafeInv /\ SerialInv /\ [Next]_vars
      => [\A r \in Run :
             /\ ~overlapped
             /\ exit[r] = "none" /\ exit'[r] = "success" /\ command[r].kind = "accept"
             => file' = Text((Last \ Named(r)) \cup (Named(r) \cap found[r]))]_vars
  BY <1>1 DEF SerialInv, SafeInv, Serial
<1> QED BY <1>2, TypedAlways, SafeInvAlways, SerialInvAlways, PTL DEF Spec, AcceptTouchesNamedOnly

-----------------------------------------------------------------------------
(* The readers of a directory give the answer a single pass over its files   *)
(* gives, however many workers there are and however they interleave: the    *)
(* safety part of GatherFiles, for every number of files and of workers.     *)

\* A quotient rounded up: as many parts of y as hold x, and not one too many.
LEMMA RoundedUp ==
    ASSUME NEW x \in Nat \ {0}, NEW y \in Nat \ {0}
    PROVE  /\ Reading!DivCeil(x, y) \in Nat \ {0}
           /\ x <= Reading!DivCeil(x, y) * y
           /\ (Reading!DivCeil(x, y) - 1) * y < x
<1> DEFINE q == Reading!DivCeil(x, y)
<1>1. q \in Int
  BY DEF Reading!DivCeil
<1>2. q * y <= x + y - 1 /\ x + y - 1 < q * y + y
  BY DEF Reading!DivCeil
<1>3. (q - 1) * y = q * y - y
  BY <1>1
<1>4. q > 0
  <2> SUFFICES ASSUME q <= 0 PROVE FALSE
    BY <1>1
  <2>1. q * y <= 0
    BY <1>1
  <2> QED BY <1>1, <1>2, <2>1
<1> QED BY <1>1, <1>2, <1>3, <1>4

Several == Reading!Workers >= 2

Chunks == Reading!DivCeil(files, Reading!ChunkSize)

\* The chunks cover the files, none is empty, and there is a reader for each.
LEMMA ChunksCover ==
    ASSUME files \in Nat, parallelism \in Nat \ {0}, Several
    PROVE  /\ Reading!ChunkSize \in Nat \ {0}
           /\ Chunks \in 1..Reading!MaxWorkers
           /\ Reading!Readers = 1..Chunks
           /\ \A n \in 0..(Chunks - 1) : n * Reading!ChunkSize < files
           /\ files <= Chunks * Reading!ChunkSize
<1>1. Reading!Workers \in 1..Reading!MaxWorkers /\ Reading!Workers >= 2 /\ Reading!Workers <= files
  BY DEF Several, Reading!Workers, Reading!Least, Reading!MaxWorkers
<1>2. files \in Nat \ {0} /\ Reading!Workers \in Nat \ {0}
  BY <1>1
<1>3. Reading!ChunkSize \in Nat \ {0} /\ files <= Reading!ChunkSize * Reading!Workers
  <2> HIDE DEF Reading!Workers
  <2> QED BY <1>2, RoundedUp DEF Reading!ChunkSize
<1>4. /\ Chunks \in Nat \ {0}
      /\ files <= Chunks * Reading!ChunkSize
      /\ (Chunks - 1) * Reading!ChunkSize < files
  BY <1>2, <1>3, RoundedUp DEF Chunks
<1> HIDE DEF Chunks, Reading!ChunkSize, Reading!Workers
<1>5. Chunks <= Reading!Workers
  <2> SUFFICES ASSUME Chunks > Reading!Workers PROVE FALSE
    BY <1>1, <1>4
  <2>1. Reading!Workers * Reading!ChunkSize <= (Chunks - 1) * Reading!ChunkSize
    BY <1>1, <1>3, <1>4
  <2>2. Reading!ChunkSize * Reading!Workers = Reading!Workers * Reading!ChunkSize
    BY <1>1, <1>3
  <2> QED BY <1>1, <1>3, <1>4, <2>1, <2>2
<1>6. ASSUME NEW n \in 0..(Chunks - 1) PROVE n * Reading!ChunkSize < files
  <2>1. n * Reading!ChunkSize <= (Chunks - 1) * Reading!ChunkSize
    BY <1>3, <1>4
  <2> QED BY <1>3, <1>4, <2>1
<1> QED BY <1>1, <1>3, <1>4, <1>5, <1>6 DEF Reading!Readers, Chunks, Reading!MaxWorkers

-----------------------------------------------------------------------------
(* The readers' invariant: what has been read is what the files hold, in their order. *)

DiskTyped ==
    /\ files \in Nat
    /\ unreadable \in SUBSET (1..files)
    /\ parallelism \in Nat \ {0}

\* A sequence of results, those of the files after the given one.
ReadAfter(seq, f) ==
    /\ seq \in Seq(Nat \cup {NotRead})
    /\ \A i \in 1..Len(seq) : seq[i] = Reading!ReadSource(f + i)

\* By itself, the main thread goes on while files can be read.
InTurn ==
    /\ spawned = 0
    /\ Len(results) <= files
    /\ \A i \in 1..Len(results) : i \notin unreadable

\* The readers joined have read their chunks, the others are within theirs.
InChunks ==
    /\ spawned \in 0..Chunks
    /\ joined \in 0..spawned
    /\ Len(results) = Reading!Least(joined * Reading!ChunkSize, files)
    /\ read \in [1..Reading!MaxWorkers -> Seq(Nat \cup {NotRead})]
    /\ \A r \in 1..Reading!MaxWorkers : ReadAfter(read[r], (r - 1) * Reading!ChunkSize)

ReadersInv ==
    /\ DiskTyped
    /\ ReadAfter(results, 0)
    /\ IF Several THEN InChunks ELSE InTurn

LEMMA InitReaders ==
    ASSUME MaxFiles \in Nat, MaxParallelism \in Nat, Reading!Init
    PROVE  ReadersInv
<1>1. DiskTyped
  BY DEF Reading!Init, DiskTyped
<1>2. << >> \in Seq(Nat \cup {NotRead}) /\ Len(<< >>) = 0
  OBVIOUS
<1>3. \A f : ReadAfter(<< >>, f)
  BY <1>2 DEF ReadAfter
<1>4. ReadAfter(results, 0)
  BY <1>3 DEF Reading!Init
<1>5. CASE Several
  <2>1. Reading!ChunkSize \in Nat \ {0} /\ Chunks \in 1..Reading!MaxWorkers
    BY <1>1, <1>5, ChunksCover DEF DiskTyped
  <2>2. 0 * Reading!ChunkSize = 0
    BY <2>1
  <2>3. Len(results) = Reading!Least(joined * Reading!ChunkSize, files)
    <3> HIDE DEF Reading!ChunkSize
    <3> QED BY <1>1, <1>2, <2>2 DEF Reading!Init, Reading!Least, DiskTyped
  <2>4. spawned \in 0..Chunks /\ joined \in 0..spawned
    <3> HIDE DEF Chunks
    <3> QED BY <2>1 DEF Reading!Init, Reading!MaxWorkers
  <2> QED BY <1>1, <1>2, <1>3, <1>4, <1>5, <2>3, <2>4 DEF Reading!Init, ReadersInv, InChunks
<1>6. CASE ~Several
  BY <1>1, <1>2, <1>4, <1>6 DEF Reading!Init, ReadersInv, InTurn, DiskTyped
<1> QED BY <1>5, <1>6

-----------------------------------------------------------------------------
(* Every step of a reader or of the main thread keeps it. *)

LEMMA ReadNext ==
    ASSUME NEW f \in Nat, NEW seq, ReadAfter(seq, f)
    PROVE  ReadAfter(Append(seq, Reading!ReadSource(f + Len(seq) + 1)), f)
<1> DEFINE source == Reading!ReadSource(f + Len(seq) + 1)
           longer == Append(seq, source)
<1>1. seq \in Seq(Nat \cup {NotRead}) /\ Len(seq) \in Nat
  BY DEF ReadAfter
<1>2. source \in Nat \cup {NotRead}
  BY <1>1 DEF Reading!ReadSource
<1>3. longer \in Seq(Nat \cup {NotRead}) /\ Len(longer) = Len(seq) + 1
  <2> HIDE DEF source
  <2> QED BY <1>1, <1>2
<1>4. ASSUME NEW i \in 1..Len(longer) PROVE longer[i] = Reading!ReadSource(f + i)
  <2> HIDE DEF source
  <2>1. CASE i = Len(seq) + 1
    <3>1. longer[i] = source
      BY <1>1, <1>2, <2>1
    <3>2. f + Len(seq) + 1 = f + i
      BY <1>1, <2>1
    <3> QED BY <3>1, <3>2 DEF source
  <2>2. CASE i # Len(seq) + 1
    <3>1. i \in 1..Len(seq)
      BY <1>1, <1>3, <2>2
    <3>2. longer[i] = seq[i]
      BY <1>1, <1>2, <3>1
    <3> QED BY <3>1, <3>2 DEF ReadAfter
  <2> QED BY <2>1, <2>2
<1> QED BY <1>3, <1>4 DEF ReadAfter

LEMMA ReadOn ==
    ASSUME NEW f \in Nat, NEW seq, NEW more,
           ReadAfter(seq, f), ReadAfter(more, f + Len(seq))
    PROVE  ReadAfter(seq \o more, f)
<1> DEFINE both == seq \o more
<1>1. /\ seq \in Seq(Nat \cup {NotRead}) /\ Len(seq) \in Nat
      /\ more \in Seq(Nat \cup {NotRead}) /\ Len(more) \in Nat
  BY DEF ReadAfter
<1>2. both \in Seq(Nat \cup {NotRead}) /\ Len(both) = Len(seq) + Len(more)
  BY <1>1
<1>3. ASSUME NEW i \in 1..Len(both) PROVE both[i] = Reading!ReadSource(f + i)
  <2>1. CASE i <= Len(seq)
    <3>1. i \in 1..Len(seq) /\ both[i] = seq[i]
      BY <1>1, <2>1
    <3> QED BY <3>1 DEF ReadAfter
  <2>2. CASE i > Len(seq)
    <3>1. i - Len(seq) \in 1..Len(more) /\ both[i] = more[i - Len(seq)]
      BY <1>1, <1>2, <2>2
    <3>2. f + Len(seq) + (i - Len(seq)) = f + i
      BY <1>1
    <3>3. more[i - Len(seq)] = Reading!ReadSource(f + Len(seq) + (i - Len(seq)))
      BY <3>1 DEF ReadAfter
    <3> QED BY <3>1, <3>2, <3>3
  <2> QED BY <1>1, <1>2, <2>1, <2>2
<1> QED BY <1>2, <1>3 DEF ReadAfter

\* No step touches the disk, and what is defined from it stays as it is.
LEMMA DiskStays ==
    ASSUME UNCHANGED Reading!disk
    PROVE  /\ UNCHANGED <<files, unreadable, parallelism, Reading!Workers,
              Reading!ChunkSize, Chunks>>
           /\ Several' = Several
           /\ DiskTyped' = DiskTyped
           /\ \A seq, f : ReadAfter(seq, f) <=> ReadAfter(seq, f)'
BY
      DEF Reading!disk, Reading!Workers, Reading!ChunkSize, Chunks, Several, DiskTyped,
          ReadAfter, Reading!ReadSource

LEMMA TurnKeeps ==
    ASSUME ReadersInv, Reading!ReadInTurn
    PROVE  ReadersInv'
<1>1. UNCHANGED Reading!disk /\ UNCHANGED <<spawned, read, joined>>
  BY DEF Reading!ReadInTurn
<1>2. ~Several /\ DiskTyped /\ InTurn /\ ReadAfter(results, 0)
  BY
        DEF ReadersInv, Reading!ReadInTurn, Several, DiskTyped, Reading!Workers,
            Reading!Least, Reading!MaxWorkers
<1>3. Len(results) \in Nat /\ files \in Nat /\ Len(results) < files
  BY <1>2 DEF ReadAfter, DiskTyped, Reading!ReadInTurn
<1> DEFINE f == Len(results) + 1
<1>4. CASE f \in unreadable
  <2>1. UNCHANGED results
    BY <1>4 DEF Reading!ReadInTurn
  <2>2. ReadAfter(results, 0)'
    BY <1>1, <1>2, <2>1, DiskStays
  <2> QED BY <1>1, <1>2, <2>1, <2>2, DiskStays DEF ReadersInv, InTurn
<1>5. CASE f \notin unreadable
  <2>1. results' = Append(results, Reading!ReadSource(f))
    BY <1>5 DEF Reading!ReadInTurn
  <2>2. 0 + Len(results) + 1 = f
    BY <1>3
  <2>3. ReadAfter(results', 0)
    BY <1>2, <2>1, <2>2, ReadNext
  <2>4. ReadAfter(results, 0)'
    BY <1>1, <2>3, DiskStays DEF ReadAfter, Reading!ReadSource
  <2>5. Len(results') = f
    <3>1. results \in Seq(Nat \cup {NotRead}) /\ Reading!ReadSource(f) \in Nat \cup {NotRead}
      BY <1>2, <1>3 DEF ReadAfter, Reading!ReadSource
    <3> QED BY <2>1, <3>1
  <2>6. InTurn'
    BY <1>1, <1>2, <1>3, <1>5, <2>5, DiskStays DEF InTurn
  <2> QED BY <1>1, <1>2, <2>4, <2>6, DiskStays DEF ReadersInv
<1> QED BY <1>4, <1>5

LEMMA SpawnKeeps ==
    ASSUME ReadersInv, Reading!Spawn
    PROVE  ReadersInv'
<1>1. UNCHANGED Reading!disk /\ UNCHANGED <<read, joined, results>>
  BY DEF Reading!Spawn
<1>2. Several /\ DiskTyped /\ InChunks /\ ReadAfter(results, 0)
  BY DEF ReadersInv, Reading!Spawn, Several
<1>3. Reading!Readers = 1..Chunks /\ Chunks \in 1..Reading!MaxWorkers
  BY <1>2, ChunksCover DEF DiskTyped
<1>4. spawned' \in 0..Chunks /\ joined \in 0..spawned'
  <2> HIDE DEF Chunks
  <2> QED BY <1>2, <1>3 DEF Reading!Spawn, InChunks, Reading!MaxWorkers
<1>5. InChunks'
  <2> HIDE DEF Chunks, Reading!ChunkSize
  <2> QED BY <1>1, <1>2, <1>4, DiskStays
        DEF InChunks, ReadAfter, Reading!ReadSource, Reading!disk
<1> QED BY <1>1, <1>2, <1>5, DiskStays
      DEF ReadersInv, ReadAfter, Reading!ReadSource, Reading!disk

LEMMA ReadOneKeeps ==
    ASSUME ReadersInv, NEW r \in 1..Reading!MaxWorkers, Reading!ReadOne(r)
    PROVE  ReadersInv'
<1>1. UNCHANGED Reading!disk /\ UNCHANGED <<spawned, joined, results>>
  BY DEF Reading!ReadOne
<1>2. Several
  BY DEF ReadersInv, InTurn, Reading!ReadOne, Reading!MaxWorkers
<1>3. DiskTyped /\ InChunks /\ ReadAfter(results, 0)
  BY <1>2 DEF ReadersInv
<1>4. Reading!ChunkSize \in Nat \ {0}
  BY <1>2, <1>3, ChunksCover DEF DiskTyped
<1> DEFINE before == (r - 1) * Reading!ChunkSize
           source == Reading!ReadSource(before + Len(read[r]) + 1)
<1>5. before \in Nat /\ ReadAfter(read[r], before)
  <2>1. r - 1 \in Nat
    BY DEF Reading!MaxWorkers
  <2>2. before \in Nat
    <3> HIDE DEF Reading!ChunkSize
    <3> QED BY <1>4, <2>1
  <2>3. ReadAfter(read[r], before)
    BY <1>3 DEF InChunks
  <2> QED BY <2>2, <2>3
<1>6. Len(read[r]) \in Nat
  BY <1>5 DEF ReadAfter
<1>7. Reading!FirstOf(r) + Len(read[r]) = before + Len(read[r]) + 1
  <2> HIDE DEF before
  <2> QED BY <1>5, <1>6 DEF Reading!FirstOf, before
<1>8. read' = [read EXCEPT ![r] = Append(read[r], source)]
  BY <1>7 DEF Reading!ReadOne
<1>9. ReadAfter(Append(read[r], source), before)
  BY <1>5, ReadNext
<1>10. read' \in [1..Reading!MaxWorkers -> Seq(Nat \cup {NotRead})]
  BY <1>3, <1>8, <1>9 DEF InChunks, ReadAfter
<1>11. ASSUME NEW q \in 1..Reading!MaxWorkers PROVE ReadAfter(read'[q],
          (q - 1) * Reading!ChunkSize)
  <2>1. CASE q = r
    BY <1>3, <1>8, <1>9, <2>1 DEF InChunks
  <2>2. CASE q # r
    BY <1>3, <1>8, <2>2 DEF InChunks
  <2> QED BY <2>1, <2>2
<1>12. InChunks'
  <2> HIDE DEF source
  <2> QED BY <1>1, <1>3, <1>10, <1>11, DiskStays
        DEF InChunks, ReadAfter, Reading!ReadSource, Reading!disk
<1> QED BY <1>1, <1>2, <1>3, <1>12, DiskStays
      DEF ReadersInv, ReadAfter, Reading!ReadSource, Reading!disk

LEMMA JoinKeeps ==
    ASSUME ReadersInv, Reading!Join
    PROVE  ReadersInv'
<1>1. UNCHANGED Reading!disk /\ UNCHANGED <<spawned, read>>
  BY DEF Reading!Join
<1>2. Several /\ DiskTyped /\ InChunks /\ ReadAfter(results, 0)
  BY DEF ReadersInv, Reading!Join, Several
<1>3. /\ Reading!ChunkSize \in Nat \ {0}
      /\ Chunks \in 1..Reading!MaxWorkers
      /\ files \in Nat
      /\ joined \in 0..(Chunks - 1)
      /\ joined + 1 \in 1..Reading!MaxWorkers
      /\ joined' = joined + 1
      /\ joined' \in 0..spawned
  <2>1. Reading!ChunkSize \in Nat \ {0} /\ Chunks \in 1..Reading!MaxWorkers
    BY <1>2, ChunksCover DEF DiskTyped
  <2> HIDE DEF Chunks, Reading!ChunkSize
  <2> QED BY <1>2, <2>1 DEF Reading!Join, InChunks, DiskTyped, Reading!MaxWorkers
<1> DEFINE before == joined * Reading!ChunkSize
           more == read[joined + 1]
<1>4. before \in Nat /\ before < files
  BY <1>2, <1>3, ChunksCover DEF DiskTyped
<1>5. Len(results) = before
  <2> HIDE DEF Reading!ChunkSize
  <2> QED BY <1>2, <1>3, <1>4 DEF InChunks, Reading!Least
<1>6. (joined + 1) - 1 = joined
  BY <1>3
<1>7. ReadAfter(more, 0 + Len(results))
  BY <1>2, <1>3, <1>4, <1>5, <1>6 DEF InChunks
<1>8. results' = results \o more
  BY DEF Reading!Join
<1>9. ReadAfter(results', 0)
  BY <1>2, <1>7, <1>8, ReadOn
<1>10. (joined + 1) * Reading!ChunkSize = before + Reading!ChunkSize
  BY <1>3
<1>11. Len(more) = Reading!Least(Reading!ChunkSize, files - before)
  <2>1. Len(more) = Reading!SizeOf(joined + 1)
    BY DEF Reading!Join
  <2>2. Reading!SizeOf(joined + 1) = Reading!Least(Reading!ChunkSize,
            files - ((joined + 1) - 1) * Reading!ChunkSize)
    BY DEF Reading!SizeOf
  <2> QED BY <1>6, <2>1, <2>2
<1>12. Len(results') = Len(results) + Len(more)
  BY <1>2, <1>7, <1>8 DEF ReadAfter
<1>13. Len(results') = Reading!Least(joined' * Reading!ChunkSize, files)
  <2> HIDE DEF before, Reading!ChunkSize, more
  <2> QED BY <1>3, <1>4, <1>5, <1>10, <1>11, <1>12 DEF Reading!Least
<1>14. InChunks'
  <2> HIDE DEF Chunks, Reading!ChunkSize
  <2> QED BY <1>1, <1>2, <1>3, <1>13, DiskStays
        DEF InChunks, ReadAfter, Reading!ReadSource, Reading!disk
<1> QED BY <1>1, <1>2, <1>9, <1>14, DiskStays
      DEF ReadersInv, ReadAfter, Reading!ReadSource, Reading!disk

LEMMA NextKeepsReaders ==
    ASSUME ReadersInv, [Reading!Next]_Reading!vars
    PROVE  ReadersInv'
<1>1. CASE Reading!Collect \/ UNCHANGED Reading!vars
  <2>1. UNCHANGED Reading!disk /\ UNCHANGED <<spawned, read, joined, results>>
    BY <1>1 DEF Reading!Collect, Reading!vars
  <2>2. InChunks' = InChunks /\ InTurn' = InTurn
    BY <2>1, DiskStays DEF InChunks, InTurn, ReadAfter, Reading!ReadSource, Reading!disk
  <2>3. ReadAfter(results, 0)' <=> ReadAfter(results, 0)
    BY <2>1 DEF ReadAfter, Reading!ReadSource, Reading!disk
  <2> QED BY <2>1, <2>2, <2>3, DiskStays DEF ReadersInv
<1> QED BY <1>1, TurnKeeps, SpawnKeeps, ReadOneKeeps, JoinKeeps
      DEF Reading!Next, Reading!Main

-----------------------------------------------------------------------------
(* The answer of the readers. *)

LEMMA LeastIsIt ==
    ASSUME NEW S \in SUBSET Nat, NEW c \in S, \A d \in S : c <= d
    PROVE  (CHOOSE i \in S : \A j \in S : i <= j) = c
<1> DEFINE Lowest(i) == i \in S /\ \A j \in S : i <= j
           least == CHOOSE i : Lowest(i)
<1>1. Lowest(least)
  <2>1. Lowest(c)
    OBVIOUS
  <2> QED BY <2>1
<1>2. least <= c /\ c <= least /\ least \in Nat /\ c \in Nat
  BY <1>1
<1>3. least = c
  <2> HIDE DEF least
  <2> QED BY <1>2
<1> QED BY <1>3

\* The main thread by itself fails at the first f that cannot be read.
LEMMA TurnAnswers ==
    ASSUME ReadersInv, Reading!ReadInTurn, answer' # answer
    PROVE  Reading!Promise!Answer
<1>1. ~Several /\ DiskTyped /\ InTurn /\ ReadAfter(results, 0)
  BY
        DEF ReadersInv, Reading!ReadInTurn, Several, DiskTyped, Reading!Workers,
            Reading!Least, Reading!MaxWorkers
<1>2. Len(results) \in Nat /\ unreadable \in SUBSET Nat
  BY <1>1 DEF ReadAfter, DiskTyped
<1> DEFINE f == Len(results) + 1
<1>3. f \in unreadable /\ answer' = Reading!Failure(f) /\ answer = Pending
  BY DEF Reading!ReadInTurn
<1>4. \A j \in unreadable : f <= j
  BY <1>1, <1>2 DEF InTurn, DiskTyped
<1>5. Reading!Promise!InFileOrder = Reading!Promise!Failure(f)
  <2> HIDE DEF f
  <2>1. (CHOOSE i \in unreadable : \A j \in unreadable : i <= j) = f
    BY <1>2, <1>3, <1>4, LeastIsIt
  <2> QED BY <1>3, <2>1 DEF Reading!Promise!InFileOrder
<1> QED BY <1>3, <1>5
      DEF Reading!Promise!Answer, Reading!Promise!Failure, Reading!Failure,
          Reading!ReadInTurn, Reading!disk

\* When the main thread collects, every f's result is there.
LEMMA AllRead ==
    ASSUME ReadersInv, Reading!Finished
    PROVE  Len(results) = files
<1>1. DiskTyped
  BY DEF ReadersInv
<1>2. CASE Several
  <2>1. InChunks
    BY <1>2 DEF ReadersInv
  <2>2. /\ Chunks \in Nat \ {0} /\ Reading!Readers = 1..Chunks
        /\ files <= Chunks * Reading!ChunkSize
    BY <1>1, <1>2, ChunksCover DEF DiskTyped
  <2>3. joined + 1 \notin Reading!Readers
    <3>1. ~(Reading!Workers < 2)
      BY <1>1, <1>2
            DEF Several, Reading!Workers, Reading!Least, DiskTyped, Reading!MaxWorkers
    <3> QED BY <3>1 DEF Reading!Finished
  <2>4. joined = Chunks
    <3> HIDE DEF Chunks
    <3> QED BY <2>1, <2>2, <2>3 DEF InChunks
  <2>5. Len(results) = Reading!Least(Chunks * Reading!ChunkSize, files)
    BY <2>1, <2>4 DEF InChunks
  <2>6. Reading!ChunkSize \in Nat
    BY <1>1, <1>2, ChunksCover DEF DiskTyped
  <2> HIDE DEF Chunks, Reading!ChunkSize
  <2>7. Chunks * Reading!ChunkSize \in Nat
    BY <2>2, <2>6
  <2> QED BY <1>1, <2>2, <2>5, <2>7 DEF Reading!Least, DiskTyped
<1>3. CASE ~Several
  <2>1. Reading!Workers < 2
    BY <1>1, <1>3 DEF Several, Reading!Workers, Reading!Least, DiskTyped, Reading!MaxWorkers
  <2> QED BY <2>1 DEF Reading!Finished
<1> QED BY <1>2, <1>3

\* The first error among all the results is the first f's that cannot be read.
LEMMA CollectAnswers ==
    ASSUME NotRead \notin Nat, ReadersInv, Reading!Collect
    PROVE  Reading!Promise!Answer
<1>1. DiskTyped /\ ReadAfter(results, 0) /\ Len(results) = files
  BY AllRead DEF ReadersInv, Reading!Collect
<1>2. results \in Seq(Nat \cup {NotRead}) /\ DOMAIN results = 1..files /\ files \in Nat
  BY <1>1 DEF ReadAfter, DiskTyped
<1>3. \A i \in 1..files : results[i] = Reading!ReadSource(i)
  <2>1. \A i \in 1..files : 0 + i = i
    BY <1>2
  <2> QED BY <1>1, <2>1 DEF ReadAfter
<1>4. \A i \in 1..files : (results[i] = NotRead) <=> i \in unreadable
  BY <1>2, <1>3 DEF Reading!ReadSource
<1>5. unreadable \in SUBSET (1..files) /\ unreadable \in SUBSET Nat
  BY <1>1 DEF DiskTyped
<1>6. CASE unreadable = {}
  <2>1. ~\E i \in DOMAIN results : results[i] = NotRead
    BY <1>2, <1>4, <1>6
  <2>2. results = [i \in 1..files |-> i]
    BY <1>2, <1>3, <1>6 DEF Reading!ReadSource
  <2>3. answer' = Reading!Sources(results)
    BY <2>1 DEF Reading!Collect
  <2> QED BY <1>6, <2>2, <2>3
     
            DEF Reading!Promise!Answer, Reading!Promise!InFileOrder,
                Reading!Promise!Sources, Reading!Sources, Reading!Collect, Reading!disk
<1>7. CASE unreadable # {}
  <2>1. PICK c \in unreadable : \A d \in unreadable : c <= d
    BY <1>5, <1>7, LeastNumber
  <2> DEFINE Reported(i) == /\ results[i] = NotRead
                            /\ \A j \in 1..(i - 1) : results[j] # NotRead
             first == CHOOSE i \in DOMAIN results : Reported(i)
  <2>2. c \in DOMAIN results /\ Reported(c)
    BY <1>2, <1>4, <1>5, <2>1
  <2>3. first \in DOMAIN results /\ Reported(first)
    BY <2>2
  <2>4. first = c
    <3>1. first \in unreadable /\ c <= first
      BY <1>2, <1>4, <2>1, <2>3
    <3>2. first \in Nat /\ c \in Nat /\ results[c] = NotRead
      BY <1>2, <1>5, <2>2, <2>3
    <3>3. ~(c < first)
      <4> SUFFICES ASSUME c < first PROVE FALSE
        OBVIOUS
      <4>1. c \in 1..(first - 1)
        BY <1>2, <2>2, <3>2
      <4> QED BY <2>3, <3>2, <4>1
    <3> HIDE DEF first
    <3> QED BY <3>1, <3>2, <3>3
  <2>5. answer' = Reading!Failure(c)
    <3>1. \E i \in DOMAIN results : results[i] = NotRead
      BY <2>2
    <3> QED BY <2>4, <3>1 DEF Reading!Collect
  <2>6. Reading!Promise!InFileOrder = Reading!Promise!Failure(c)
    BY <1>5, <1>7, <2>1, LeastIsIt DEF Reading!Promise!InFileOrder
  <2> QED BY <2>5, <2>6
        DEF Reading!Promise!Answer, Reading!Promise!Failure, Reading!Failure,
            Reading!Collect, Reading!disk
<1> QED BY <1>6, <1>7

\* What the promise says without its fairness: no answer but the one in f
\* order, and one answer only.
PromiseSafety == Reading!Promise!Init /\ [][Reading!Promise!Answer]_<<files, unreadable,
          answer>>

LEMMA StepsAnswer ==
    ASSUME NotRead \notin Nat, ReadersInv, [Reading!Next]_Reading!vars
    PROVE  [Reading!Promise!Answer]_<<files, unreadable, answer>>
<1> SUFFICES ASSUME ~UNCHANGED <<files, unreadable, answer>>
             PROVE  Reading!Promise!Answer
  OBVIOUS
<1>1. CASE Reading!ReadInTurn
  <2>1. answer' # answer
    BY <1>1 DEF Reading!ReadInTurn, Reading!disk
  <2> QED BY <1>1, <2>1, TurnAnswers
<1>2. CASE Reading!Collect
  BY <1>2, CollectAnswers
<1>3. CASE Reading!Spawn \/ Reading!Join \/ (\E r \in 1..Reading!MaxWorkers : Reading!ReadOne(r)) \/ UNCHANGED Reading!vars
  BY <1>3 DEF Reading!Spawn, Reading!Join, Reading!ReadOne, Reading!vars, Reading!disk
<1> QED BY <1>1, <1>2, <1>3 DEF Reading!Next, Reading!Main

\* "Results and the first-error-wins failure message are in file order either
\* way" (lib.rs:244), for every directory, every set of files that cannot be read
\* and every number of workers: read_files answers at most once, and with the
\* sources in file order or the failure of the first f that cannot be read.
THEOREM ReadersKeepPromise ==
    ASSUME MaxFiles \in Nat, MaxParallelism \in Nat, NotRead \notin Nat
    PROVE  Reading!Spec => PromiseSafety
<1>1. Reading!Init => ReadersInv
  BY InitReaders
<1>2. ReadersInv /\ [Reading!Next]_Reading!vars => ReadersInv'
  BY NextKeepsReaders
<1>3. ReadersInv /\ [Reading!Next]_Reading!vars => [Reading!Promise!Answer]_<<files,
          unreadable, answer>>
  BY StepsAnswer
<1>4. Reading!Init => Reading!Promise!Init
  BY DEF Reading!Init, Reading!Promise!Init
<1> QED BY <1>1, <1>2, <1>3, <1>4, PTL DEF Reading!Spec, PromiseSafety

-----------------------------------------------------------------------------
(* Annotations: what the runner is given is within what it keeps, and what   *)
(* is left out is counted.                                                   *)

Lines == [Stream!Level -> Nat]

\* Until the stream is finished, every line asked for is written or counted as dropped.
StreamInv ==
    /\ count \in Lines /\ asked \in Lines /\ out \in Lines /\ dropped \in Nat
    /\ phase \in {"tables", "notes", "done"}
    /\ phase # "done" =>
          /\ out = count
          /\ \A level \in Stream!Level :
                count[level] <= Stream!CapOf(level) /\ count[level] <= asked[level]
          /\ Stream!Total(count) + dropped = Stream!Total(asked)
    /\ Stream!LossIsLoud

LEMMA CapsFit ==
    \A level \in Stream!Level :
        /\ Stream!CapOf(level) \in Nat
        /\ Stream!CapOf(level) <= Stream!RunnerKeeps
        /\ level = "notice" => Stream!CapOf(level) + 1 = Stream!RunnerKeeps
BY DEF Stream!CapOf, Stream!RunnerKeeps, Stream!ANNOTATION_CAP

LEMMA EmitCounts ==
    ASSUME StreamInv, phase # "done", NEW level \in Stream!Level, Stream!Emit(level),
           phase' \in {"tables", "notes"}
    PROVE  StreamInv'
<1>1. /\ count \in Lines /\ asked \in Lines /\ dropped \in Nat /\ out = count
      /\ \A l \in Stream!Level : count[l] <= Stream!CapOf(l) /\ count[l] <= asked[l]
      /\ Stream!Total(count) + dropped = Stream!Total(asked)
  BY DEF StreamInv
<1>2. asked' = [asked EXCEPT ![level] = @ + 1]
  BY DEF Stream!Emit
<1>3. asked' \in Lines /\ Stream!Total(asked') = Stream!Total(asked) + 1
  BY <1>1, <1>2 DEF Stream!Total, Stream!Level, Lines
<1>4. CASE count[level] < Stream!CapOf(level)
  <2>1. count' = [count EXCEPT ![level] = @ + 1] /\ out' = [out EXCEPT ![level] = @ + 1]
        /\ UNCHANGED dropped
    BY <1>4 DEF Stream!Emit
  <2>2. count' \in Lines /\ Stream!Total(count') = Stream!Total(count) + 1 /\ out' = count'
    BY <1>1, <2>1 DEF Stream!Total, Stream!Level, Lines
  <2>3. \A l \in Stream!Level : count'[l] <= Stream!CapOf(l) /\ count'[l] <= asked'[l]
    BY <1>1, <1>2, <1>4, <2>1, CapsFit DEF Lines
  <2>4. Stream!Total(count') + dropped' = Stream!Total(asked')
    BY <1>1, <1>3, <2>1, <2>2 DEF Stream!Total, Stream!Level, Lines
  <2> QED BY <1>1, <1>3, <2>1, <2>2, <2>3, <2>4
          DEF StreamInv, Stream!LossIsLoud, Stream!Total, Stream!CapOf
<1>5. CASE ~(count[level] < Stream!CapOf(level))
  <2>1. dropped' = dropped + 1 /\ UNCHANGED <<count, out>>
    BY <1>5 DEF Stream!Emit
  <2>2. \A l \in Stream!Level : count[l] <= Stream!CapOf(l) /\ count[l] <= asked'[l]
    BY <1>1, <1>2, CapsFit DEF Lines
  <2>3. Stream!Total(count) + dropped' = Stream!Total(asked')
    BY <1>1, <1>3, <2>1 DEF Stream!Total, Stream!Level, Lines
  <2> QED BY <1>1, <1>3, <2>1, <2>2, <2>3
          DEF StreamInv, Stream!LossIsLoud, Stream!Total, Stream!CapOf
<1> QED BY <1>4, <1>5

\* The suppression notice fits, and with nothing dropped nothing is missing.
LEMMA FinishCounts ==
    ASSUME StreamInv, Stream!Finish
    PROVE  StreamInv'
<1>1. /\ count \in Lines /\ asked \in Lines /\ dropped \in Nat /\ out = count
      /\ \A l \in Stream!Level : count[l] <= Stream!CapOf(l) /\ count[l] <= asked[l]
      /\ Stream!Total(count) + dropped = Stream!Total(asked)
      /\ phase' = "done" /\ UNCHANGED <<count, dropped, asked>>
      /\ out' = IF dropped > 0 THEN [out EXCEPT !["notice"] = @ + 1] ELSE out
  BY DEF StreamInv, Stream!Finish
<1>2. CASE dropped > 0
  <2>1. out' = [count EXCEPT !["notice"] = @ + 1]
    BY <1>1, <1>2
  <2>2. out' \in Lines /\ Stream!Total(out') = Stream!Total(count) + 1
    BY <1>1, <2>1 DEF Stream!Total, Stream!Level, Lines
  <2>3. \A l \in Stream!Level : out'[l] <= Stream!RunnerKeeps
    BY <1>1, <2>1, CapsFit DEF Lines, Stream!RunnerKeeps
  <2>4. Stream!Total(out') - 1 + dropped = Stream!Total(asked)
    BY <1>1, <2>2 DEF Stream!Total, Stream!Level, Lines
  <2> QED BY <1>1, <1>2, <2>2, <2>3, <2>4
          DEF StreamInv, Stream!LossIsLoud, Stream!Total, Stream!CapOf
<1>3. CASE dropped = 0
  <2>1. out' = count
    BY <1>1, <1>3
  <2>2. \A l \in Stream!Level : count[l] = asked[l]
    BY <1>1, <1>3 DEF Stream!Total, Stream!Level, Lines
  <2>3. out' = asked
    BY <1>1, <2>1, <2>2 DEF Lines
  <2>4. \A l \in Stream!Level : out'[l] <= Stream!RunnerKeeps
    BY <1>1, <2>1, CapsFit DEF Lines, Stream!RunnerKeeps
  <2> QED BY <1>1, <1>3, <2>1, <2>3, <2>4
          DEF StreamInv, Stream!LossIsLoud, Stream!Total, Stream!CapOf
<1> QED BY <1>1, <1>2, <1>3

LEMMA StreamLoud == Stream!Init /\ [][Stream!Next]_Stream!vars => []Stream!LossIsLoud
<1>1. Stream!Init => StreamInv
  BY
        DEF Stream!Init, StreamInv, Stream!LossIsLoud, Stream!Total, Stream!Level,
            Stream!CapOf,
         Stream!ANNOTATION_CAP, Lines
<1>2. StreamInv /\ [Stream!Next]_Stream!vars => StreamInv'
  <2> SUFFICES ASSUME StreamInv, [Stream!Next]_Stream!vars PROVE StreamInv'
    OBVIOUS
  <2>1. CASE Stream!AnnotateTable \/ Stream!AnnotateNote
    <3>1. PICK level \in Stream!Level : Stream!Emit(level)
      BY <2>1 DEF Stream!AnnotateTable, Stream!AnnotateNote, Stream!Level
    <3>2. phase # "done" /\ phase' \in {"tables", "notes"}
      BY <2>1 DEF Stream!AnnotateTable, Stream!AnnotateNote
    <3> QED BY <3>1, <3>2, EmitCounts
  <2>2. CASE UNCHANGED Stream!vars
    BY <2>2 DEF Stream!vars, StreamInv, Stream!LossIsLoud, Stream!Total, Stream!CapOf
  <2> QED BY <2>1, <2>2, FinishCounts DEF Stream!Next
<1>3. StreamInv => Stream!LossIsLoud
  BY DEF StreamInv
<1> QED BY <1>1, <1>2, <1>3, PTL

\* "Truncation here is loud" (render.rs): however many tables and notes there are, of what is
\* written the runner loses nothing, the suppression notice included, and what is missing is
\* counted in it.
THEOREM LossAlwaysLoud == OutputsSpec => []LossIsLoud
<1>1. OutputsInit => Stream!Init
  BY DEF OutputsInit
<1>2. [OutputsNext]_outputs => [Stream!Next]_Stream!vars
  BY DEF OutputsNext, NextLine, NextStatement, NextCall, outputs, stream, Stream!vars
<1>3. Stream!LossIsLoud => LossIsLoud
  BY DEF LossIsLoud
<1> QED BY <1>1, <1>2, <1>3, StreamLoud, PTL DEF OutputsSpec

-----------------------------------------------------------------------------
(* Buffers across the wasm boundary: what the host holds is what the module  *)
(* has allocated.                                                            *)

Roles == {"input", "written", "output", "read"}

HostBuffers == [role : Roles, ptr : 1..MaxMemory, len : Nat]

\* A buffer the host holds is a block of the module, as long as the host knows it and
\* with what the host may expect in it.
HeldIsBlock(buffer) ==
    /\ buffer \in HostBuffers
    /\ buffer.ptr + buffer.len <= MaxMemory
    /\ buffer.role = "output" => buffer.len > 0
    /\ buffer.len > 0 =>
          /\ buffer.ptr \in DOMAIN blocks
          /\ blocks[buffer.ptr].len = buffer.len
          /\ buffer.role = "written" => blocks[buffer.ptr].content = "request"
          /\ buffer.role = "output" => blocks[buffer.ptr].content = "reply"

HolderOf(ptr, buffer) == buffer.len > 0 /\ buffer.ptr = ptr

\* Every block is held as one buffer, and nothing has gone wrong.
BoundaryInv ==
    /\ fault = "none"
    /\ \A buffer \in held : HeldIsBlock(buffer)
    /\ \A buffer, other \in held :
          buffer.len > 0 /\ other.len > 0 /\ buffer.ptr = other.ptr => buffer = other
    /\ \A ptr \in DOMAIN blocks : \E buffer \in held : HolderOf(ptr, buffer)

LEMMA PointersCross ==
    ASSUME Boundary!Addressable, NEW ptr \in 1..MaxMemory, NEW len \in Nat,
           ptr + len <= MaxMemory
    PROVE  /\ ptr \in Nat /\ len \in Nat
           /\ ptr < WordSize \div 2 \/ len = 0
           /\ Boundary!ToModule(ptr) = ptr
           /\ ptr < WordSize \div 2 => Boundary!ToHost(ptr) = ptr
<1>1. /\ WordSize \in Nat \ (0..3) /\ MaxMemory \in 1..(WordSize \div 2)
  BY DEF Boundary!Addressable
<1>2. WordSize \div 2 \in Nat /\ WordSize \div 2 < WordSize /\ WordSize \in Nat
  BY <1>1
<1>3. ptr \in 0..(WordSize - 1)
  BY <1>1, <1>2
<1>4. ptr % WordSize = ptr
  BY <1>2, <1>3
<1> QED BY <1>1, <1>2, <1>3, <1>4 DEF Boundary!ToModule, Boundary!ToHost

LEMMA WordsPack ==
    ASSUME NEW w \in Nat \ {0}, NEW p \in Nat, NEW l \in 0..(w - 1)
    PROVE  (p * w + l) \div w = p /\ (p * w + l) % w = l
<1>1. p * w \in Nat /\ p * w + l \in Nat
  OBVIOUS
<1> DEFINE v == p * w + l
           q == v \div w
           r == v % w
<1>2. q \in Int /\ r \in 0..(w - 1) /\ v = w * q + r
  BY <1>1
<1>3. w * (p - q) = r - l
  BY <1>2
<1> HIDE DEF q, r
<1>4. CASE p > q
  <2>1. w * (p - q) >= w
    BY <1>2, <1>4
  <2> QED BY <1>2, <1>3, <2>1
<1>5. CASE p < q
  <2>1. w * (p - q) <= 0 - w
    BY <1>2, <1>5
  <2> QED BY <1>2, <1>3, <2>1
<1>6. CASE p = q
  BY <1>2, <1>3, <1>6 DEF q, r
<1> QED BY <1>2, <1>4, <1>5, <1>6

LEMMA ReplyCrosses ==
    ASSUME Boundary!Addressable, NEW ptr \in 1..MaxMemory, NEW len \in Nat \ {0},
           ptr + len <= MaxMemory
    PROVE  Boundary!Unpack(Boundary!BigInt(Boundary!Pack(ptr, len))) = [ptr |-> ptr, len |-> len]
<1> DEFINE h == WordSize \div 2
           v == ptr * WordSize + len
<1>1. /\ WordSize \in Nat \ (0..3) /\ MaxMemory \in 1..h
  BY DEF Boundary!Addressable
<1>2. h \in Nat /\ h < WordSize /\ WordSize \in Nat \ {0}
  BY <1>1
<1> HIDE DEF h
<1>3. ptr + 1 <= h /\ len < WordSize /\ ptr \in Nat
  BY <1>1, <1>2
<1>4. (ptr + 1) * WordSize <= h * WordSize
  BY <1>2, <1>3
<1>5. v < h * WordSize
  <2>1. (ptr + 1) * WordSize = ptr * WordSize + WordSize
    BY <1>2, <1>3
  <2>2. ptr * WordSize \in Nat /\ h * WordSize \in Nat
    BY <1>2, <1>3
  <2> QED BY <1>2, <1>3, <1>4, <2>1, <2>2
<1>6. Boundary!BigInt(Boundary!Pack(ptr, len)) = v
  <2>1. v \in Int /\ h * WordSize \in Int
    BY <1>2, <1>3
  <2>2. ~(v >= h * WordSize)
    <3> HIDE DEF v
    <3> QED BY <1>5, <2>1
  <2> QED BY <2>2, Zenon DEF Boundary!BigInt, Boundary!Pack, h
<1>7. v \div WordSize = ptr /\ v % WordSize = len
  <2>1. len \in 0..(WordSize - 1)
    BY <1>2, <1>3
  <2> QED BY <1>2, <1>3, <2>1, WordsPack
<1> QED BY <1>6, <1>7 DEF Boundary!Unpack

\* A place for a block of some bytes is no block's.
LEMMA PlacesFresh ==
    ASSUME Boundary!Addressable, BoundaryInv, NEW len \in Nat, NEW ptr \in Boundary!Places(len)
    PROVE  /\ ptr \in 1..MaxMemory /\ ptr + len <= MaxMemory
           /\ ptr < WordSize \div 2
           /\ len > 0 => ptr \notin DOMAIN blocks
<1>1. /\ WordSize \in Nat \ (0..3) /\ MaxMemory \in 1..(WordSize \div 2)
      /\ WordSize \div 2 \in Nat /\ WordSize \div 2 >= 2
  BY DEF Boundary!Addressable
<1>2. CASE len = 0
  BY <1>1, <1>2 DEF Boundary!Places, Boundary!Dangling
<1>3. CASE len > 0
  <2>1. /\ ptr \in 1..(MaxMemory - len)
        /\ \A other \in DOMAIN blocks :
              Boundary!Bytes(ptr, len) \cap Boundary!Bytes(other, blocks[other].len) = {}
    BY <1>3 DEF Boundary!Places
  <2>2. ASSUME ptr \in DOMAIN blocks PROVE FALSE
    <3>1. PICK buffer \in held : HolderOf(ptr, buffer)
      BY <2>2 DEF BoundaryInv
    <3>2. blocks[ptr].len \in Nat /\ blocks[ptr].len > 0
      <4>1. HeldIsBlock(buffer) /\ buffer.len > 0 /\ buffer.ptr = ptr
        BY <3>1 DEF BoundaryInv, HolderOf
      <4>2. buffer.len \in Nat
        BY <4>1 DEF HeldIsBlock, HostBuffers
      <4> QED BY <4>1, <4>2 DEF HeldIsBlock
    <3>3. ptr \in Boundary!Bytes(ptr, len) /\ ptr \in Boundary!Bytes(ptr, blocks[ptr].len)
      BY <1>1, <1>3, <2>1, <3>2 DEF Boundary!Bytes
    <3> QED BY <2>1, <2>2, <3>3
  <2>3. ptr \in 1..MaxMemory /\ ptr + len <= MaxMemory /\ ptr < WordSize \div 2
    BY <1>1, <1>3, <2>1
  <2> QED BY <2>2, <2>3
<1> QED BY <1>2, <1>3

\* A new block, and a buffer that is it.
LEMMA BlockAdded ==
    ASSUME BoundaryInv, NEW ptr \in 1..MaxMemory, NEW len \in Nat \ {0}, NEW content,
           ptr + len <= MaxMemory, ptr \notin DOMAIN blocks,
           NEW role \in Roles, role = "written" => content = "request",
           role = "output" => content = "reply",
           blocks' = Boundary!Put(blocks, ptr, [len |-> len, content |-> content]),
           held' = held \cup {Boundary!Buffer(role, ptr, len)}, UNCHANGED fault
    PROVE  BoundaryInv'
<1> DEFINE new == Boundary!Buffer(role, ptr, len)
           block == [len |-> len, content |-> content]
<1>1. /\ new.role = role /\ new.ptr = ptr /\ new.len = len /\ new \in HostBuffers
      /\ block.len = len /\ block.content = content
  BY DEF Boundary!Buffer, HostBuffers
<1> HIDE DEF new, block
<1>2. /\ DOMAIN blocks' = DOMAIN blocks \cup {ptr} /\ blocks'[ptr] = block
      /\ \A p \in DOMAIN blocks : p # ptr /\ blocks'[p] = blocks[p]
  BY DEF Boundary!Put, block
<1>3. held' = held \cup {new} /\ len > 0
  BY DEF new
<1>4. HeldIsBlock(new)'
  BY <1>1, <1>2 DEF HeldIsBlock
<1>5. ASSUME NEW buffer \in held PROVE HeldIsBlock(buffer)' /\ ~(buffer.len > 0 /\ buffer.ptr = ptr)
  <2>1. HeldIsBlock(buffer)
    BY DEF BoundaryInv
  <2> QED BY <1>2, <2>1 DEF HeldIsBlock
<1>6. \A buffer, other \in held' :
          buffer.len > 0 /\ other.len > 0 /\ buffer.ptr = other.ptr => buffer = other
  <2>1. \A buffer, other \in held :
          buffer.len > 0 /\ other.len > 0 /\ buffer.ptr = other.ptr => buffer = other
    BY DEF BoundaryInv
  <2> QED BY <1>1, <1>3, <1>5, <2>1
<1>7. \A p \in DOMAIN blocks' : \E buffer \in held' : HolderOf(p, buffer)
  <2>1. \A p \in DOMAIN blocks : \E buffer \in held : HolderOf(p, buffer)
    BY DEF BoundaryInv
  <2>2. HolderOf(ptr, new)
    BY <1>1, <1>3 DEF HolderOf
  <2> QED BY <1>2, <1>3, <2>1, <2>2
<1> QED BY <1>3, <1>4, <1>5, <1>6, <1>7 DEF BoundaryInv

\* A buffer changes its role, and its block's content with it.
LEMMA RoleChanged ==
    ASSUME BoundaryInv, NEW buffer \in held, NEW role \in Roles \ {"output"},
           held' = (held \ {buffer}) \cup {[buffer EXCEPT !.role = role]}, UNCHANGED fault,
           DOMAIN blocks' = DOMAIN blocks,
           \A p \in DOMAIN blocks : blocks'[p].len = blocks[p].len,
           \A p \in DOMAIN blocks : (buffer.len > 0 => p # buffer.ptr) => blocks'[p] = blocks[p],
           buffer.len > 0 /\ role = "written" => blocks'[buffer.ptr].content = "request"
    PROVE  BoundaryInv'
<1> DEFINE new == [buffer EXCEPT !.role = role]
<1>1. HeldIsBlock(buffer) /\ buffer \in HostBuffers
  BY DEF BoundaryInv, HeldIsBlock
<1>2. /\ new.role = role /\ new.ptr = buffer.ptr /\ new.len = buffer.len
      /\ new \in HostBuffers /\ buffer.len \in Nat
  BY <1>1 DEF HostBuffers
<1>3. held' = (held \ {buffer}) \cup {new}
  OBVIOUS
<1> HIDE DEF new
<1>4. HeldIsBlock(new)'
  BY <1>1, <1>2 DEF HeldIsBlock
<1>5. ASSUME NEW other \in held \ {buffer}
      PROVE  /\ HeldIsBlock(other)'
             /\ ~(other.len > 0 /\ buffer.len > 0 /\ other.ptr = buffer.ptr)
  <2>1. HeldIsBlock(other)
    BY DEF BoundaryInv
  <2>2. ~(other.len > 0 /\ buffer.len > 0 /\ other.ptr = buffer.ptr)
    BY DEF BoundaryInv
  <2>3. other.len > 0 => blocks'[other.ptr] = blocks[other.ptr]
    BY <2>1, <2>2 DEF HeldIsBlock
  <2> QED BY <2>1, <2>2, <2>3 DEF HeldIsBlock
<1>6. \A one, other \in held' :
          one.len > 0 /\ other.len > 0 /\ one.ptr = other.ptr => one = other
  <2>1. \A one, other \in held :
          one.len > 0 /\ other.len > 0 /\ one.ptr = other.ptr => one = other
    BY DEF BoundaryInv
  <2> QED BY <1>2, <1>3, <1>5, <2>1
<1>7. \A p \in DOMAIN blocks' : \E holder \in held' : HolderOf(p, holder)
  <2> SUFFICES ASSUME NEW p \in DOMAIN blocks PROVE \E holder \in held' : HolderOf(p, holder)
    OBVIOUS
  <2>1. PICK holder \in held : HolderOf(p, holder)
    BY DEF BoundaryInv
  <2>2. CASE holder = buffer
    BY <1>2, <1>3, <2>1, <2>2 DEF HolderOf
  <2>3. CASE holder # buffer
    BY <1>3, <2>1, <2>3
  <2> QED BY <2>2, <2>3
<1> QED BY <1>3, <1>4, <1>5, <1>6, <1>7 DEF BoundaryInv

\* What the host knows of a buffer is what the module needs.
LEMMA HeldCrosses ==
    ASSUME Boundary!Addressable, BoundaryInv, NEW buffer \in held
    PROVE  /\ Boundary!ToModule(buffer.ptr) = buffer.ptr
           /\ Boundary!InMemory(buffer)
           /\ Boundary!IsBlock(buffer.ptr, buffer.len)
           /\ buffer.ptr \in Nat /\ buffer.len \in Nat
<1>1. HeldIsBlock(buffer) /\ buffer.ptr \in 1..MaxMemory /\ buffer.len \in Nat
      /\ buffer.ptr + buffer.len <= MaxMemory
  BY DEF BoundaryInv, HeldIsBlock, HostBuffers
<1>2. Boundary!ToModule(buffer.ptr) = buffer.ptr /\ buffer.ptr \in Nat
  BY <1>1, PointersCross
<1>3. Boundary!InMemory(buffer)
  BY <1>1, <1>2 DEF Boundary!InMemory
<1>4. Boundary!IsBlock(buffer.ptr, buffer.len)
  BY <1>1 DEF Boundary!IsBlock, HeldIsBlock
<1> QED BY <1>1, <1>2, <1>3, <1>4

LEMMA AllocKeeps ==
    ASSUME Boundary!Addressable, BoundaryInv, NEW len \in InputLengths, Boundary!Alloc(len)
    PROVE  BoundaryInv'
<1>1. len \in Nat
  BY DEF Boundary!Addressable
<1>2. PICK ptr \in Boundary!Places(len) :
          /\ blocks' = Boundary!Allocated(ptr, len, "zero")
          /\ held' = held \cup {Boundary!Buffer("input", Boundary!ToHost(ptr), len)}
          /\ UNCHANGED fault
  BY DEF Boundary!Alloc
<1>3. /\ ptr \in 1..MaxMemory /\ ptr + len <= MaxMemory /\ ptr < WordSize \div 2
      /\ len > 0 => ptr \notin DOMAIN blocks
  BY <1>1, PlacesFresh
<1>4. Boundary!ToHost(ptr) = ptr
  BY <1>1, <1>3, PointersCross
<1>5. CASE len = 0
  <2> DEFINE new == Boundary!Buffer("input", ptr, len)
  <2>1. held' = held \cup {new} /\ UNCHANGED <<blocks, fault>>
    BY <1>2, <1>4, <1>5 DEF Boundary!Allocated
  <2>2. new.role = "input" /\ new.len = 0 /\ new.ptr = ptr /\ new \in HostBuffers
    BY <1>1, <1>3, <1>5 DEF Boundary!Buffer, HostBuffers, Roles
  <2> HIDE DEF new
  <2>3. HeldIsBlock(new)' /\ ~(new.len > 0)
    BY <1>3, <1>5, <2>2 DEF HeldIsBlock
  <2>4. \A buffer \in held : HeldIsBlock(buffer)'
    BY <2>1 DEF BoundaryInv, HeldIsBlock
  <2> QED BY <2>1, <2>3, <2>4 DEF BoundaryInv
<1>6. CASE len # 0
  <2>1. blocks' = Boundary!Put(blocks, ptr, [len |-> len, content |-> "zero"])
    BY <1>2, <1>6 DEF Boundary!Allocated
  <2>2. held' = held \cup {Boundary!Buffer("input", ptr, len)}
    BY <1>2, <1>4
  <2>3. len \in Nat \ {0} /\ ptr \notin DOMAIN blocks /\ "input" \in Roles
    BY <1>1, <1>3, <1>6 DEF Roles
  <2> QED BY <1>2, <1>3, <2>1, <2>2, <2>3, BlockAdded
<1> QED BY <1>5, <1>6

LEMMA WriteInputKeeps ==
    ASSUME Boundary!Addressable, BoundaryInv, NEW buffer \in held, Boundary!WriteInput(buffer)
    PROVE  BoundaryInv'
<1>1. /\ Boundary!InMemory(buffer) /\ buffer.ptr \in Nat /\ buffer.len \in Nat
  BY HeldCrosses
<1>2. /\ blocks' = Boundary!Allocated(buffer.ptr, buffer.len, "request")
      /\ held' = (held \ {buffer}) \cup {[buffer EXCEPT !.role = "written"]}
      /\ UNCHANGED fault
  BY <1>1 DEF Boundary!WriteInput
<1>3. HeldIsBlock(buffer) /\ "written" \in Roles \ {"output"}
  BY DEF BoundaryInv, Roles
<1>4. CASE buffer.len = 0
  <2>1. blocks' = blocks
    BY <1>2, <1>4 DEF Boundary!Allocated
  <2> QED BY <1>2, <1>3, <1>4, <2>1, RoleChanged
<1>5. CASE buffer.len # 0
  <2>1. /\ buffer.len > 0 /\ buffer.ptr \in DOMAIN blocks
        /\ blocks[buffer.ptr].len = buffer.len
    BY <1>1, <1>3, <1>5 DEF HeldIsBlock
  <2> DEFINE block == [len |-> buffer.len, content |-> "request"]
  <2>2. block.len = buffer.len /\ block.content = "request"
    OBVIOUS
  <2> HIDE DEF block
  <2>3. blocks' = Boundary!Put(blocks, buffer.ptr, block)
    BY <1>2, <1>5 DEF Boundary!Allocated, block
  <2>4. /\ DOMAIN blocks' = DOMAIN blocks /\ blocks'[buffer.ptr] = block
        /\ \A p \in DOMAIN blocks : p # buffer.ptr => blocks'[p] = blocks[p]
    BY <2>1, <2>3 DEF Boundary!Put
  <2>5. \A p \in DOMAIN blocks : blocks'[p].len = blocks[p].len
    BY <2>1, <2>2, <2>4
  <2> QED BY <1>2, <1>3, <2>1, <2>2, <2>4, <2>5, RoleChanged
<1> QED BY <1>4, <1>5

LEMMA LintKeeps ==
    ASSUME Boundary!Addressable, BoundaryInv, NEW buffer \in held, Boundary!Lint(buffer)
    PROVE  BoundaryInv'
<1> DEFINE Replied(len, ptr) ==
              LET output == Boundary!Unpack(Boundary!BigInt(Boundary!Pack(ptr, len)))
              IN  /\ blocks' = Boundary!Put(blocks, ptr, [len |-> len, content |-> "reply"])
                  /\ held' = held \cup {Boundary!Buffer("output", output.ptr, output.len)}
<1>0. PICK len \in OutputLengths : \E ptr \in Boundary!Places(len) : Replied(len, ptr)
  BY DEF Boundary!Lint, Boundary!ReplyBlock, Boundary!InputKept
<1>1. PICK ptr \in Boundary!Places(len) : Replied(len, ptr)
  BY <1>0
<1>2. len \in Nat \ {0}
  BY DEF Boundary!Addressable
<1>3. /\ ptr \in 1..MaxMemory /\ ptr + len <= MaxMemory /\ ptr \notin DOMAIN blocks
  BY <1>1, <1>2, PlacesFresh
<1>4. Boundary!Unpack(Boundary!BigInt(Boundary!Pack(ptr, len))) = [ptr |-> ptr, len |-> len]
  BY <1>2, <1>3, ReplyCrosses
<1>5. /\ blocks' = Boundary!Put(blocks, ptr, [len |-> len, content |-> "reply"])
      /\ held' = held \cup {Boundary!Buffer("output", ptr, len)}
  BY <1>1, <1>4
<1>6. UNCHANGED fault
  <2>1. HeldIsBlock(buffer) /\ buffer.role = "written"
    BY DEF BoundaryInv, Boundary!Lint
  <2>2. Boundary!Received(Boundary!ToModule(buffer.ptr), buffer.len)
    BY <2>1, HeldCrosses DEF Boundary!Received, HeldIsBlock
  <2> QED BY <2>2 DEF Boundary!Lint
<1>7. "output" \in Roles
  BY DEF Roles
<1> QED BY <1>2, <1>3, <1>5, <1>6, <1>7, BlockAdded

LEMMA ReadOutputKeeps ==
    ASSUME Boundary!Addressable, BoundaryInv, NEW buffer \in held, Boundary!ReadOutput(buffer)
    PROVE  BoundaryInv'
<1>1. HeldIsBlock(buffer) /\ buffer.role = "output" /\ buffer.len > 0
      /\ blocks[buffer.ptr].content = "reply"
  BY DEF BoundaryInv, Boundary!ReadOutput, HeldIsBlock
<1>2. /\ held' = (held \ {buffer}) \cup {[buffer EXCEPT !.role = "read"]}
      /\ UNCHANGED <<fault, blocks>>
  BY <1>1, HeldCrosses DEF Boundary!ReadOutput
<1>3. "read" \in Roles \ {"output"}
  BY DEF Roles
<1> QED BY <1>2, <1>3, RoleChanged

LEMMA FreeKeeps ==
    ASSUME Boundary!Addressable, BoundaryInv, NEW buffer \in held, Boundary!Free(buffer)
    PROVE  BoundaryInv'
<1>1. /\ held' = held \ {buffer} /\ blocks' = Boundary!Released(buffer.ptr, buffer.len)
      /\ UNCHANGED fault
  BY HeldCrosses DEF Boundary!Free
<1>2. \A other \in held' : other \in held /\ other # buffer /\ HeldIsBlock(other)
  BY <1>1 DEF BoundaryInv
<1>3. buffer.len \in Nat
  BY HeldCrosses
<1>4. CASE buffer.len = 0
  <2>1. blocks' = blocks
    BY <1>1, <1>4 DEF Boundary!Released
  <2>2. \A other \in held' : HeldIsBlock(other)'
    BY <1>2, <2>1 DEF HeldIsBlock
  <2>3. \A p \in DOMAIN blocks' : \E holder \in held' : HolderOf(p, holder)
    BY <1>1, <1>4, <2>1 DEF BoundaryInv, HolderOf
  <2> QED BY <1>1, <1>2, <2>2, <2>3 DEF BoundaryInv
<1>5. CASE buffer.len # 0
  <2>1. /\ DOMAIN blocks' = DOMAIN blocks \ {buffer.ptr}
        /\ \A p \in DOMAIN blocks' : blocks'[p] = blocks[p]
    BY <1>1, <1>5 DEF Boundary!Released, Boundary!Remove
  <2>2. ASSUME NEW other \in held' PROVE HeldIsBlock(other)'
    <3>1. HeldIsBlock(other) /\ ~(other.len > 0 /\ other.ptr = buffer.ptr)
      BY <1>2, <1>3, <1>5 DEF BoundaryInv
    <3> QED BY <2>1, <3>1 DEF HeldIsBlock
  <2>3. \A p \in DOMAIN blocks' : \E holder \in held' : HolderOf(p, holder)
    BY <1>1, <2>1 DEF BoundaryInv, HolderOf
  <2> QED BY <1>1, <1>2, <2>2, <2>3 DEF BoundaryInv
<1> QED BY <1>4, <1>5

LEMMA InvAccounts ==
    ASSUME Boundary!Addressable, BoundaryInv
    PROVE  BuffersAccounted
<1> DEFINE known == {<< ptr, blocks[ptr].len >> : ptr \in DOMAIN blocks}
           owed == {<< Boundary!ToModule(buffer.ptr), buffer.len >> : buffer \in {h \in held : h.len > 0}}
<1>1. ASSUME NEW ptr \in DOMAIN blocks PROVE << ptr, blocks[ptr].len >> \in owed
  <2>1. PICK buffer \in held : HolderOf(ptr, buffer)
    BY DEF BoundaryInv
  <2>2. /\ HeldIsBlock(buffer) /\ buffer.len > 0 /\ buffer.ptr = ptr
        /\ Boundary!ToModule(buffer.ptr) = ptr
    BY <2>1, HeldCrosses DEF BoundaryInv, HolderOf
  <2>3. blocks[ptr].len = buffer.len
    BY <2>2 DEF HeldIsBlock
  <2> QED BY <2>2, <2>3
<1>2. ASSUME NEW buffer \in held, buffer.len > 0
      PROVE  << Boundary!ToModule(buffer.ptr), buffer.len >> \in known
  <2>1. HeldIsBlock(buffer) /\ Boundary!ToModule(buffer.ptr) = buffer.ptr
    BY HeldCrosses DEF BoundaryInv
  <2>2. buffer.ptr \in DOMAIN blocks /\ blocks[buffer.ptr].len = buffer.len
    BY <1>2, <2>1 DEF HeldIsBlock
  <2> QED BY <2>1, <2>2
<1>3. known = owed
  BY <1>1, <1>2
<1> QED BY <1>3 DEF BoundaryInv, BuffersAccounted, Boundary!BuffersAccounted

\* "exactly the boxed slice produced by rowdiet_alloc / rowdiet_lint" (rowdiet-wasm's lib.rs):
\* for any number of requests of any length in any memory the host can address, whatever
\* the order of its calls, every free gives back a block as it was given out, every
\* request and reply is read as it was written, and nothing leaks.
THEOREM BuffersAlwaysAccounted ==
    ASSUME Boundary!Addressable
    PROVE  OutputsSpec => []BuffersAccounted
<1>1. OutputsInit => BoundaryInv
  BY DEF OutputsInit, Boundary!Init, BoundaryInv, Boundary!EmptyMap
<1>2. BoundaryInv /\ [OutputsNext]_outputs => BoundaryInv'
  <2> SUFFICES ASSUME BoundaryInv, [OutputsNext]_outputs PROVE BoundaryInv'
    OBVIOUS
  <2>1. CASE Boundary!Next
    <3>1. CASE \E len \in InputLengths : Boundary!Alloc(len)
      BY <3>1, AllocKeeps
    <3>2. CASE \E buffer \in held :
                  \/ Boundary!WriteInput(buffer) \/ Boundary!Lint(buffer)
                  \/ Boundary!ReadOutput(buffer) \/ Boundary!Free(buffer)
      BY <3>2, WriteInputKeeps, LintKeeps, ReadOutputKeeps, FreeKeeps
    <3> QED BY <2>1, <3>1, <3>2 DEF Boundary!Next
  <2>2. CASE UNCHANGED boundary
    BY <2>2 DEF boundary, BoundaryInv, HeldIsBlock
  <2> QED BY <2>1, <2>2 DEF OutputsNext, NextLine, NextStatement, NextCall, outputs
<1>3. BoundaryInv => BuffersAccounted
  BY InvAccounts
<1> QED BY <1>1, <1>2, <1>3, PTL DEF OutputsSpec

-----------------------------------------------------------------------------
(* The order of file names: that of a key, and of the versions the names     *)
(* carry, for names of every length.                                         *)

IsText(name) == name \in Seq(Letters)

LEMMA CharactersCounted == DOMAIN Characters = 1..8
BY DEF Characters

LEMMA BytesDiffer ==
    ASSUME NEW c \in Letters, NEW d \in Letters
    PROVE  Byte(c) \in 1..8 /\ (Byte(c) = Byte(d) => c = d)
<1>1. DOMAIN Characters = 1..8
  BY CharactersCounted
<1>2. Byte(c) \in DOMAIN Characters /\ Characters[Byte(c)] = c
  BY DEF Byte, Letters
<1>3. Byte(d) \in DOMAIN Characters /\ Characters[Byte(d)] = d
  BY DEF Byte, Letters
<1> QED BY <1>1, <1>2, <1>3

\* Only equal sequences are in no order.
LEMMA LexEqual ==
    ASSUME NEW S, NEW s \in Seq(S), NEW t \in Seq(S)
    PROVE  /\ LexOrder(s, t) \in {-1, 0, 1}
           /\ LexOrder(s, t) = 0 <=> s = t
<1> DEFINE differ == {i \in DOMAIN s \cap DOMAIN t : s[i] # t[i]}
<1>1. Len(s) \in Nat /\ Len(t) \in Nat /\ DOMAIN s = 1..Len(s) /\ DOMAIN t = 1..Len(t)
      /\ s = [i \in 1..Len(s) |-> s[i]] /\ t = [i \in 1..Len(t) |-> t[i]]
  OBVIOUS
<1>2. CASE differ # {}
  <2>1. s # t
    BY <1>2
  <2>2. LexOrder(s, t) \in {-1, 1}
    BY <1>2 DEF LexOrder
  <2> QED BY <2>1, <2>2
<1>3. CASE differ = {}
  <2>1. LexOrder(s, t) = IF Len(s) < Len(t) THEN -1 ELSE IF Len(s) > Len(t) THEN 1 ELSE 0
    BY <1>3 DEF LexOrder
  <2>2. CASE Len(s) = Len(t)
    <3>1. \A i \in 1..Len(s) : s[i] = t[i]
      BY <1>1, <1>3, <2>2
    <3>2. s = t
      BY <1>1, <2>2, <3>1
    <3>3. LexOrder(s, t) = 0
      BY <1>1, <2>1, <2>2
    <3> QED BY <3>2, <3>3
  <2>3. CASE Len(s) # Len(t)
    <3>1. s # t
      BY <2>3
    <3>2. LexOrder(s, t) \in {-1, 1}
      <4>1. Len(s) < Len(t) \/ Len(s) > Len(t)
        <5>1. \A m, n \in Nat : m # n => m < n \/ m > n
          OBVIOUS
        <5> QED BY <1>1, <2>3, <5>1, Zenon
      <4> QED BY <2>1, <4>1
    <3> QED BY <3>1, <3>2
  <2> QED BY <2>2, <2>3
<1> QED BY <1>2, <1>3

LEMMA TextEqual ==
    ASSUME NEW s, NEW t, IsText(s), IsText(t)
    PROVE  /\ TextOrder(s, t) \in {-1, 0, 1}
           /\ TextOrder(s, t) = 0 <=> s = t
<1> DEFINE C == Letters
           sb == [i \in DOMAIN s |-> Byte(s[i])]
           tb == [i \in DOMAIN t |-> Byte(t[i])]
<1>1. s \in Seq(C) /\ t \in Seq(C)
  BY DEF IsText
<1>2. /\ DOMAIN s = 1..Len(s) /\ DOMAIN t = 1..Len(t) /\ Len(s) \in Nat /\ Len(t) \in Nat
      /\ \A i \in DOMAIN s : s[i] \in C
      /\ \A i \in DOMAIN t : t[i] \in C
      /\ s = [i \in DOMAIN s |-> s[i]] /\ t = [i \in DOMAIN t |-> t[i]]
  BY <1>1
<1>3. sb \in Seq(1..8) /\ tb \in Seq(1..8)
  <2>1. \A i \in DOMAIN s : Byte(s[i]) \in 1..8
    BY <1>2, BytesDiffer
  <2>2. \A i \in DOMAIN t : Byte(t[i]) \in 1..8
    BY <1>2, BytesDiffer
  <2> QED BY <1>2, <2>1, <2>2
<1>4. TextOrder(s, t) \in {-1, 0, 1} /\ (TextOrder(s, t) = 0 <=> sb = tb)
  <2>1. TextOrder(s, t) = LexOrder(sb, tb)
    BY DEF TextOrder
  <2> HIDE DEF sb, tb
  <2> QED BY <1>3, <2>1, LexEqual
<1>5. sb = tb => s = t
  <2> SUFFICES ASSUME sb = tb PROVE s = t
    OBVIOUS
  <2>1. DOMAIN s = DOMAIN t
    BY <1>2
  <2>2. \A i \in DOMAIN s : Byte(s[i]) = Byte(t[i])
    BY <2>1
  <2>3. \A i \in DOMAIN s : s[i] = t[i]
    BY <1>2, <2>1, <2>2, BytesDiffer
  <2> QED BY <1>2, <2>1, <2>3
<1> QED BY <1>4, <1>5

LEMMA RanksOrdered ==
    /\ LexOrder(<< 0 >>, << 0 >>) = 0 /\ LexOrder(<< 1 >>, << 1 >>) = 0
    /\ LexOrder(<< 0 >>, << 1 >>) = -1 /\ LexOrder(<< 1 >>, << 0 >>) = 1
    /\ LexOrder(<< >>, << >>) = 0
<1>1. \A m, n \in {0, 1} :
          LexOrder(<< m >>, << n >>) = IF m < n THEN -1 ELSE IF n < m THEN 1 ELSE 0
  <2> TAKE m, n \in {0, 1}
  <2> DEFINE s == << m >>
             t == << n >>
             differ == {i \in DOMAIN s \cap DOMAIN t : s[i] # t[i]}
  <2>1. DOMAIN s = {1} /\ DOMAIN t = {1} /\ s[1] = m /\ t[1] = n /\ Len(s) = 1 /\ Len(t) = 1
    OBVIOUS
  <2>2. CASE m = n
    <3>1. differ = {}
      BY <2>1, <2>2
    <3> HIDE DEF s, t
    <3> QED BY <2>1, <2>2, <3>1 DEF LexOrder
  <2>3. CASE m # n
    <3>1. differ = {1}
      BY <2>1, <2>3
    <3>2. (CHOOSE i \in differ : \A j \in differ : i <= j) = 1
      BY <3>1
    <3> HIDE DEF s, t
    <3>3. LexOrder(s, t) = IF s[1] < t[1] THEN -1 ELSE 1
      BY <3>1, <3>2 DEF LexOrder
    <3>4. m < n \/ n < m
      BY <2>3
    <3> QED BY <2>1, <3>3, <3>4 DEF s, t
  <2> QED BY <2>2, <2>3
<1>2. LexOrder(<< >>, << >>) = 0
  <2> DEFINE none == << >>
  <2>1. none \in Seq(Nat)
    OBVIOUS
  <2> HIDE DEF none
  <2>2. LexOrder(none, none) = 0
    BY <2>1, LexEqual
  <2> QED BY <2>2 DEF none
<1> QED BY <1>1, <1>2

\* compare, from the versions it parses.
LEMMA CompareBy ==
    ASSUME NEW s, NEW t
    PROVE  LET vs == ParseVersion(s)
               vt == ParseVersion(t)
           IN  Compare(s, t) =
                  IF vs # Unversioned /\ vt # Unversioned
                  THEN ThenWith(LexOrder(vs, vt), TextOrder(s, t))
                  ELSE IF vs # Unversioned THEN -1
                  ELSE IF vt # Unversioned THEN 1
                  ELSE TextOrder(s, t)
<1> DEFINE vs == ParseVersion(s)
           vt == ParseVersion(t)
<1>1. CASE vs # Unversioned /\ vt # Unversioned
  BY <1>1 DEF Compare
<1>2. CASE vs # Unversioned /\ vt = Unversioned
  BY <1>2 DEF Compare
<1>3. CASE vs = Unversioned /\ vt # Unversioned
  BY <1>3 DEF Compare
<1>4. CASE vs = Unversioned /\ vt = Unversioned
  BY <1>4 DEF Compare
<1> QED BY <1>1, <1>2, <1>3, <1>4

LEMMA KeysCompare ==
    ASSUME NEW s, NEW t
    PROVE  Compare(s, t) = KeyOrder(SortKey(s), SortKey(t))
<1> DEFINE vs == ParseVersion(s)
           vt == ParseVersion(t)
           rs == IF vs = Unversioned THEN 1 ELSE 0
           rt == IF vt = Unversioned THEN 1 ELSE 0
<1>1. /\ SortKey(s).rank = rs /\ SortKey(s).segments = vs /\ SortKey(s).name = s
      /\ SortKey(t).rank = rt /\ SortKey(t).segments = vt /\ SortKey(t).name = t
  BY DEF SortKey
<1>2. KeyOrder(SortKey(s), SortKey(t)) =
          ThenWith(LexOrder(<< rs >>, << rt >>), ThenWith(LexOrder(vs, vt), TextOrder(s, t)))
  BY <1>1, Zenon DEF KeyOrder
<1> HIDE DEF vs, vt
<1>3. Compare(s, t) =
          IF vs # Unversioned /\ vt # Unversioned
          THEN ThenWith(LexOrder(vs, vt), TextOrder(s, t))
          ELSE IF vs # Unversioned THEN -1
          ELSE IF vt # Unversioned THEN 1
          ELSE TextOrder(s, t)
  BY CompareBy DEF vs, vt
<1> DEFINE text == TextOrder(s, t)
           key == KeyOrder(SortKey(s), SortKey(t))
<1> HIDE DEF text, key
<1>4. key = ThenWith(LexOrder(<< rs >>, << rt >>), ThenWith(LexOrder(vs, vt), text))
  BY <1>2 DEF text, key
<1>5. CASE vs # Unversioned /\ vt # Unversioned
  <2>1. rs = 0 /\ rt = 0
    BY <1>5
  <2>2. LexOrder(<< rs >>, << rt >>) = 0
    BY <2>1, RanksOrdered, Zenon
  <2> DEFINE order == ThenWith(LexOrder(vs, vt), text)
  <2>3. Compare(s, t) = order
    BY <1>3, <1>5, Zenon DEF text
  <2>4. key = ThenWith(0, order)
    BY <1>4, <2>2, Zenon
  <2>5. key = order
    <3> HIDE DEF order
    <3> QED BY <2>4 DEF ThenWith
  <2> QED BY <2>3, <2>5, Zenon DEF key
<1>6. CASE vs # Unversioned /\ vt = Unversioned
  <2>1. rs = 0 /\ rt = 1
    BY <1>6
  <2>2. LexOrder(<< rs >>, << rt >>) = -1
    BY <2>1, RanksOrdered, Zenon
  <2>3. -1 # 0
    OBVIOUS
  <2> QED BY <1>3, <1>4, <1>6, <2>2, <2>3, Zenon DEF ThenWith, text, key
<1>7. CASE vs = Unversioned /\ vt # Unversioned
  <2>1. rs = 1 /\ rt = 0
    BY <1>7
  <2>2. LexOrder(<< rs >>, << rt >>) = 1
    BY <2>1, RanksOrdered, Zenon
  <2>3. 1 # 0
    OBVIOUS
  <2> QED BY <1>3, <1>4, <1>7, <2>2, <2>3, Zenon DEF ThenWith, text, key
<1>8. CASE vs = Unversioned /\ vt = Unversioned
  <2>1. rs = 1 /\ rt = 1
    BY <1>8
  <2>2. LexOrder(<< rs >>, << rt >>) = 0 /\ LexOrder(vs, vt) = 0
    BY <1>8, <2>1, RanksOrdered, Zenon DEF Unversioned
  <2> QED BY <1>3, <1>4, <1>8, <2>2, Zenon DEF ThenWith, text, key
<1> QED BY <1>5, <1>6, <1>7, <1>8

LEMMA CompareEqual ==
    ASSUME NEW s, NEW t, IsText(s), IsText(t), Compare(s, t) = 0
    PROVE  s = t
<1> DEFINE order == LexOrder(ParseVersion(s), ParseVersion(t))
           text == TextOrder(s, t)
<1>1. Compare(s, t) \in {ThenWith(order, text), -1, 1, text}
  BY CompareBy, Zenon
<1>2. text = 0
  <2>1. -1 # 0 /\ 1 # 0
    OBVIOUS
  <2> HIDE DEF text, order
  <2> QED BY <1>1, <2>1 DEF ThenWith
<1> QED BY <1>2, TextEqual

NamesTyped == IsText(a) /\ IsText(b)

\* The names are spelled in the characters the order knows.
LEMMA NamesAlwaysTyped ==
    ASSUME NamesSpelled
    PROVE  InputsSpec => []NamesTyped
<1>1. InputsInit => NamesTyped
  BY DEF InputsInit, NamesTyped, IsText
<1>2. NamesTyped /\ [InputsNext]_inputs => NamesTyped'
  <2> SUFFICES ASSUME NamesTyped, [InputsNext]_inputs PROVE NamesTyped'
    OBVIOUS
  <2>1. CASE NextName
    <3>1. PICK c \in Alphabet : \/ a' = Append(a, c) /\ UNCHANGED b
                                \/ b' = Append(b, c) /\ UNCHANGED a
      BY <2>1 DEF NextName
    <3>2. c \in Letters /\ a \in Seq(Letters) /\ b \in Seq(Letters)
      BY <3>1 DEF NamesTyped, IsText, NamesSpelled
    <3>3. Append(a, c) \in Seq(Letters) /\ Append(b, c) \in Seq(Letters)
      BY <3>2
    <3> QED BY <3>1, <3>2, <3>3 DEF NamesTyped, IsText
  <2>2. CASE UNCHANGED names
    BY <2>2 DEF names, NamesTyped, IsText
  <2> QED BY <2>1, <2>2 DEF InputsNext, NextEntry, NextRead, inputs
<1> QED BY <1>1, <1>2, PTL DEF InputsSpec

\* "Same order as comparing [`sort_key`]s" (version.rs:7): for names of any length, and
\* whatever number fits; and no two names are equal in it.
THEOREM CompareAlwaysByKey ==
    ASSUME NamesSpelled
    PROVE  InputsSpec => []CompareIsKeyOrder
<1>1. InputsSpec => []NamesTyped
  BY NamesAlwaysTyped
<1>2. NamesTyped => CompareIsKeyOrder
  BY KeysCompare, CompareEqual DEF NamesTyped, CompareIsKeyOrder
<1> QED BY <1>1, <1>2, PTL

IndexedName(name) ==
    /\ Len(name) \in Nat /\ DOMAIN name = 1..Len(name)
    /\ Len(name) = 0 => name = << >>

LEMMA TextIndexed ==
    ASSUME NEW name, IsText(name)
    PROVE  IndexedName(name)
<1>1. name \in Seq(Letters)
  BY DEF IsText
<1> HIDE DEF Letters
<1>2. Len(name) \in Nat /\ DOMAIN name = 1..Len(name)
  BY <1>1
<1>3. Len(name) = 0 => name = << >>
  BY <1>1
<1> QED BY <1>2, <1>3 DEF IndexedName

\* A number is read up to the first character that is no digit.
LEMMA DigitsEndFound ==
    ASSUME NEW name, IndexedName(name), NEW i \in 1..(Len(name) + 1)
    PROVE  /\ DigitsEnd(name, i) \in i..(Len(name) + 1)
           /\ ~IsDigit(name, DigitsEnd(name, i))
           /\ \A k \in i..(DigitsEnd(name, i) - 1) : IsDigit(name, k)
<1> DEFINE n == Len(name)
           S == {j \in i..(n + 1) : ~IsDigit(name, j)}
<1>1. n \in Nat /\ i \in 1..(n + 1) /\ DOMAIN name = 1..n
  BY DEF IndexedName
<1> HIDE DEF n
<1>2. ~IsDigit(name, n + 1) /\ n + 1 \in S
  <2>1. n + 1 \notin DOMAIN name
    BY <1>1
  <2> QED BY <1>1, <2>1 DEF IsDigit
<1>3. S \in SUBSET Nat /\ S # {}
  BY <1>1, <1>2
<1>4. PICK j \in S : \A k \in S : j <= k
  <2> HIDE DEF S
  <2> QED BY <1>3, LeastNumber
<1>5. \A k \in i..(j - 1) : IsDigit(name, k)
  <2> TAKE k \in i..(j - 1)
  <2>1. j \in i..(n + 1) /\ k \in i..(n + 1) /\ ~(j <= k)
    BY <1>1, <1>4
  <2> QED BY <1>4, <2>1
<1>6. \E e \in i..(n + 1) : ~IsDigit(name, e) /\ \A k \in i..(e - 1) : IsDigit(name, k)
  BY <1>4, <1>5
<1> QED BY <1>6 DEF DigitsEnd, n

NumberStep(name, i, F, k) == IF k < i THEN 0 ELSE 10 * F[k - 1] + Digits[name[k]]

IsNumber(name, i, last, F) == F = [k \in (i - 1)..last |-> NumberStep(name, i, F, k)]

LEMMA NumberExists ==
    ASSUME NEW name, NEW i \in Nat \ {0}, NEW last \in Int, last >= i - 1
    PROVE  \E F : IsNumber(name, i, last, F)
<1> DEFINE T == {m \in Nat : \E F : IsNumber(name, i, i - 1 + m, F)}
<1>1. 0 \in T
  <2> DEFINE F == [k \in (i - 1)..(i - 1) |-> 0]
  <2>1. \A k \in (i - 1)..(i - 1) : k < i
    OBVIOUS
  <2>2. F = [k \in (i - 1)..(i - 1) |-> NumberStep(name, i, F, k)]
    BY <2>1 DEF NumberStep
  <2>3. i - 1 + 0 = i - 1
    OBVIOUS
  <2>4. IsNumber(name, i, i - 1 + 0, F)
    BY <2>2, <2>3, Zenon DEF IsNumber
  <2> QED BY <2>4
<1>2. ASSUME NEW m \in T PROVE m + 1 \in T
  <2>1. PICK F : IsNumber(name, i, i - 1 + m, F)
    OBVIOUS
  <2> DEFINE e == i - 1 + m
             G == [k \in (i - 1)..(e + 1) |->
                      IF k = e + 1 THEN NumberStep(name, i, F, k) ELSE F[k]]
  <2>2. e \in Nat /\ e + 1 = i - 1 + (m + 1) /\ i - 1 <= e
    OBVIOUS
  <2>3. F = [k \in (i - 1)..e |-> NumberStep(name, i, F, k)]
    BY <2>1, Zenon DEF IsNumber, e
  <2> HIDE DEF e
  <2>4. ASSUME NEW k \in (i - 1)..(e + 1) PROVE G[k] = NumberStep(name, i, G, k)
    <3>1. CASE k < i
      <4>1. k \in (i - 1)..e /\ k # e + 1
        BY <2>2, <3>1
      <4>2. F[k] = NumberStep(name, i, F, k)
        BY <2>3, <4>1
      <4>3. NumberStep(name, i, F, k) = NumberStep(name, i, G, k)
        BY <3>1 DEF NumberStep
      <4> QED BY <4>1, <4>2, <4>3
    <3>2. CASE ~(k < i)
      <4>1. k - 1 \in (i - 1)..e /\ k - 1 # e + 1 /\ k - 1 \in (i - 1)..(e + 1)
        BY <2>2, <3>2
      <4>2. G[k - 1] = F[k - 1]
        BY <4>1
      <4> HIDE DEF G
      <4>3. NumberStep(name, i, F, k) = NumberStep(name, i, G, k)
        BY <3>2, <4>2 DEF NumberStep
      <4>4. G[k] = NumberStep(name, i, F, k)
        <5>1. CASE k = e + 1
          BY <5>1 DEF G
        <5>2. CASE k # e + 1
          <6>1. k \in (i - 1)..e
            BY <2>2, <5>2
          <6>2. F[k] = NumberStep(name, i, F, k)
            BY <2>3, <6>1
          <6> QED BY <5>2, <6>2 DEF G
        <5> QED BY <5>1, <5>2
      <4> QED BY <4>3, <4>4
    <3> QED BY <3>1, <3>2
  <2>5. G = [k \in (i - 1)..(e + 1) |-> G[k]]
    OBVIOUS
  <2> HIDE DEF G
  <2>6. IsNumber(name, i, e + 1, G)
    BY <2>4, <2>5 DEF IsNumber
  <2> QED BY <2>2, <2>6
<1>3. T = Nat
  <2> HIDE DEF T
  <2>1. T \in SUBSET Nat
    BY DEF T
  <2> QED BY <1>1, <1>2, <2>1, NatSetInduction
<1>4. last - (i - 1) \in Nat /\ i - 1 + (last - (i - 1)) = last
  OBVIOUS
<1> DEFINE steps == last - (i - 1)
<1>5. steps \in T /\ i - 1 + steps = last
  <2> HIDE DEF T
  <2> QED BY <1>3, <1>4
<1> HIDE DEF steps
<1>6. \E F : IsNumber(name, i, i - 1 + steps, F)
  BY <1>5
<1> QED BY <1>5, <1>6, Zenon

LEMMA NumberTyped ==
    ASSUME NEW name, NEW i \in Nat \ {0}, NEW j \in Int, j >= i,
           \A k \in i..(j - 1) : IsDigit(name, k)
    PROVE  Number(name, i, j) \in Nat
<1> DEFINE reading == CHOOSE F : IsNumber(name, i, j - 1, F)
<1>1. IsNumber(name, i, j - 1, reading)
  <2>1. j - 1 \in Int /\ j - 1 >= i - 1
    OBVIOUS
  <2> QED BY <2>1, NumberExists
<1>2. Number(name, i, j) = reading[j - 1]
  BY DEF Number, IsNumber, NumberStep
<1> HIDE DEF reading
<1>3. \A k \in (i - 1)..(j - 1) : reading[k] = NumberStep(name, i, reading, k)
  BY <1>1 DEF IsNumber
<1> DEFINE T == {m \in Nat : i - 1 + m <= j - 1 => reading[i - 1 + m] \in Nat}
<1>4. 0 \in T
  <2>1. i - 1 + 0 = i - 1 /\ i - 1 \in (i - 1)..(j - 1) /\ i - 1 < i
    OBVIOUS
  <2>2. reading[i - 1] = 0
    BY <1>3, <2>1 DEF NumberStep
  <2> QED BY <2>1, <2>2
<1>5. ASSUME NEW m \in T PROVE m + 1 \in T
  <2> SUFFICES ASSUME i - 1 + (m + 1) <= j - 1 PROVE reading[i - 1 + (m + 1)] \in Nat
    OBVIOUS
  <2> DEFINE k == i - 1 + (m + 1)
  <2>1. /\ k \in (i - 1)..(j - 1) /\ ~(k < i) /\ k \in i..(j - 1)
        /\ k - 1 = i - 1 + m /\ i - 1 + m <= j - 1 /\ m \in Nat
    OBVIOUS
  <2> HIDE DEF k
  <2>2. reading[k - 1] \in Nat
    BY <2>1
  <2>3. Digits[name[k]] \in Nat
    <3>1. name[k] \in {"0", "1", "2", "9"}
      BY <2>1 DEF IsDigit, Digits
    <3> QED BY <3>1 DEF Digits
  <2>4. reading[k] = 10 * reading[k - 1] + Digits[name[k]]
    BY <1>3, <2>1 DEF NumberStep
  <2>5. reading[k] \in Nat
    BY <2>2, <2>3, <2>4
  <2> QED BY <2>5 DEF k
<1>6. T = Nat
  <2> HIDE DEF T
  <2>1. T \in SUBSET Nat
    BY DEF T
  <2> QED BY <1>4, <1>5, <2>1, NatSetInduction
<1>7. j - i \in Nat /\ i - 1 + (j - i) = j - 1 /\ j - 1 <= j - 1
  OBVIOUS
<1> DEFINE steps == j - i
<1>8. steps \in T /\ i - 1 + steps = j - 1
  <2> HIDE DEF T
  <2> QED BY <1>6, <1>7
<1> HIDE DEF steps
<1>9. i - 1 + steps <= j - 1 => reading[i - 1 + steps] \in Nat
  BY <1>8
<1> QED BY <1>2, <1>7, <1>8, <1>9

SegmentsStep(name, limit, F, i) ==
    LET j == DigitsEnd(name, i)
        segment == << Number(name, i, j) >>
    IN  IF j = i \/ segment[1] > limit THEN Unversioned
        ELSE IF ~Continues(name, j) THEN segment
        ELSE IF F[j + 1] = Unversioned THEN Unversioned
        ELSE segment \o F[j + 1]

IsSegments(name, limit, lo, F) ==
    F = [i \in lo..(Len(name) + 1) |-> SegmentsStep(name, limit, F, i)]

\* What a step decides, by the number it reads.
LEMMA SegmentsStepped ==
    ASSUME NEW name, IndexedName(name), NEW limit, NEW F, NEW i \in 1..(Len(name) + 1)
    PROVE  LET j == DigitsEnd(name, i)
               x == Number(name, i, j)
               s == SegmentsStep(name, limit, F, i)
           IN  /\ x \in Nat /\ j \in i..(Len(name) + 1)
               /\ j = i \/ x > limit => s = Unversioned
               /\ j # i /\ ~(x > limit) /\ ~Continues(name, j) => s = << x >>
               /\ j # i /\ ~(x > limit) /\ Continues(name, j) =>
                     /\ j + 1 \in (i + 1)..(Len(name) + 1)
                     /\ F[j + 1] = Unversioned => s = Unversioned
                     /\ F[j + 1] # Unversioned => s = << x >> \o F[j + 1]
<1> DEFINE j == DigitsEnd(name, i)
           x == Number(name, i, j)
           s == SegmentsStep(name, limit, F, i)
<1>1. /\ j \in i..(Len(name) + 1) /\ Len(name) \in Nat /\ DOMAIN name = 1..Len(name)
      /\ i \in Nat \ {0} /\ \A k \in i..(j - 1) : IsDigit(name, k)
  BY DigitsEndFound DEF IndexedName
<1> HIDE DEF j
<1>2. j \in Int /\ j >= i
  BY <1>1
<1>3. x \in Nat
  BY <1>1, <1>2, NumberTyped
<1>4. Continues(name, j) => j + 1 \in (i + 1)..(Len(name) + 1)
  <2> SUFFICES ASSUME Continues(name, j) PROVE j + 1 \in (i + 1)..(Len(name) + 1)
    OBVIOUS
  <2>1. j + 1 \in DOMAIN name
    BY DEF Continues, IsDigit
  <2> QED BY <1>1, <2>1
<1> HIDE DEF x
<1>5. << x >>[1] = x
  OBVIOUS
<1>6. s = IF j = i \/ << x >>[1] > limit THEN Unversioned
          ELSE IF ~Continues(name, j) THEN << x >>
          ELSE IF F[j + 1] = Unversioned THEN Unversioned
          ELSE << x >> \o F[j + 1]
  BY Zenon DEF SegmentsStep, s, j, x
<1> HIDE DEF s
<1>7. s = IF j = i \/ x > limit THEN Unversioned
          ELSE IF ~Continues(name, j) THEN << x >>
          ELSE IF F[j + 1] = Unversioned THEN Unversioned
          ELSE << x >> \o F[j + 1]
  BY <1>5, <1>6, Zenon
<1>8. /\ j = i \/ x > limit => s = Unversioned
      /\ j # i /\ ~(x > limit) /\ ~Continues(name, j) => s = << x >>
      /\ j # i /\ ~(x > limit) /\ Continues(name, j) =>
            /\ F[j + 1] = Unversioned => s = Unversioned
            /\ F[j + 1] # Unversioned => s = << x >> \o F[j + 1]
  BY <1>7, Zenon
<1> QED BY <1>1, <1>3, <1>4, <1>8, Zenon DEF s, j, x

\* A step looks at later segments only.
LEMMA SegmentsLocal ==
    ASSUME NEW name, IndexedName(name), NEW limit, NEW F, NEW G, NEW i \in 1..(Len(name) + 1),
           \A k \in (i + 1)..(Len(name) + 1) : F[k] = G[k]
    PROVE  SegmentsStep(name, limit, F, i) = SegmentsStep(name, limit, G, i)
<1> DEFINE j == DigitsEnd(name, i)
           x == Number(name, i, j)
           sF == SegmentsStep(name, limit, F, i)
           sG == SegmentsStep(name, limit, G, i)
<1>1. /\ j = i \/ x > limit => sF = Unversioned
      /\ j # i /\ ~(x > limit) /\ ~Continues(name, j) => sF = << x >>
      /\ j # i /\ ~(x > limit) /\ Continues(name, j) =>
            /\ j + 1 \in (i + 1)..(Len(name) + 1)
            /\ F[j + 1] = Unversioned => sF = Unversioned
            /\ F[j + 1] # Unversioned => sF = << x >> \o F[j + 1]
  BY SegmentsStepped
<1>2. /\ j = i \/ x > limit => sG = Unversioned
      /\ j # i /\ ~(x > limit) /\ ~Continues(name, j) => sG = << x >>
      /\ j # i /\ ~(x > limit) /\ Continues(name, j) =>
            /\ j + 1 \in (i + 1)..(Len(name) + 1)
            /\ G[j + 1] = Unversioned => sG = Unversioned
            /\ G[j + 1] # Unversioned => sG = << x >> \o G[j + 1]
  BY SegmentsStepped
<1> HIDE DEF j, x, sF, sG
<1>3. j + 1 \in (i + 1)..(Len(name) + 1) => F[j + 1] = G[j + 1]
  OBVIOUS
<1>4. sF = sG
  BY <1>1, <1>2, <1>3, Zenon
<1> QED BY <1>4 DEF sF, sG

LEMMA SegmentsExist ==
    ASSUME NEW name, IndexedName(name), NEW limit
    PROVE  \E F : IsSegments(name, limit, 1, F)
<1> DEFINE n == Len(name)
           T == {m \in Nat : m <= n => \E F : IsSegments(name, limit, n + 1 - m, F)}
<1>1. n \in Nat
  BY DEF IndexedName
<1>2. 0 \in T
  <2> DEFINE none == [i \in (n + 1)..(n + 1) |-> Unversioned]
  <2>1. n + 1 \in 1..(n + 1) /\ (n + 1)..(n + 1) = {n + 1} /\ n + 1 - 0 = n + 1
    BY <1>1
  <2>2. DigitsEnd(name, n + 1) \in (n + 1)..(n + 1)
    BY <2>1, DigitsEndFound
  <2>3. SegmentsStep(name, limit, none, n + 1) = Unversioned
    <3>1. DigitsEnd(name, n + 1) = n + 1
      BY <2>1, <2>2
    <3> HIDE DEF none
    <3> QED BY <2>1, <3>1, SegmentsStepped
  <2>4. \A i \in (n + 1)..(n + 1) : none[i] = SegmentsStep(name, limit, none, i)
    <3>1. none[n + 1] = Unversioned
      BY <2>1
    <3> HIDE DEF none
    <3> QED BY <2>1, <2>3, <3>1
  <2>5. none = [i \in (n + 1)..(n + 1) |-> none[i]]
    OBVIOUS
  <2> HIDE DEF none
  <2>6. IsSegments(name, limit, n + 1, none)
    BY <2>4, <2>5 DEF IsSegments
  <2> QED BY <2>1, <2>6
<1>3. ASSUME NEW m \in T PROVE m + 1 \in T
  <2> SUFFICES ASSUME m + 1 <= n
               PROVE  \E F : IsSegments(name, limit, n + 1 - (m + 1), F)
    OBVIOUS
  <2> DEFINE lo == n + 1 - m
  <2>1. m \in Nat /\ m <= n /\ lo \in 2..(n + 1) /\ n + 1 - (m + 1) = lo - 1
    BY <1>1
  <2>2. PICK F : IsSegments(name, limit, lo, F)
    BY <2>1
  <2>3. \A i \in lo..(n + 1) : F[i] = SegmentsStep(name, limit, F, i)
    BY <2>2 DEF IsSegments
  <2> DEFINE G == [i \in (lo - 1)..(n + 1) |->
                      IF i = lo - 1 THEN SegmentsStep(name, limit, F, i) ELSE F[i]]
  <2> HIDE DEF lo, n
  <2>4. \A k \in lo..(n + 1) : F[k] = G[k]
    BY <1>1, <2>1
  <2>5. ASSUME NEW i \in (lo - 1)..(n + 1) PROVE G[i] = SegmentsStep(name, limit, G, i)
    <3>1. G[i] = SegmentsStep(name, limit, F, i)
      <4>1. CASE i = lo - 1
        BY <4>1
      <4>2. CASE i # lo - 1
        <5>1. i \in lo..(n + 1)
          BY <1>1, <2>1, <4>2
        <5> QED BY <2>3, <4>2, <5>1
      <4> QED BY <4>1, <4>2
    <3> HIDE DEF G
    <3>2. i \in 1..(n + 1) /\ \A k \in (i + 1)..(n + 1) : k \in lo..(n + 1)
      BY <1>1, <2>1
    <3>3. \A k \in (i + 1)..(n + 1) : F[k] = G[k]
      BY <2>4, <3>2
    <3>4. SegmentsStep(name, limit, F, i) = SegmentsStep(name, limit, G, i)
      BY <3>2, <3>3, SegmentsLocal DEF n
    <3> QED BY <3>1, <3>4
  <2>6. G = [i \in (lo - 1)..(n + 1) |-> G[i]]
    OBVIOUS
  <2> HIDE DEF G
  <2>7. G = [i \in (lo - 1)..(n + 1) |-> SegmentsStep(name, limit, G, i)]
    BY <2>5, <2>6
  <2>8. IsSegments(name, limit, lo - 1, G)
    BY <2>7 DEF IsSegments, n
  <2> QED BY <2>1, <2>8
<1>4. T = Nat
  <2> HIDE DEF T
  <2>1. T \in SUBSET Nat
    BY DEF T
  <2> QED BY <1>2, <1>3, <2>1, NatSetInduction
<1>5. n \in T /\ n <= n /\ n + 1 - n = 1
  <2> HIDE DEF T
  <2> QED BY <1>1, <1>4
<1> HIDE DEF n
<1>6. \E F : IsSegments(name, limit, n + 1 - n, F)
  BY <1>5
<1> QED BY <1>5, <1>6

FirstSegment(name) == IF name # << >> /\ name[1] \in Prefixes THEN 2 ELSE 1

SegmentsFrom(name, limit) == CHOOSE F : IsSegments(name, limit, 1, F)

LEMMA SegmentsFound ==
    ASSUME NEW name, IndexedName(name), NEW limit
    PROVE  /\ SegmentsUpTo(name, limit) = SegmentsFrom(name, limit)[FirstSegment(name)]
           /\ \A i \in 1..(Len(name) + 1) :
                 SegmentsFrom(name, limit)[i] =
                    SegmentsStep(name, limit, SegmentsFrom(name, limit), i)
<1> DEFINE reading == SegmentsFrom(name, limit)
<1>1. IsSegments(name, limit, 1, reading)
  BY SegmentsExist DEF SegmentsFrom
<1>2. SegmentsUpTo(name, limit) = reading[FirstSegment(name)]
  BY DEF SegmentsUpTo, SegmentsFrom, IsSegments, SegmentsStep, FirstSegment
<1> HIDE DEF reading
<1>3. \A i \in 1..(Len(name) + 1) : reading[i] = SegmentsStep(name, limit, reading, i)
  BY <1>1 DEF IsSegments
<1> QED BY <1>2, <1>3 DEF reading

\* No segment is over the limit.
Within(version, limit) == \A k \in DOMAIN version : version[k] <= limit

LEMMA WithinJoined ==
    ASSUME NEW x \in Nat, NEW version \in Seq(Nat), NEW limit \in Nat
    PROVE  /\ << x >> \o version \in Seq(Nat)
           /\ << x >> \o version # Unversioned
           /\ Within(<< x >> \o version, limit) <=> x <= limit /\ Within(version, limit)
<1> DEFINE whole == << x >> \o version
           n == Len(version)
<1>1. /\ n \in Nat /\ DOMAIN version = 1..n
      /\ whole \in Seq(Nat) /\ DOMAIN whole = 1..(n + 1) /\ whole[1] = x
      /\ \A k \in 1..n : whole[k + 1] = version[k]
  OBVIOUS
<1> HIDE DEF whole, n
<1>2. whole # Unversioned
  <2>1. 1 \in DOMAIN whole
    BY <1>1
  <2>2. DOMAIN Unversioned = {}
    BY DEF Unversioned
  <2> QED BY <2>1, <2>2
<1>3. ASSUME Within(whole, limit) PROVE x <= limit /\ Within(version, limit)
  <2>1. x <= limit
    <3>1. 1 \in DOMAIN whole
      BY <1>1
    <3> QED BY <1>1, <1>3, <3>1 DEF Within
  <2>2. ASSUME NEW k \in 1..n PROVE version[k] <= limit
    <3>1. k + 1 \in 1..(n + 1)
      BY <1>1
    <3>2. whole[k + 1] <= limit
      BY <1>1, <1>3, <3>1 DEF Within
    <3> QED BY <1>1, <3>2
  <2> QED BY <1>1, <2>1, <2>2 DEF Within
<1>4. ASSUME x <= limit, Within(version, limit) PROVE Within(whole, limit)
  <2>1. ASSUME NEW k \in 1..(n + 1) PROVE whole[k] <= limit
    <3>1. CASE k = 1
      BY <1>1, <1>4, <3>1
    <3>2. CASE k # 1
      <4>1. k - 1 \in 1..n /\ k = (k - 1) + 1
        BY <1>1, <3>2
      <4>2. whole[(k - 1) + 1] = version[k - 1] /\ version[k - 1] <= limit
        BY <1>1, <1>4, <4>1 DEF Within
      <4> QED BY <4>1, <4>2
    <3> QED BY <3>1, <3>2
  <2> QED BY <1>1, <2>1 DEF Within
<1> QED BY <1>1, <1>2, <1>3, <1>4 DEF whole

LEMMA WithinOne ==
    ASSUME NEW x \in Nat, NEW limit \in Nat
    PROVE  /\ << x >> \in Seq(Nat) /\ << x >> # Unversioned
           /\ Within(<< x >>, limit) <=> x <= limit
<1> DEFINE one == << x >>
<1>1. one \in Seq(Nat) /\ DOMAIN one = {1} /\ one[1] = x
  OBVIOUS
<1>2. one # Unversioned
  BY DEF Unversioned
<1> HIDE DEF one
<1>3. Within(one, limit) <=> x <= limit
  BY <1>1 DEF Within
<1> QED BY <1>1, <1>2, <1>3 DEF one

\* A version read under the lower limit is the one read under the higher, or none.
LimitedAlike(lower, version, limited) ==
    /\ version \in Seq(Nat)
    /\ limited = IF Within(version, lower) THEN version ELSE Unversioned

LEMMA StepsAlike ==
    ASSUME NEW name, IndexedName(name), NEW lower \in Nat, NEW upper \in Nat, lower <= upper,
           NEW F, NEW G, NEW i \in 1..(Len(name) + 1),
           \A k \in (i + 1)..(Len(name) + 1) : LimitedAlike(lower, F[k], G[k])
    PROVE  LimitedAlike(lower, SegmentsStep(name, upper, F, i),
                               SegmentsStep(name, lower, G, i))
<1> DEFINE j == DigitsEnd(name, i)
           x == Number(name, i, j)
           s == SegmentsStep(name, upper, F, i)
           t == SegmentsStep(name, lower, G, i)
<1>1. /\ x \in Nat
      /\ j = i \/ x > upper => s = Unversioned
      /\ j # i /\ ~(x > upper) /\ ~Continues(name, j) => s = << x >>
      /\ j # i /\ ~(x > upper) /\ Continues(name, j) =>
            /\ j + 1 \in (i + 1)..(Len(name) + 1)
            /\ F[j + 1] = Unversioned => s = Unversioned
            /\ F[j + 1] # Unversioned => s = << x >> \o F[j + 1]
  BY SegmentsStepped
<1>2. /\ j = i \/ x > lower => t = Unversioned
      /\ j # i /\ ~(x > lower) /\ ~Continues(name, j) => t = << x >>
      /\ j # i /\ ~(x > lower) /\ Continues(name, j) =>
            /\ j + 1 \in (i + 1)..(Len(name) + 1)
            /\ G[j + 1] = Unversioned => t = Unversioned
            /\ G[j + 1] # Unversioned => t = << x >> \o G[j + 1]
  BY SegmentsStepped
<1> HIDE DEF j, x, s, t
<1>3. Unversioned \in Seq(Nat) /\ Within(Unversioned, lower)
  BY DEF Unversioned, Within
<1>4. x > upper => x > lower
  BY <1>1
<1>5. x > lower <=> ~(x <= lower)
  BY <1>1
<1>6. CASE j = i \/ x > upper
  <2>1. s = Unversioned /\ t = Unversioned
    BY <1>1, <1>2, <1>4, <1>6, Zenon
  <2> QED BY <1>3, <2>1, Zenon DEF LimitedAlike, s, t
<1>7. CASE j # i /\ ~(x > upper) /\ ~Continues(name, j)
  <2>1. s = << x >> /\ t = IF x <= lower THEN << x >> ELSE Unversioned
    BY <1>1, <1>2, <1>5, <1>7, Zenon
  <2>2. << x >> \in Seq(Nat) /\ (Within(<< x >>, lower) <=> x <= lower)
    BY <1>1, WithinOne
  <2>3. LimitedAlike(lower, s, t)
    BY <2>1, <2>2, Zenon DEF LimitedAlike
  <2> QED BY <2>3, Zenon DEF s, t
<1>8. CASE j # i /\ ~(x > upper) /\ Continues(name, j)
  <2> DEFINE f == F[j + 1]
             g == G[j + 1]
  <2>1. LimitedAlike(lower, f, g)
    BY <1>1, <1>8
  <2>2. /\ f = Unversioned => s = Unversioned
        /\ f # Unversioned => s = << x >> \o f
    BY <1>1, <1>8, Zenon
  <2>3. ~(x > lower) =>
           /\ g = Unversioned => t = Unversioned
           /\ g # Unversioned => t = << x >> \o g
    BY <1>2, <1>8, Zenon
  <2>4. x > lower => t = Unversioned
    BY <1>2
  <2> HIDE DEF f, g
  <2>5. f \in Seq(Nat) /\ g = IF Within(f, lower) THEN f ELSE Unversioned
    BY <2>1, Zenon DEF LimitedAlike
  <2>6. /\ << x >> \o f \in Seq(Nat) /\ << x >> \o f # Unversioned
        /\ Within(<< x >> \o f, lower) <=> x <= lower /\ Within(f, lower)
    BY <1>1, <2>5, WithinJoined
  <2>7. LimitedAlike(lower, s, t)
    <3>1. CASE f = Unversioned
      <4>1. s = Unversioned /\ g = Unversioned
        BY <2>2, <2>5, <3>1, Zenon
      <4>2. t = Unversioned
        BY <2>3, <2>4, <4>1, Zenon
      <4> QED BY <1>3, <4>1, <4>2, Zenon DEF LimitedAlike
    <3>2. CASE f # Unversioned /\ Within(f, lower)
      BY <1>5, <2>2, <2>3, <2>4, <2>5, <2>6, <3>2, Zenon DEF LimitedAlike
    <3>3. CASE f # Unversioned /\ ~Within(f, lower)
      BY <1>5, <2>2, <2>3, <2>4, <2>5, <2>6, <3>3, Zenon DEF LimitedAlike
    <3> QED BY <3>1, <3>2, <3>3
  <2> QED BY <2>7, Zenon DEF s, t
<1> QED BY <1>6, <1>7, <1>8, Zenon

LEMMA VersionsAlike ==
    ASSUME NEW name, IndexedName(name), NEW lower \in Nat, NEW upper \in Nat, lower <= upper
    PROVE  LimitedAlike(lower, SegmentsUpTo(name, upper), SegmentsUpTo(name, lower))
<1> DEFINE n == Len(name)
           F == SegmentsFrom(name, upper)
           G == SegmentsFrom(name, lower)
           Alike(i) == LimitedAlike(lower, F[i], G[i])
           T == {m \in Nat : m <= n => \A i \in (n + 1 - m)..(n + 1) : Alike(i)}
<1>1. n \in Nat /\ DOMAIN name = 1..n
  BY DEF IndexedName
<1>2. ASSUME NEW i \in 1..(n + 1), \A k \in (i + 1)..(n + 1) : Alike(k)
      PROVE  Alike(i)
  <2>1. F[i] = SegmentsStep(name, upper, F, i) /\ G[i] = SegmentsStep(name, lower, G, i)
    BY SegmentsFound
  <2> HIDE DEF F, G
  <2>2. LimitedAlike(lower, SegmentsStep(name, upper, F, i), SegmentsStep(name, lower, G, i))
    BY <1>2, StepsAlike
  <2> QED BY <2>1, <2>2, Zenon
<1> HIDE DEF Alike
<1>3. 0 \in T
  <2>1. \A i \in (n + 1 - 0)..(n + 1) : i \in 1..(n + 1) /\ (i + 1)..(n + 1) = {}
    BY <1>1
  <2>2. \A i \in (n + 1 - 0)..(n + 1) : Alike(i)
    BY <1>2, <2>1
  <2> QED BY <2>2
<1>4. ASSUME NEW m \in T PROVE m + 1 \in T
  <2> SUFFICES ASSUME m + 1 <= n PROVE \A i \in (n + 1 - (m + 1))..(n + 1) : Alike(i)
    OBVIOUS
  <2> DEFINE lo == n + 1 - m
  <2>1. m \in Nat /\ m <= n /\ lo \in 2..(n + 1) /\ n + 1 - (m + 1) = lo - 1
    BY <1>1
  <2>2. \A i \in lo..(n + 1) : Alike(i)
    BY <2>1
  <2> HIDE DEF lo, n
  <2>3. lo - 1 \in 1..(n + 1) /\ (lo - 1) + 1 = lo
        /\ \A i \in (lo - 1)..(n + 1) : i = lo - 1 \/ i \in lo..(n + 1)
    BY <1>1, <2>1
  <2>4. Alike(lo - 1)
    BY <1>2, <2>2, <2>3
  <2>5. \A i \in (lo - 1)..(n + 1) : Alike(i)
    BY <2>2, <2>3, <2>4
  <2> QED BY <2>1, <2>5
<1>5. T = Nat
  <2> HIDE DEF T
  <2>1. T \in SUBSET Nat
    BY DEF T
  <2> QED BY <1>3, <1>4, <2>1, NatSetInduction
<1>6. n \in T /\ n <= n /\ n + 1 - n = 1
  <2> HIDE DEF T
  <2> QED BY <1>1, <1>5
<1>7. \A i \in 1..(n + 1) : Alike(i)
  <2>1. \A i \in (n + 1 - n)..(n + 1) : Alike(i)
    BY <1>6
  <2> QED BY <1>6, <2>1
<1>8. FirstSegment(name) \in 1..(n + 1)
  <2>1. CASE name # << >> /\ name[1] \in Prefixes
    <3>1. n # 0
      BY <2>1 DEF IndexedName
    <3> QED BY <1>1, <2>1, <3>1 DEF FirstSegment
  <2>2. CASE ~(name # << >> /\ name[1] \in Prefixes)
    BY <1>1, <2>2 DEF FirstSegment
  <2> QED BY <2>1, <2>2
<1>9. Alike(FirstSegment(name))
  BY <1>7, <1>8
<1> QED BY <1>9, SegmentsFound DEF Alike

\* "Unversioned names sort after all versioned ones" (version.rs:2), and of two versions
\* the smaller comes first: whatever the names and whatever number is the largest
\* that fits.
THEOREM VersionsAlwaysInOrder ==
    ASSUME NamesSpelled, LimitKnown
    PROVE  InputsSpec => []VersionsInOrder
<1> DEFINE va == ParseVersion(a)
           vb == ParseVersion(b)
           ua == Version(a)
           ub == Version(b)
           order == LexOrder(va, vb)
           text == TextOrder(a, b)
<1>1. ASSUME NEW name, IsText(name)
      PROVE  /\ Version(name) \in Seq(Nat)
             /\ ParseVersion(name) = IF Fits(name) THEN Version(name) ELSE Unversioned
  <2>1. IndexedName(name)
    BY <1>1, TextIndexed
  <2>2. MaxSegment \in Nat /\ Unlimited \in Nat /\ MaxSegment <= Unlimited
    <3> HIDE DEF Unlimited
    <3> QED BY DEF LimitKnown
  <2>3. LimitedAlike(MaxSegment, SegmentsUpTo(name, Unlimited), SegmentsUpTo(name, MaxSegment))
    <3> HIDE DEF Unlimited
    <3> QED BY <2>1, <2>2, VersionsAlike
  <2> QED BY <2>3, Zenon DEF LimitedAlike, Within, Version, ParseVersion, Fits
<1>2. NamesTyped => VersionsInOrder
  <2> SUFFICES ASSUME NamesTyped PROVE VersionsInOrder
    OBVIOUS
  <2>1. /\ ua \in Seq(Nat) /\ va = IF Fits(a) THEN ua ELSE Unversioned
        /\ ub \in Seq(Nat) /\ vb = IF Fits(b) THEN ub ELSE Unversioned
    BY <1>1, Zenon DEF NamesTyped
  <2>2. Compare(a, b) = IF va # Unversioned /\ vb # Unversioned THEN ThenWith(order, text)
                        ELSE IF va # Unversioned THEN -1
                        ELSE IF vb # Unversioned THEN 1
                        ELSE text
    BY CompareBy
  <2>3. VersionsInOrder <=>
            /\ ua # Unversioned /\ Fits(a) /\ ub # Unversioned /\ Fits(b) /\ ua # ub
               => Compare(a, b) = LexOrder(ua, ub)
            /\ ua # Unversioned /\ Fits(a) /\ ~(ub # Unversioned /\ Fits(b))
               => Compare(a, b) = -1
    BY Zenon DEF VersionsInOrder
  <2>4. LexOrder(ua, ub) = 0 <=> ua = ub
    <3> HIDE DEF ua, ub
    <3> QED BY <2>1, LexEqual
  <2> HIDE DEF va, vb, ua, ub, text
  <2>5. ASSUME ua # Unversioned, Fits(a), ub # Unversioned, Fits(b), ua # ub
        PROVE  Compare(a, b) = LexOrder(ua, ub)
    <3>1. va = ua /\ vb = ub
      BY <2>1, <2>5, Zenon
    <3>2. Compare(a, b) = ThenWith(LexOrder(ua, ub), text)
      BY <2>2, <2>5, <3>1, Zenon
    <3> QED BY <2>4, <2>5, <3>2, Zenon DEF ThenWith
  <2>6. ASSUME ua # Unversioned, Fits(a), ~(ub # Unversioned /\ Fits(b))
        PROVE  Compare(a, b) = -1
    <3>1. va = ua /\ vb = Unversioned
      BY <2>1, <2>6, Zenon
    <3> QED BY <2>2, <2>6, <3>1, Zenon
  <2> QED BY <2>3, <2>5, <2>6, Zenon
<1>3. InputsSpec => []NamesTyped
  BY NamesAlwaysTyped
<1> QED BY <1>2, <1>3, PTL

-----------------------------------------------------------------------------
(* The suggested statement: a name that is quoted is read back as it was,   *)
(* and what is printed declares the table with the columns it has.           *)

Quote == Statement!Quote

\* A text that may stand in quotes.
Quotable(txt) == txt \in Seq(Elements(txt)) /\ txt # << >>

Doubling(c) == IF c = Quote THEN << Quote, Quote >> ELSE << c >>

LEMMA DoublingFacts ==
    ASSUME NEW c
    PROVE  /\ Doubling(c) \in Seq({c, Quote})
           /\ Len(Doubling(c)) = IF c = Quote THEN 2 ELSE 1
           /\ Doubling(c)[Len(Doubling(c))] = c
           /\ c = Quote => Doubling(c)[1] = Quote
<1>1. CASE c = Quote
  <2> DEFINE two == << Quote, Quote >>
  <2>1. two \in Seq({c, Quote}) /\ Len(two) = 2 /\ two[1] = Quote /\ two[2] = Quote
    OBVIOUS
  <2>2. Doubling(c) = two
    BY <1>1 DEF Doubling
  <2> HIDE DEF two
  <2> QED BY <1>1, <2>1, <2>2
<1>2. CASE c # Quote
  <2> DEFINE one == << c >>
  <2>1. one \in Seq({c, Quote}) /\ Len(one) = 1 /\ one[1] = c
    OBVIOUS
  <2>2. Doubling(c) = one
    BY <1>2 DEF Doubling
  <2> HIDE DEF one
  <2> QED BY <1>2, <2>1, <2>2
<1> QED BY <1>1, <1>2

\* The text with its quotes doubled, up to each of its characters.
IsDoubled(txt, F) ==
    F = [n \in 0..Len(txt) |-> IF n = 0 THEN << >> ELSE F[n - 1] \o Doubling(txt[n])]

DoubledOf(txt) == CHOOSE F : IsDoubled(txt, F)

LEMMA QuotedIs ==
    ASSUME NEW txt
    PROVE  Statement!Quoted(txt) = << Quote >> \o DoubledOf(txt)[Len(txt)] \o << Quote >>
BY DEF Statement!Quoted, DoubledOf, IsDoubled, Doubling, Quote

LEMMA DoubledExists ==
    ASSUME NEW txt, Quotable(txt)
    PROVE  LET F == DoubledOf(txt)
               S == Elements(txt) \cup {Quote}
           IN  /\ F[0] = << >>
               /\ \A n \in 1..Len(txt) : F[n] = F[n - 1] \o Doubling(txt[n])
               /\ \A n \in 0..Len(txt) : F[n] \in Seq(S)
<1> DEFINE S == Elements(txt) \cup {Quote}
           m == Len(txt)
           step == [p \in (1..m) \X Seq(S) |-> p[2] \o Doubling(txt[p[1]])]
<1>1. txt \in Seq(Elements(txt))
  BY DEF Quotable
<1>2. m \in Nat /\ \A n \in 1..m : txt[n] \in S
  BY <1>1
<1>3. \A n \in 1..m : Doubling(txt[n]) \in Seq(S)
  <2> TAKE n \in 1..m
  <2>1. txt[n] \in S /\ Quote \in S
    BY <1>2
  <2> HIDE DEF S
  <2> QED BY <2>1 DEF Doubling
<1> HIDE DEF S, m
<1>4. step \in [(1..m) \X Seq(S) -> Seq(S)]
  <2>1. \A left, right \in Seq(S) : left \o right \in Seq(S)
    BY ConcatFacts
  <2> QED BY <1>3, <2>1
<1>5. << >> \in Seq(S)
  OBVIOUS
<1> HIDE DEF step
<1>6. PICK F : IsLoop(F, m, Seq(S), << >>, step)
  BY <1>2, <1>4, <1>5, LoopExists
<1>7. \A n \in 1..m : F[n] = F[n - 1] \o Doubling(txt[n])
  <2> TAKE n \in 1..m
  <2>1. F[n] = step[<< n, F[n - 1] >>] /\ n - 1 \in 0..m /\ F[n - 1] \in Seq(S)
    BY <1>2, <1>6 DEF IsLoop
  <2> QED BY <2>1 DEF step
<1>8. IsDoubled(txt, F)
  <2>1. F = [n \in 0..m |-> F[n]]
    BY <1>6 DEF IsLoop
  <2>2. \A n \in 0..m : F[n] = IF n = 0 THEN << >> ELSE F[n - 1] \o Doubling(txt[n])
    <3> TAKE n \in 0..m
    <3>1. n = 0 \/ n \in 1..m
      BY <1>2
    <3> QED BY <3>1, <1>6, <1>7 DEF IsLoop
  <2> QED BY <2>1, <2>2 DEF IsDoubled, m
<1> DEFINE G == DoubledOf(txt)
<1>9. IsDoubled(txt, G)
  BY <1>8 DEF DoubledOf
<1> HIDE DEF G
<1>10. G[0] = << >> /\ \A n \in 1..m : G[n] = G[n - 1] \o Doubling(txt[n])
  <2>1. \A n \in 0..m : G[n] = IF n = 0 THEN << >> ELSE G[n - 1] \o Doubling(txt[n])
    BY <1>9 DEF IsDoubled, m
  <2>2. 0 \in 0..m /\ \A n \in 1..m : n \in 0..m /\ n # 0
    BY <1>2
  <2> QED BY <2>1, <2>2
<1>11. \A n \in 0..m : G[n] \in Seq(S)
  <2> DEFINE T == {n \in Nat : n <= m => G[n] \in Seq(S)}
  <2>1. 0 \in T
    BY <1>5, <1>10
  <2>2. ASSUME NEW n \in T PROVE n + 1 \in T
    <3> SUFFICES ASSUME n + 1 <= m PROVE G[n + 1] \in Seq(S)
      OBVIOUS
    <3>1. n + 1 \in 1..m /\ (n + 1) - 1 = n /\ G[n] \in Seq(S)
      BY <1>2
    <3>2. G[n + 1] = G[n] \o Doubling(txt[n + 1])
      BY <1>10, <3>1
    <3> QED BY <1>3, <3>1, <3>2, ConcatFacts
  <2>3. T = Nat
    <3> HIDE DEF T
    <3>1. T \in SUBSET Nat
      BY DEF T
    <3> QED BY <2>1, <2>2, <3>1, NatSetInduction
  <2> QED BY <1>2, <2>3
<1> QED BY <1>10, <1>11 DEF G, S, m

\* Where, in the text with its quotes doubled, each of its characters ends.
Ends(txt, n) == Len(DoubledOf(txt)[n])

LEMMA DoubledPlaces ==
    ASSUME NEW txt, Quotable(txt), NEW n \in 0..Len(txt)
    PROVE  /\ Ends(txt, 0) = 0 /\ Ends(txt, n) \in Nat
           /\ n > 0 => Ends(txt, n) = Ends(txt, n - 1) + (IF txt[n] = Quote THEN 2 ELSE 1)
           /\ \A k \in 1..n :
                 /\ Ends(txt, k) \in 1..Ends(txt, n)
                 /\ DoubledOf(txt)[n][Ends(txt, k)] = txt[k]
                 /\ txt[k] = Quote => /\ Ends(txt, k) - 1 \in 1..Ends(txt, n)
                                      /\ DoubledOf(txt)[n][Ends(txt, k) - 1] = Quote
<1> DEFINE F == DoubledOf(txt)
           S == Elements(txt) \cup {Quote}
           m == Len(txt)
           E(k) == Ends(txt, k)
           Placed(j, k) ==
               /\ E(k) \in 1..E(j)
               /\ F[j][E(k)] = txt[k]
               /\ txt[k] = Quote => E(k) - 1 \in 1..E(j) /\ F[j][E(k) - 1] = Quote
           T == {j \in Nat : j <= m => \A k \in 1..j : Placed(j, k)}
<1>1. m \in Nat
  BY DEF Quotable
<1>2. /\ F[0] = << >>
      /\ \A j \in 1..m : F[j] = F[j - 1] \o Doubling(txt[j])
      /\ \A j \in 0..m : F[j] \in Seq(S)
  BY DoubledExists
<1>3. \A j \in 0..m : E(j) = Len(F[j])
  BY DEF Ends
<1> HIDE DEF F, S, m
<1>4. E(0) = 0 /\ \A j \in 0..m : E(j) \in Nat
  <2>1. 0 \in 0..m /\ Len(<< >>) = 0
    BY <1>1
  <2>2. \A s \in Seq(S) : Len(s) \in Nat
    OBVIOUS
  <2> HIDE DEF E
  <2> QED BY <1>2, <1>3, <2>1, <2>2
<1>5. ASSUME NEW j \in 1..m
      PROVE  LET w == IF txt[j] = Quote THEN 2 ELSE 1
             IN  /\ E(j) = E(j - 1) + w
                 /\ \A p \in 1..E(j - 1) : F[j][p] = F[j - 1][p]
                 /\ F[j][E(j)] = txt[j]
                 /\ txt[j] = Quote => F[j][E(j) - 1] = Quote
  <2> DEFINE d == Doubling(txt[j])
             left == F[j - 1]
             w == IF txt[j] = Quote THEN 2 ELSE 1
  <2>1. j - 1 \in 0..m /\ j \in 0..m
    BY <1>1
  <2>2. /\ d \in Seq({txt[j], Quote}) /\ Len(d) = w /\ d[Len(d)] = txt[j]
        /\ txt[j] = Quote => d[1] = Quote
    BY DoublingFacts
  <2> DEFINE R == S \cup {txt[j], Quote}
  <2>3. left \in Seq(R) /\ d \in Seq(R) /\ F[j] = left \o d /\ E(j) = Len(F[j]) /\ E(j - 1) = Len(left)
    <3>1. left \in Seq(S)
      BY <1>2, <2>1
    <3>2. \A s \in Seq(S) : s \in Seq(R)
      OBVIOUS
    <3>3. \A s \in Seq({txt[j], Quote}) : s \in Seq(R)
      OBVIOUS
    <3>4. d \in Seq(R)
      <4> HIDE DEF d, R
      <4> QED BY <2>2, <3>3
    <3>5. left \in Seq(R)
      <4> HIDE DEF left, R
      <4> QED BY <3>1, <3>2
    <3>6. F[j] = left \o d
      BY <1>2
    <3> QED BY <1>3, <2>1, <3>4, <3>5, <3>6, Zenon
  <2> HIDE DEF d, left, R, E
  <2>4. /\ Len(F[j]) = Len(left) + Len(d)
        /\ \A p \in 1..(Len(left) + Len(d)) :
               F[j][p] = IF p <= Len(left) THEN left[p] ELSE d[p - Len(left)]
    BY <2>3, ConcatFacts
  <2>5. w \in {1, 2} /\ E(j - 1) \in Nat
    BY <1>4, <2>1
  <2>6. E(j) = E(j - 1) + w /\ \A p \in 1..E(j - 1) : F[j][p] = left[p]
    BY <2>2, <2>3, <2>4, <2>5
  <2>7. F[j][E(j)] = txt[j]
    <3>1. E(j) \in 1..(Len(left) + Len(d)) /\ ~(E(j) <= Len(left)) /\ E(j) - Len(left) = Len(d)
      BY <2>2, <2>3, <2>5, <2>6
    <3> QED BY <2>2, <2>4, <3>1
  <2>8. ASSUME txt[j] = Quote PROVE F[j][E(j) - 1] = Quote
    <3>1. w = 2
      BY <2>8
    <3>2. E(j) - 1 \in 1..(Len(left) + Len(d)) /\ ~(E(j) - 1 <= Len(left)) /\ E(j) - 1 - Len(left) = 1
      <4>1. Len(d) = 2 /\ E(j) = Len(left) + 2
        BY <2>2, <2>3, <2>6, <3>1
      <4>2. Len(left) \in Nat
        BY <2>3, <2>5
      <4> HIDE DEF w
      <4> QED BY <4>1, <4>2
    <3> QED BY <2>2, <2>4, <2>8, <3>2
  <2> QED BY <2>6, <2>7, <2>8 DEF left
<1> HIDE DEF E
<1>6. 0 \in T
  OBVIOUS
<1>7. ASSUME NEW j \in T PROVE j + 1 \in T
  <2> SUFFICES ASSUME j + 1 <= m, NEW k \in 1..(j + 1) PROVE Placed(j + 1, k)
    OBVIOUS
  <2>1. j + 1 \in 1..m /\ (j + 1) - 1 = j /\ j \in 0..m /\ j + 1 \in 0..m
    BY <1>1
  <2> DEFINE w == IF txt[j + 1] = Quote THEN 2 ELSE 1
  <2>2. /\ E(j + 1) = E(j) + w
        /\ \A p \in 1..E(j) : F[j + 1][p] = F[j][p]
        /\ F[j + 1][E(j + 1)] = txt[j + 1]
        /\ txt[j + 1] = Quote => F[j + 1][E(j + 1) - 1] = Quote
    BY <1>5, <2>1
  <2>3. w \in {1, 2} /\ E(j) \in Nat /\ E(j + 1) \in Nat /\ (txt[j + 1] = Quote => w = 2)
    BY <1>4, <2>1
  <2>4. CASE k = j + 1
    <3>1. E(j + 1) \in 1..E(j + 1) /\ (txt[j + 1] = Quote => E(j + 1) - 1 \in 1..E(j + 1))
      <4> HIDE DEF w
      <4> QED BY <2>2, <2>3
    <3> QED BY <2>2, <2>4, <3>1
  <2>5. CASE k # j + 1
    <3>1. k \in 1..j
      BY <2>1, <2>5
    <3>2. Placed(j, k)
      BY <2>1, <3>1
    <3>3. \A p \in 1..E(j) : p \in 1..E(j + 1)
      <4> HIDE DEF w
      <4> QED BY <2>2, <2>3
    <3> QED BY <2>2, <3>2, <3>3
  <2> QED BY <2>4, <2>5
<1>8. T = Nat
  <2> HIDE DEF T
  <2>1. T \in SUBSET Nat
    BY DEF T
  <2> QED BY <1>6, <1>7, <2>1, NatSetInduction
<1>9. \A k \in 1..n : Placed(n, k)
  <2>1. n \in Nat /\ n <= m
    BY <1>1 DEF m
  <2> HIDE DEF Placed
  <2> QED BY <1>8, <2>1
<1>10. n > 0 => E(n) = E(n - 1) + (IF txt[n] = Quote THEN 2 ELSE 1)
  <2>1. n > 0 => n \in 1..m
    BY <1>1 DEF m
  <2> QED BY <1>5, <2>1
<1>11. E(n) \in Nat
  BY <1>4 DEF m
<1> QED BY <1>4, <1>9, <1>10, <1>11 DEF E, F

\* The second quotes of pairs, up to a position.
SkipsStep(inner, F, n) ==
    IF n = 0 THEN {}
    ELSE IF inner[n] = Quote /\ n > 1 /\ inner[n - 1] = Quote /\ n - 1 \notin F[n - 1]
    THEN F[n - 1] \cup {n} ELSE F[n - 1]

IsSkips(inner, F) == F = [n \in 0..Len(inner) |-> SkipsStep(inner, F, n)]

SkipsOf(inner) == CHOOSE F : IsSkips(inner, F)

UnskippedStep(inner, skipped, F, n) ==
    IF n = 0 THEN << >>
    ELSE IF n \in skipped THEN F[n - 1] ELSE Append(F[n - 1], inner[n])

IsUnskipped(inner, skipped, F) == F = [n \in 0..Len(inner) |-> UnskippedStep(inner, skipped, F, n)]

UnskippedOf(inner, skipped) == CHOOSE F : IsUnskipped(inner, skipped, F)

Paired(inner, skipped) ==
    \A n \in DOMAIN inner : inner[n] = Quote => n \in skipped \/ n + 1 \in skipped

LEMMA UnquotedIs ==
    ASSUME NEW txt, NEW inner, inner = SubSeq(txt, 2, Len(txt) - 1)
    PROVE  LET skipped == SkipsOf(inner)[Len(inner)]
           IN  Statement!Unquoted(txt) =
                  IF (Len(txt) > 2 /\ txt[Len(txt)] = Quote) /\ Paired(inner, skipped)
                  THEN UnskippedOf(inner, skipped)[Len(inner)] ELSE Statement!Unreadable
BY DEF Statement!Unquoted, SkipsOf, IsSkips, SkipsStep, UnskippedOf, IsUnskipped, UnskippedStep, Paired, Quote

LEMMA SkipsExist ==
    ASSUME NEW inner, Len(inner) \in Nat
    PROVE  LET F == SkipsOf(inner)
           IN  F[0] = {} /\ \A n \in 1..Len(inner) : F[n] = SkipsStep(inner, F, n)
<1> DEFINE m == Len(inner)
           next(n, s) == IF inner[n] = Quote /\ n > 1 /\ inner[n - 1] = Quote /\ n - 1 \notin s
                         THEN s \cup {n} ELSE s
           V == SUBSET Nat
           step == [p \in (1..m) \X V |-> next(p[1], p[2])]
<1>1. m \in Nat
  OBVIOUS
<1> HIDE DEF m
<1>2. step \in [(1..m) \X V -> V]
  <2>1. \A n \in 1..m, s \in V : next(n, s) \in V
    BY <1>1
  <2> HIDE DEF next, V
  <2> QED BY <2>1
<1>3. {} \in V
  OBVIOUS
<1> HIDE DEF step, V, next
<1>4. PICK F : IsLoop(F, m, V, {}, step)
  BY <1>1, <1>2, <1>3, LoopExists
<1>5. \A n \in 1..m : F[n] = next(n, F[n - 1])
  <2> TAKE n \in 1..m
  <2>1. F[n] = step[<< n, F[n - 1] >>] /\ n - 1 \in 0..m /\ F[n - 1] \in V
    BY <1>1, <1>4 DEF IsLoop
  <2> QED BY <2>1 DEF step
<1>6. IsSkips(inner, F)
  <2>1. F = [n \in 0..m |-> F[n]] /\ F[0] = {}
    BY <1>4 DEF IsLoop
  <2>2. \A n \in 0..m : F[n] = SkipsStep(inner, F, n)
    <3> TAKE n \in 0..m
    <3>1. CASE n = 0
      BY <3>1, <2>1 DEF SkipsStep
    <3>2. CASE n # 0
      <4>1. n \in 1..m
        BY <1>1, <3>2
      <4>2. F[n] = next(n, F[n - 1])
        BY <1>5, <4>1
      <4> QED BY <3>2, <4>2, Zenon DEF SkipsStep, next
    <3> QED BY <3>1, <3>2
  <2> QED BY <2>1, <2>2 DEF IsSkips, m
<1> DEFINE G == SkipsOf(inner)
<1>7. IsSkips(inner, G)
  BY <1>6 DEF SkipsOf
<1> HIDE DEF G
<1>8. \A n \in 0..m : G[n] = SkipsStep(inner, G, n)
  BY <1>7 DEF IsSkips, m
<1>9. G[0] = {}
  <2>1. 0 \in 0..m
    BY <1>1
  <2> QED BY <1>8, <2>1 DEF SkipsStep
<1>10. \A n \in 1..m : n \in 0..m
  BY <1>1
<1> QED BY <1>8, <1>9, <1>10 DEF G, m

LEMMA KeptExist ==
    ASSUME NEW inner, Len(inner) \in Nat, NEW skipped
    PROVE  LET F == UnskippedOf(inner, skipped)
           IN  F[0] = << >> /\ \A n \in 1..Len(inner) : F[n] = UnskippedStep(inner, skipped, F, n)
<1> DEFINE m == Len(inner)
           S == {inner[n] : n \in 1..m}
           V == Seq(S)
           next(n, s) == IF n \in skipped THEN s ELSE Append(s, inner[n])
           step == [p \in (1..m) \X V |-> next(p[1], p[2])]
<1>1. m \in Nat /\ \A n \in 1..m : inner[n] \in S
  OBVIOUS
<1> HIDE DEF m, S
<1>2. step \in [(1..m) \X V -> V]
  <2>1. \A n \in 1..m, s \in V : next(n, s) \in V
    BY <1>1
  <2> HIDE DEF next, V
  <2> QED BY <2>1
<1>3. << >> \in V
  OBVIOUS
<1> HIDE DEF step, V, next
<1>4. PICK F : IsLoop(F, m, V, << >>, step)
  BY <1>1, <1>2, <1>3, LoopExists
<1>5. \A n \in 1..m : F[n] = next(n, F[n - 1])
  <2> TAKE n \in 1..m
  <2>1. F[n] = step[<< n, F[n - 1] >>] /\ n - 1 \in 0..m /\ F[n - 1] \in V
    BY <1>1, <1>4 DEF IsLoop
  <2> QED BY <2>1 DEF step
<1>6. IsUnskipped(inner, skipped, F)
  <2>1. F = [n \in 0..m |-> F[n]] /\ F[0] = << >>
    BY <1>4 DEF IsLoop
  <2>2. \A n \in 0..m : F[n] = UnskippedStep(inner, skipped, F, n)
    <3> TAKE n \in 0..m
    <3>1. CASE n = 0
      BY <3>1, <2>1 DEF UnskippedStep
    <3>2. CASE n # 0
      <4>1. n \in 1..m
        BY <1>1, <3>2
      <4>2. F[n] = next(n, F[n - 1])
        BY <1>5, <4>1
      <4> QED BY <3>2, <4>2, Zenon DEF UnskippedStep, next
    <3> QED BY <3>1, <3>2
  <2> QED BY <2>1, <2>2 DEF IsUnskipped, m
<1> DEFINE G == UnskippedOf(inner, skipped)
<1>7. IsUnskipped(inner, skipped, G)
  BY <1>6 DEF UnskippedOf
<1> HIDE DEF G
<1>8. \A n \in 0..m : G[n] = UnskippedStep(inner, skipped, G, n)
  BY <1>7 DEF IsUnskipped, m
<1>9. G[0] = << >>
  <2>1. 0 \in 0..m
    BY <1>1
  <2> QED BY <1>8, <2>1 DEF UnskippedStep
<1>10. \A n \in 1..m : n \in 0..m
  BY <1>1
<1> QED BY <1>8, <1>9, <1>10 DEF G, m

\* The facts about a doubled text that reading it back needs: where each character ends.
DoubledAs(txt, inner, E) ==
    /\ Len(txt) \in Nat /\ Len(inner) \in Nat /\ DOMAIN inner = 1..Len(inner)
    /\ E \in [0..Len(txt) -> 0..Len(inner)]
    /\ E[0] = 0 /\ E[Len(txt)] = Len(inner)
    /\ \A n \in 1..Len(txt) :
          /\ E[n] = E[n - 1] + (IF txt[n] = Quote THEN 2 ELSE 1)
          /\ inner[E[n]] = txt[n]
          /\ txt[n] = Quote => inner[E[n] - 1] = Quote

\* Up to the end of character n: the characters' ends skipped are the quotes', and no
\* pair is open.
SkippedUpTo(txt, inner, E, n) ==
    LET F == SkipsOf(inner)
    IN  /\ F[E[n]] \subseteq 1..E[n]
        /\ n = 0 \/ inner[E[n]] # Quote \/ E[n] \in F[E[n]]
        /\ \A k \in 1..n : /\ E[k] \in F[E[n]] <=> txt[k] = Quote
                           /\ txt[k] = Quote => E[k] - 1 \notin F[E[n]]

LEMMA EndsStep ==
    ASSUME NEW txt, NEW inner, NEW E, DoubledAs(txt, inner, E), NEW j \in Nat,
           j + 1 \in 1..Len(txt)
    PROVE  /\ E[j] \in 0..Len(inner) /\ E[j + 1] \in 1..Len(inner) /\ Len(inner) \in Nat
           /\ E[j + 1] = E[j] + (IF txt[j + 1] = Quote THEN 2 ELSE 1)
           /\ inner[E[j + 1]] = txt[j + 1]
           /\ txt[j + 1] = Quote => inner[E[j + 1] - 1] = Quote
<1> DEFINE w == IF txt[j + 1] = Quote THEN 2 ELSE 1
           e == E[j]
           f == E[j + 1]
<1>1. Len(txt) \in Nat /\ Len(inner) \in Nat /\ E \in [0..Len(txt) -> 0..Len(inner)]
  BY DEF DoubledAs
<1>2. j \in 0..Len(txt) /\ j + 1 \in 0..Len(txt) /\ (j + 1) - 1 = j
  BY <1>1
<1>3. e \in 0..Len(inner) /\ f \in 0..Len(inner)
  <2> HIDE DEF w
  <2> QED BY <1>1, <1>2
<1>4. \A n \in 1..Len(txt) :
          /\ E[n] = E[n - 1] + (IF txt[n] = Quote THEN 2 ELSE 1)
          /\ inner[E[n]] = txt[n]
          /\ txt[n] = Quote => inner[E[n] - 1] = Quote
  BY Zenon DEF DoubledAs
<1>5. /\ E[j + 1] = E[(j + 1) - 1] + w
      /\ inner[f] = txt[j + 1]
      /\ txt[j + 1] = Quote => inner[f - 1] = Quote
  BY <1>4
<1>6. w \in {1, 2}
  OBVIOUS
<1> HIDE DEF w
<1>7. f = e + w
  BY <1>2, <1>5, Zenon
<1> HIDE DEF e, f
<1>8. f \in 1..Len(inner)
  BY <1>1, <1>3, <1>6, <1>7
<1> QED BY <1>1, <1>3, <1>5, <1>7, <1>8 DEF w, e, f

LEMMA EndsGrow ==
    ASSUME NEW txt, NEW inner, NEW E, DoubledAs(txt, inner, E), NEW n \in 0..Len(txt)
    PROVE  \A k \in 1..n : E[k] \in 1..E[n] /\ (txt[k] = Quote => E[k] - 1 \in 1..E[n])
<1> DEFINE T == {j \in Nat : \A k \in 1..j :
                                E[k] \in 1..E[j] /\ (txt[k] = Quote => E[k] - 1 \in 1..E[j])}
<1>1. 0 \in T
  OBVIOUS
<1>2. ASSUME NEW j \in 0..(n - 1), j \in T PROVE j + 1 \in T
  <2>1. j + 1 \in 1..Len(txt) /\ (j + 1) - 1 = j /\ j \in 0..Len(txt) /\ j + 1 \in 0..Len(txt) /\ j + 1 \in Nat
    BY DEF DoubledAs
  <2>2. E[j + 1] = E[j] + (IF txt[j + 1] = Quote THEN 2 ELSE 1) /\ E[j] \in Nat /\ E[j + 1] \in Nat
    BY <2>1, EndsStep
  <2>3. ASSUME NEW k \in 1..(j + 1)
        PROVE  E[k] \in 1..E[j + 1] /\ (txt[k] = Quote => E[k] - 1 \in 1..E[j + 1])
    <3>1. CASE k = j + 1
      BY <2>2, <3>1
    <3>2. CASE k # j + 1
      <4>1. k \in 1..j
        BY <2>1, <3>2
      <4>2. E[k] \in 1..E[j] /\ (txt[k] = Quote => E[k] - 1 \in 1..E[j])
        BY <1>2, <4>1
      <4> QED BY <2>2, <4>2
    <3> QED BY <3>1, <3>2
  <2> QED BY <2>1, <2>3
<1> HIDE DEF T
<1>3. n \in T
  <2>1. n \in Nat
    BY DEF DoubledAs
  <2> QED BY <1>1, <1>2, <2>1, CountUp
<1> QED BY <1>3 DEF T

LEMMA SkipsFound ==
    ASSUME NEW txt, NEW inner, NEW E, DoubledAs(txt, inner, E), NEW n \in 0..Len(txt)
    PROVE  SkippedUpTo(txt, inner, E, n)
<1> DEFINE F == SkipsOf(inner)
           T == {j \in Nat : SkippedUpTo(txt, inner, E, j)}
<1>1. F[0] = {} /\ \A j \in 1..Len(inner) : F[j] = SkipsStep(inner, F, j)
  BY SkipsExist DEF DoubledAs
<1> HIDE DEF F
<1>2. 0 \in T
  <2>1. E[0] = 0
    BY DEF DoubledAs
  <2> QED BY <1>1, <2>1 DEF SkippedUpTo, F
<1>3. ASSUME NEW j \in 0..(n - 1), j \in T PROVE j + 1 \in T
  <2>1. /\ j + 1 \in 1..Len(txt) /\ (j + 1) - 1 = j /\ j \in 0..Len(txt) /\ j + 1 \in 0..Len(txt)
        /\ j + 1 \in Nat
    BY DEF DoubledAs
  <2> DEFINE e == E[j]
             f == E[j + 1]
  <2>2. /\ f = e + (IF txt[j + 1] = Quote THEN 2 ELSE 1) /\ e \in Nat /\ f \in 1..Len(inner)
        /\ Len(inner) \in Nat /\ e \in 0..Len(inner)
        /\ inner[f] = txt[j + 1]
        /\ txt[j + 1] = Quote => inner[f - 1] = Quote
    BY <2>1, EndsStep
  <2>3. /\ F[e] \subseteq 1..e
        /\ j = 0 \/ inner[e] # Quote \/ e \in F[e]
        /\ \A k \in 1..j : /\ E[k] \in F[e] <=> txt[k] = Quote
                           /\ txt[k] = Quote => E[k] - 1 \notin F[e]
    BY <1>3 DEF SkippedUpTo, F
  <2>4. \A k \in 1..j : E[k] \in 1..e /\ (txt[k] = Quote => E[k] - 1 \in 1..e)
    BY <2>1, EndsGrow
  <2>5. j = 0 => e = 0
    BY DEF DoubledAs
  <2>6. e = 0 => j = 0
    <3>1. j > 0 => j \in 1..j
      BY <2>1
    <3>2. j > 0 => e > 0
      BY <2>2, <2>4, <3>1
    <3> QED BY <2>1, <3>2
  <2> HIDE DEF e, f
  <2>7. CASE txt[j + 1] # Quote
    <3>1. f = e + 1 /\ f - 1 = e /\ f # 0
      BY <2>2, <2>7
    <3>2. F[f] = F[e]
      BY <1>1, <2>2, <2>7, <3>1 DEF SkipsStep
    <3>3. F[f] \subseteq 1..f
      BY <2>2, <2>3, <3>1, <3>2
    <3>4. f \notin F[f]
      BY <2>2, <2>3, <3>1, <3>2
    <3>5. ASSUME NEW k \in 1..(j + 1)
          PROVE  /\ E[k] \in F[f] <=> txt[k] = Quote
                 /\ txt[k] = Quote => E[k] - 1 \notin F[f]
      <4>1. CASE k = j + 1
        BY <2>7, <3>4, <4>1 DEF f
      <4>2. CASE k # j + 1
        <5>1. k \in 1..j
          BY <2>1, <4>2
        <5> QED BY <2>3, <3>2, <5>1
      <4> QED BY <4>1, <4>2
    <3>6. inner[f] # Quote
      BY <2>2, <2>7
    <3> QED BY <2>1, <3>3, <3>5, <3>6 DEF SkippedUpTo, F, f
  <2>8. CASE txt[j + 1] = Quote
    <3> DEFINE p == e + 1
    <3>1. /\ p - 1 = e /\ p # 0 /\ p \in 1..Len(inner) /\ f = p + 1 /\ f - 1 = p /\ f > 1 /\ f # 0
          /\ (p > 1 <=> e # 0) /\ p \in Nat
      BY <2>2, <2>8
    <3>2. F[p] = F[e]
      <4>1. ~(p > 1 /\ inner[e] = Quote /\ e \notin F[e])
        BY <2>3, <2>5, <2>6, <3>1
      <4> HIDE DEF p
      <4> QED BY <1>1, <3>1, <4>1 DEF SkipsStep
    <3>3. p \notin F[p]
      BY <2>2, <2>3, <3>2
    <3>4. F[f] = F[e] \cup {f}
      <4>1. F[f] = SkipsStep(inner, F, f)
        BY <1>1, <2>2
      <4>2. inner[f] = Quote /\ f > 1 /\ inner[f - 1] = Quote /\ f - 1 \notin F[f - 1] /\ f # 0
        BY <2>2, <2>8, <3>1, <3>3
      <4>3. F[f] = F[f - 1] \cup {f}
        BY <4>1, <4>2, Zenon DEF SkipsStep
      <4> QED BY <3>1, <3>2, <4>3
    <3>5. F[f] \subseteq 1..f
      BY <2>2, <2>3, <3>1, <3>4
    <3>6. f - 1 \notin F[f]
      BY <2>2, <2>3, <3>1, <3>2, <3>3, <3>4
    <3>7. ASSUME NEW k \in 1..(j + 1)
          PROVE  /\ E[k] \in F[f] <=> txt[k] = Quote
                 /\ txt[k] = Quote => E[k] - 1 \notin F[f]
      <4>1. CASE k = j + 1
        BY <2>8, <3>4, <3>6, <4>1 DEF f
      <4>2. CASE k # j + 1
        <5>1. k \in 1..j
          BY <2>1, <4>2
        <5>2. E[k] # f /\ (txt[k] = Quote => E[k] - 1 # f)
          BY <2>2, <2>4, <3>1, <5>1
        <5> QED BY <2>3, <3>4, <5>1, <5>2
      <4> QED BY <4>1, <4>2
    <3>8. f \in F[f]
      BY <3>4
    <3> QED BY <2>1, <3>5, <3>7, <3>8 DEF SkippedUpTo, F, f
  <2> QED BY <2>7, <2>8
<1> HIDE DEF T
<1>4. n \in T
  <2>1. n \in Nat
    BY DEF DoubledAs
  <2> QED BY <1>2, <1>3, <2>1, CountUp
<1> QED BY <1>4 DEF T

LEMMA PairsFound ==
    ASSUME NEW txt, NEW inner, NEW E, DoubledAs(txt, inner, E)
    PROVE  Paired(inner, SkipsOf(inner)[Len(inner)])
<1> DEFINE s == SkipsOf(inner)[Len(inner)]
           T == {j \in Nat : \A p \in 1..E[j] : inner[p] = Quote => p \in s \/ p + 1 \in s}
<1>1. /\ Len(txt) \in Nat /\ Len(inner) \in Nat /\ DOMAIN inner = 1..Len(inner)
      /\ E[0] = 0 /\ E[Len(txt)] = Len(inner)
  BY DEF DoubledAs
<1>2. \A k \in 1..Len(txt) : txt[k] = Quote => E[k] \in s
  <2>1. Len(txt) \in 0..Len(txt)
    BY <1>1
  <2>2. SkippedUpTo(txt, inner, E, Len(txt))
    BY <2>1, SkipsFound
  <2> QED BY <1>1, <2>2 DEF SkippedUpTo
<1> HIDE DEF s
<1>3. 0 \in T
  BY <1>1
<1>4. ASSUME NEW j \in 0..(Len(txt) - 1), j \in T PROVE j + 1 \in T
  <2>1. j \in Nat /\ j + 1 \in 1..Len(txt) /\ j + 1 \in Nat
    BY <1>1
  <2> DEFINE e == E[j]
             f == E[j + 1]
             w == IF txt[j + 1] = Quote THEN 2 ELSE 1
  <2>2. /\ e \in Nat /\ f \in Nat /\ f = e + w
        /\ inner[f] = txt[j + 1]
        /\ txt[j + 1] = Quote => inner[f - 1] = Quote
    <3>1. /\ e \in 0..Len(inner) /\ f \in 1..Len(inner)
          /\ f = e + w
          /\ inner[f] = txt[j + 1]
          /\ txt[j + 1] = Quote => inner[f - 1] = Quote
      BY <2>1, EndsStep
    <3> HIDE DEF e, f, w
    <3> QED BY <1>1, <3>1
  <2>3. \A p \in 1..e : inner[p] = Quote => p \in s \/ p + 1 \in s
    BY <1>4
  <2>4. txt[j + 1] = Quote => f \in s
    BY <1>2, <2>1
  <2>5. (txt[j + 1] = Quote => w = 2) /\ (txt[j + 1] # Quote => w = 1)
    OBVIOUS
  <2> HIDE DEF e, f, w
  <2>6. ASSUME NEW p \in 1..f, inner[p] = Quote PROVE p \in s \/ p + 1 \in s
    <3>1. CASE p \in 1..e
      BY <2>3, <2>6, <3>1
    <3>2. CASE p \notin 1..e
      <4>1. txt[j + 1] = Quote
        <5>1. CASE txt[j + 1] # Quote
          <6>1. p = f
            BY <2>2, <2>5, <3>2, <5>1
          <6> QED BY <2>2, <2>6, <6>1
        <5> QED BY <5>1
      <4>2. p = f \/ p + 1 = f
        BY <2>2, <2>5, <3>2, <4>1
      <4> QED BY <2>4, <4>1, <4>2
    <3> QED BY <3>1, <3>2
  <2> QED BY <2>1, <2>6 DEF f
<1> HIDE DEF T
<1>5. Len(txt) \in T
  BY <1>1, <1>3, <1>4, CountUp
<1> QED BY <1>1, <1>5 DEF T, s, Paired

LEMMA KeptFound ==
    ASSUME NEW txt, Quotable(txt), NEW inner, NEW E, DoubledAs(txt, inner, E)
    PROVE  UnskippedOf(inner, SkipsOf(inner)[Len(inner)])[Len(inner)] = txt
<1> DEFINE s == SkipsOf(inner)[Len(inner)]
           K == UnskippedOf(inner, s)
           S == Elements(txt)
           m == Len(txt)
           Prefix(kept, n) ==
               kept \in Seq(S) /\ Len(kept) = n /\ \A k \in 1..n : kept[k] = txt[k]
           T == {j \in Nat : Prefix(K[E[j]], j)}
<1>1. /\ m \in Nat /\ Len(inner) \in Nat
      /\ E[0] = 0 /\ E[Len(txt)] = Len(inner)
  BY DEF DoubledAs
<1>2. \A k \in 1..m : /\ E[k] \in s <=> txt[k] = Quote
                      /\ txt[k] = Quote => E[k] - 1 \notin s
  <2>1. m \in 0..m
    BY <1>1
  <2>2. SkippedUpTo(txt, inner, E, m)
    BY <2>1, SkipsFound
  <2> QED BY <1>1, <2>2 DEF SkippedUpTo
<1>3. K[0] = << >> /\ \A n \in 1..Len(inner) : K[n] = UnskippedStep(inner, s, K, n)
  BY <1>1, KeptExist
<1>4. txt \in Seq(S) /\ \A k \in 1..m : txt[k] \in S
  <2>1. txt \in Seq(S)
    BY DEF Quotable
  <2> HIDE DEF S
  <2> QED BY <2>1
<1>5. ASSUME NEW kept, NEW n \in Nat, n + 1 \in 1..m, Prefix(kept, n)
      PROVE  Prefix(Append(kept, txt[n + 1]), n + 1)
  <2>1. txt[n + 1] \in S
    BY <1>4, <1>5
  <2> HIDE DEF S
  <2>2. /\ Append(kept, txt[n + 1]) \in Seq(S) /\ Len(Append(kept, txt[n + 1])) = n + 1
        /\ \A k \in 1..n : Append(kept, txt[n + 1])[k] = kept[k]
        /\ Append(kept, txt[n + 1])[n + 1] = txt[n + 1]
    BY <1>5, <2>1
  <2>3. \A k \in 1..(n + 1) : k \in 1..n \/ k = n + 1
    OBVIOUS
  <2> QED BY <1>5, <2>2, <2>3
<1> HIDE DEF s, K, S
<1>6. 0 \in T
  <2>1. << >> \in Seq(S) /\ Len(<< >>) = 0
    OBVIOUS
  <2>2. Prefix(<< >>, 0)
    BY <2>1
  <2> HIDE DEF Prefix
  <2> QED BY <1>1, <1>3, <2>2
<1>7. ASSUME NEW j \in 0..(m - 1), j \in T PROVE j + 1 \in T
  <2>1. j \in Nat /\ j + 1 \in 1..Len(txt) /\ j + 1 \in Nat
    BY <1>1
  <2> DEFINE e == E[j]
             f == E[j + 1]
             w == IF txt[j + 1] = Quote THEN 2 ELSE 1
  <2>2. /\ e \in Nat /\ f \in 1..Len(inner) /\ f = e + w
        /\ inner[f] = txt[j + 1]
        /\ txt[j + 1] = Quote => inner[f - 1] = Quote
    <3>1. /\ e \in 0..Len(inner) /\ f \in 1..Len(inner)
          /\ f = e + w
          /\ inner[f] = txt[j + 1]
          /\ txt[j + 1] = Quote => inner[f - 1] = Quote
      <4> HIDE DEF m
      <4> QED BY <2>1, EndsStep
    <3> HIDE DEF e, f, w
    <3> QED BY <1>1, <3>1
  <2>3. (f \in s <=> txt[j + 1] = Quote) /\ (txt[j + 1] = Quote => f - 1 \notin s)
    BY <1>2, <2>1
  <2>4. (txt[j + 1] = Quote => w = 2) /\ (txt[j + 1] # Quote => w = 1)
    OBVIOUS
  <2>5. Prefix(K[e], j)
    BY <1>7
  <2> HIDE DEF e, f, w, Prefix
  <2>6. Prefix(Append(K[e], txt[j + 1]), j + 1)
    BY <1>5, <2>1, <2>5
  <2>7. K[f] = Append(K[e], txt[j + 1])
    <3>1. f # 0 /\ K[f] = UnskippedStep(inner, s, K, f)
      BY <1>3, <2>2
    <3>2. CASE txt[j + 1] # Quote
      <4>1. f - 1 = e /\ f \notin s
        BY <2>2, <2>3, <2>4, <3>2
      <4> QED BY <2>2, <3>1, <4>1, Zenon DEF UnskippedStep
    <3>3. CASE txt[j + 1] = Quote
      <4>1. f - 1 = e + 1 /\ (f - 1) - 1 = e /\ f \in s /\ f - 1 \notin s /\ f - 1 # 0
            /\ f - 1 \in 1..Len(inner)
        BY <1>1, <2>2, <2>3, <2>4, <3>3
      <4>2. K[f] = K[f - 1]
        BY <3>1, <4>1, Zenon DEF UnskippedStep
      <4>3. K[f - 1] = UnskippedStep(inner, s, K, f - 1)
        BY <1>3, <4>1
      <4>4. K[f - 1] = Append(K[e], inner[f - 1])
        BY <4>1, <4>3, Zenon DEF UnskippedStep
      <4> QED BY <2>2, <3>3, <4>2, <4>4
    <3> QED BY <3>2, <3>3
  <2> QED BY <2>1, <2>6, <2>7 DEF f
<1>8. m \in T
  <2> HIDE DEF T, m
  <2> QED BY <1>1, <1>6, <1>7, CountUp
<1> DEFINE kept == K[Len(inner)]
<1>9. Prefix(kept, m)
  BY <1>1, <1>8
<1> HIDE DEF kept
<1>10. kept = [k \in 1..Len(kept) |-> kept[k]] /\ txt = [k \in 1..Len(txt) |-> txt[k]]
  BY <1>4, <1>9
<1>11. kept = txt
  BY <1>9, <1>10
<1> QED BY <1>11 DEF kept, K, s

\* What is quoted is read back as it was.
LEMMA QuotedReadBack ==
    ASSUME NEW txt, Quotable(txt)
    PROVE  /\ Statement!Unquoted(Statement!Quoted(txt)) = txt
           /\ Statement!Quoted(txt)[1] = Quote
<1> DEFINE m == Len(txt)
           S == Elements(txt) \cup {Quote}
           inner == DoubledOf(txt)[m]
           E == [n \in 0..m |-> Ends(txt, n)]
           quoted == Statement!Quoted(txt)
           one == << Quote >>
<1>1. m \in Nat /\ m > 0 /\ txt \in Seq(Elements(txt))
  BY DEF Quotable
<1>2. inner \in Seq(S) /\ Len(inner) = Ends(txt, m)
  <2>1. m \in 0..m
    BY <1>1
  <2> QED BY <2>1, DoubledExists DEF Ends
<1>3. quoted = one \o inner \o one
  BY QuotedIs
<1>4. Len(inner) \in Nat /\ DOMAIN inner = 1..Len(inner) /\ Len(inner) > 0
  <2>1. Len(inner) \in Nat /\ DOMAIN inner = 1..Len(inner)
    <3> HIDE DEF inner, S
    <3> QED BY <1>2
  <2>2. m \in 0..m /\ m \in 1..m
    BY <1>1
  <2>3. Ends(txt, m) \in 1..Ends(txt, m)
    BY <2>2, DoubledPlaces
  <2> HIDE DEF inner
  <2> QED BY <1>2, <2>1, <2>3
<1>5. DoubledAs(txt, inner, E)
  <2>1. \A n \in 0..m : Ends(txt, n) \in 0..Ends(txt, m)
    <3> TAKE n \in 0..m
    <3>1. n = 0 \/ n \in 1..m
      BY <1>1
    <3>2. m \in 0..m
      BY <1>1
    <3>3. Ends(txt, 0) = 0 /\ Ends(txt, m) \in Nat
      BY <3>2, DoubledPlaces
    <3>4. n \in 1..m => Ends(txt, n) \in 1..Ends(txt, m)
      BY <3>2, DoubledPlaces
    <3> QED BY <3>1, <3>3, <3>4
  <2>2. E \in [0..m -> 0..Len(inner)] /\ E[0] = 0 /\ E[m] = Len(inner)
    <3>1. 0 \in 0..m /\ m \in 0..m
      BY <1>1
    <3>2. Ends(txt, 0) = 0
      BY <3>1, DoubledPlaces
    <3> HIDE DEF inner
    <3> QED BY <1>2, <2>1, <3>1, <3>2
  <2>3. ASSUME NEW n \in 1..m
        PROVE  /\ E[n] = E[n - 1] + (IF txt[n] = Quote THEN 2 ELSE 1)
               /\ inner[E[n]] = txt[n]
               /\ txt[n] = Quote => inner[E[n] - 1] = Quote
    <3>1. n \in 0..m /\ n - 1 \in 0..m /\ m \in 0..m /\ n > 0
      BY <1>1
    <3>2. E[n] = Ends(txt, n) /\ E[n - 1] = Ends(txt, n - 1)
      BY <3>1
    <3>3. Ends(txt, n) = Ends(txt, n - 1) + (IF txt[n] = Quote THEN 2 ELSE 1)
      BY <3>1, DoubledPlaces
    <3>4. /\ inner[Ends(txt, n)] = txt[n]
          /\ txt[n] = Quote => inner[Ends(txt, n) - 1] = Quote
      BY <3>1, DoubledPlaces
    <3> HIDE DEF inner, E
    <3> QED BY <3>2, <3>3, <3>4, Zenon
  <2> HIDE DEF inner, E
  <2> QED BY <1>1, <1>4, <2>2, <2>3 DEF DoubledAs
<1> HIDE DEF inner, E, quoted
<1>6. /\ Len(quoted) = Len(inner) + 2
      /\ quoted[1] = Quote /\ quoted[Len(quoted)] = Quote
      /\ inner = SubSeq(quoted, 2, Len(quoted) - 1)
  <2>1. one \in Seq(S) /\ Len(one) = 1 /\ one[1] = Quote
    OBVIOUS
  <2> HIDE DEF one, S
  <2> DEFINE left == one \o inner
  <2>2. /\ left \in Seq(S) /\ Len(left) = 1 + Len(inner)
        /\ \A p \in 1..(1 + Len(inner)) : left[p] = IF p <= 1 THEN one[p] ELSE inner[p - 1]
    <3>1. /\ one \o inner \in Seq(S) /\ Len(one \o inner) = Len(one) + Len(inner)
          /\ \A p \in 1..(Len(one) + Len(inner)) :
                 (one \o inner)[p] = IF p <= Len(one) THEN one[p] ELSE inner[p - Len(one)]
      BY <1>2, <2>1, ConcatFacts
    <3> HIDE DEF left
    <3> QED BY <2>1, <3>1, Zenon DEF left
  <2>3. quoted = left \o one
    BY <1>3
  <2> HIDE DEF left
  <2> DEFINE l == Len(inner)
  <2>4. /\ quoted \in Seq(S) /\ Len(quoted) = (1 + l) + 1
        /\ \A p \in 1..((1 + l) + 1) : quoted[p] = IF p <= 1 + l THEN left[p] ELSE one[p - (1 + l)]
    <3>1. /\ left \o one \in Seq(S) /\ Len(left \o one) = Len(left) + Len(one)
          /\ \A p \in 1..(Len(left) + Len(one)) :
                 (left \o one)[p] = IF p <= Len(left) THEN left[p] ELSE one[p - Len(left)]
      BY <2>1, <2>2, ConcatFacts
    <3>2. Len(left) = 1 + l
      BY <2>2
    <3> HIDE DEF l
    <3> QED BY <2>1, <2>3, <3>1, <3>2, Zenon
  <2> HIDE DEF l
  <2>5. l \in Nat /\ l > 0
    BY <1>4 DEF l
  <2>6. Len(quoted) = l + 2 /\ Len(quoted) - 1 = l + 1
    BY <2>4, <2>5
  <2>7. quoted[1] = Quote
    <3>1. 1 \in 1..((1 + l) + 1) /\ 1 <= 1 + l /\ 1 \in 1..(1 + l) /\ 1 <= 1
      BY <2>5
    <3>2. quoted[1] = left[1]
      BY <2>4, <3>1
    <3>3. left[1] = one[1]
      BY <2>2, <3>1 DEF l
    <3> QED BY <2>1, <3>2, <3>3
  <2>8. quoted[l + 2] = Quote
    <3>1. l + 2 \in 1..((1 + l) + 1) /\ ~(l + 2 <= 1 + l) /\ (l + 2) - (1 + l) = 1
      BY <2>5
    <3> QED BY <2>1, <2>4, <3>1
  <2>9. \A p \in 1..l : quoted[2 + p - 1] = inner[p]
    <3> TAKE p \in 1..l
    <3>1. /\ 2 + p - 1 \in 1..((1 + l) + 1) /\ 2 + p - 1 <= 1 + l /\ 2 + p - 1 \in 1..(1 + l)
          /\ ~(2 + p - 1 <= 1) /\ (2 + p - 1) - 1 = p
      BY <2>5
    <3>2. quoted[2 + p - 1] = left[2 + p - 1]
      BY <2>4, <3>1
    <3>3. left[2 + p - 1] = inner[(2 + p - 1) - 1]
      BY <2>2, <3>1 DEF l
    <3> QED BY <3>1, <3>2, <3>3
  <2> DEFINE cut == SubSeq(quoted, 2, l + 1)
  <2>10. /\ cut \in Seq(S) /\ Len(cut) = (l + 1) - 2 + 1
         /\ \A p \in 1..((l + 1) - 2 + 1) : cut[p] = quoted[2 + p - 1]
    <3>1. 2 \in 1..(Len(quoted) + 1) /\ l + 1 \in (2 - 1)..Len(quoted) /\ 2 \in Int /\ l + 1 \in Int
      BY <2>5, <2>6
    <3> QED BY <2>4, <3>1, SliceFacts
  <2>11. (l + 1) - 2 + 1 = l
    BY <2>5
  <2> HIDE DEF cut
  <2>12. cut = [p \in 1..Len(cut) |-> cut[p]]
    BY <2>10
  <2>13. inner = [p \in 1..l |-> inner[p]]
    BY <1>2 DEF l
  <2>14. cut = inner
    BY <2>9, <2>10, <2>11, <2>12, <2>13
  <2> QED BY <2>6, <2>7, <2>8, <2>14 DEF cut, l
<1>7. Len(quoted) > 2
  BY <1>4, <1>6
<1>8. Statement!Unquoted(quoted) = UnskippedOf(inner, SkipsOf(inner)[Len(inner)])[Len(inner)]
  BY <1>5, <1>6, <1>7, UnquotedIs, PairsFound
<1>9. Statement!Unquoted(quoted) = txt
  BY <1>5, <1>8, KeptFound
<1> QED BY <1>6, <1>9 DEF quoted

ColumnKeys == {Statement!IdentKey(ident) : ident \in ColumnNames}

LEMMA LoweredFacts ==
    ASSUME NEW S, NEW txt \in Seq(S), txt # << >>
    PROVE  LET low == Statement!Lowered(txt)
           IN  /\ Quotable(low)
               /\ Statement!Lowered(low) = low
               /\ low[1] = Statement!Lower(txt[1]) /\ 1 \in DOMAIN txt
               /\ Elements(low) = {Statement!Lower(c) : c \in Elements(txt)}
<1> DEFINE low == Statement!Lowered(txt)
           m == Len(txt)
<1>1. m \in Nat /\ DOMAIN txt = 1..m /\ m > 0
  OBVIOUS
<1>2. low = [i \in 1..m |-> Statement!Lower(txt[i])]
  BY <1>1 DEF Statement!Lowered
<1>3. \A c : Statement!Lower(Statement!Lower(c)) = Statement!Lower(c)
  BY DEF Statement!Lower
<1> HIDE DEF low, m
<1>4. DOMAIN low = 1..m /\ 1 \in 1..m
  BY <1>1, <1>2
<1>5. Elements(low) = {Statement!Lower(c) : c \in Elements(txt)}
  BY <1>1, <1>2, <1>4 DEF Elements
<1>6. Quotable(low)
  <2>1. \A i \in 1..m : low[i] \in Elements(low)
    BY <1>4 DEF Elements
  <2>2. low = [i \in 1..m |-> low[i]]
    BY <1>2
  <2> DEFINE C == Elements(low)
  <2>3. low \in [1..m -> C]
    BY <2>1, <2>2
  <2> HIDE DEF C
  <2>4. low \in Seq(C)
    BY <1>1, <2>3
  <2>5. low # << >>
    <3>1. DOMAIN << >> = {}
      OBVIOUS
    <3> QED BY <1>4, <3>1
  <2> QED BY <2>4, <2>5 DEF Quotable, C
<1>7. Statement!Lowered(low) = low
  <2>1. \A i \in 1..m : Statement!Lower(low[i]) = low[i]
    BY <1>2, <1>3
  <2>2. Statement!Lowered(low) = [i \in 1..m |-> Statement!Lower(low[i])]
    BY <1>4 DEF Statement!Lowered
  <2>3. low = [i \in 1..m |-> low[i]]
    BY <1>2
  <2> QED BY <2>1, <2>2, <2>3
<1>8. low[1] = Statement!Lower(txt[1])
  BY <1>2, <1>4
<1> QED BY <1>1, <1>4, <1>5, <1>6, <1>7, <1>8 DEF low

\* The elements of Suggestion's texts.
LEMMA SameElements == \A s : Statement!Elements(s) = Elements(s)
BY DEF Statement!Elements, Elements

LEMMA KeyQuotable ==
    ASSUME Statement!Suggestible, NEW ident \in ColumnNames \cup TableNames
    PROVE  /\ Quotable(ident.text) /\ ident.quoted \in BOOLEAN
           /\ Quotable(Statement!IdentKey(ident))
<1>1. ident.quoted \in BOOLEAN /\ ident.text \in Seq(Elements(ident.text)) /\ ident.text # << >>
  BY SameElements DEF Statement!Suggestible
<1>2. Quotable(Statement!Lowered(ident.text))
  BY <1>1, LoweredFacts
<1> QED BY <1>1, <1>2 DEF Quotable, Statement!IdentKey

\* A name of lower-case letters and digits is read as it is.
LEMMA PlainReadBack ==
    ASSUME NEW txt, Quotable(txt), Statement!Plain(txt), txt \notin Reserved
    PROVE  Statement!ReadName(txt) = txt
<1>1. Elements(txt) \subseteq {"a", "t", "u", "1"} /\ txt[1] \notin {"1"}
  BY SameElements DEF Statement!Plain, Statement!LowercaseOrDigit, Statement!Digit
<1>2. DOMAIN txt = 1..Len(txt) /\ 1 \in DOMAIN txt /\ txt = [i \in DOMAIN txt |-> txt[i]]
  <2> DEFINE S == Elements(txt)
  <2>1. txt \in Seq(S) /\ txt # << >>
    BY DEF Quotable
  <2> HIDE DEF S
  <2> QED BY <2>1
<1>3. \A i \in DOMAIN txt : txt[i] \in {"a", "t", "u", "1"}
  BY <1>1 DEF Elements
<1>4. \A i \in DOMAIN txt : Statement!Lower(txt[i]) = txt[i]
  BY <1>3 DEF Statement!Lower
<1>5. Statement!Lowered(txt) = txt
  BY <1>2, <1>4 DEF Statement!Lowered
<1>6. txt[1] # "q" /\ "q" \notin Elements(txt) /\ txt[1] \notin {"1"}
  BY <1>1, <1>2, <1>3
<1> QED BY <1>5, <1>6, SameElements DEF Statement!ReadName, Statement!Quote, Statement!Digit

LEMMA ColumnReadBack ==
    ASSUME Statement!Suggestible, NEW key \in ColumnKeys
    PROVE  Statement!ReadName(Statement!MaybeQuote(key)) = key
<1>1. PICK ident \in ColumnNames : key = Statement!IdentKey(ident)
  BY DEF ColumnKeys
<1>2. Quotable(key) /\ (Statement!Plain(key) => key \notin Reserved)
  BY <1>1, KeyQuotable DEF Statement!Suggestible
<1>3. CASE Statement!Plain(key)
  BY <1>2, <1>3, PlainReadBack DEF Statement!MaybeQuote
<1>4. CASE ~Statement!Plain(key)
  BY <1>2, <1>4, QuotedReadBack DEF Statement!MaybeQuote, Statement!ReadName, Quote
<1> QED BY <1>3, <1>4

LEMMA TableReadBack ==
    ASSUME Statement!Suggestible, backend \in Backends, NEW ident \in TableNames
    PROVE  Statement!ReadName(Statement!TableDisplay(ident)) = Statement!IdentKey(ident)
<1> DEFINE txt == ident.text
           low == Statement!Lowered(txt)
<1>1. Quotable(txt) /\ ident.quoted \in BOOLEAN
  BY KeyQuotable
<1>2. /\ Statement!Lowered(low) = low /\ low[1] = Statement!Lower(txt[1])
      /\ 1 \in DOMAIN txt
      /\ Elements(low) = {Statement!Lower(c) : c \in Elements(txt)}
  <2>1. txt \in Seq(Elements(txt)) /\ txt # << >>
    BY <1>1 DEF Quotable
  <2> QED BY <2>1, LoweredFacts
<1>3. ASSUME NEW name, Statement!Writable(name), 1 \in DOMAIN name
      PROVE  Statement!ReadName(name) = Statement!Lowered(name)
  <2>1. name[1] \in Elements(name)
    BY <1>3 DEF Elements
  <2> QED BY <1>3, <2>1, SameElements DEF Statement!ReadName, Statement!Writable
<1>4. Statement!Writable(txt) => Statement!Writable(low)
  <2> SUFFICES ASSUME Statement!Writable(txt) PROVE Statement!Writable(low)
    OBVIOUS
  <2>1. \A c : (c # "1" => Statement!Lower(c) # "1") /\ (c # "q" => Statement!Lower(c) # "q")
    BY DEF Statement!Lower
  <2>2. txt[1] # "1" /\ "q" \notin Elements(txt) /\ low \notin Reserved
    BY SameElements DEF Statement!Writable, Statement!Digit, Statement!Quote
  <2>3. low[1] # "1" /\ "q" \notin Elements(low)
    <3> HIDE DEF low
    <3> QED BY <1>2, <2>1, <2>2
  <2> HIDE DEF low
  <2> QED BY <1>2, <2>2, <2>3, SameElements DEF Statement!Writable, Statement!Digit, Statement!Quote
<1>5. 1 \in DOMAIN low
  BY <1>2 DEF Statement!Lowered
<1>6. CASE ~ident.quoted
  <2>1. Statement!Writable(txt)
    BY <1>6 DEF Statement!Suggestible
  <2>2. Statement!IdentKey(ident) = low
    BY <1>6 DEF Statement!IdentKey
  <2>3. Statement!TableDisplay(ident) \in {txt, low}
    BY <1>6, <2>2 DEF Statement!TableDisplay, Statement!Spelled
  <2>4. Statement!ReadName(txt) = low /\ Statement!ReadName(low) = low
    BY <1>2, <1>3, <1>4, <1>5, <2>1
  <2> QED BY <2>2, <2>3, <2>4
<1>7. CASE ident.quoted
  <2>1. Statement!IdentKey(ident) = txt
    BY <1>7 DEF Statement!IdentKey
  <2>2. CASE backend = "sqlparser"
    <3>1. Statement!TableDisplay(ident) = Statement!Quoted(txt)
      BY <1>7, <2>2 DEF Statement!TableDisplay, Statement!Spelled
    <3> QED BY <1>1, <2>1, <3>1, QuotedReadBack DEF Statement!ReadName, Quote
  <2>3. CASE backend # "sqlparser"
    <3>1. "pg-exact" \in Backends
      BY <2>3 DEF Statement!Suggestible
    <3>2. Statement!Writable(txt) /\ low = txt
      BY <1>7, <3>1 DEF Statement!Suggestible
    <3>3. Statement!TableDisplay(ident) = txt
      BY <2>1, <2>3 DEF Statement!TableDisplay
    <3> QED BY <1>2, <1>3, <2>1, <3>2, <3>3
  <2> QED BY <2>2, <2>3
<1> QED BY <1>1, <1>6, <1>7

Shown == {c \in [key : ColumnKeys, display : ColumnKeys, type : Types] : c.display = c.key}

\* What is displayed is the key, which is one column's.
SuggestionInv ==
    /\ backend \in Backends
    /\ Statement!ReadName(table.display) = table.key
    /\ columns \in Seq(Shown)
    /\ \A i, j \in DOMAIN columns : columns[i].key = columns[j].key => i = j

LEMMA AddColumnKeeps ==
    ASSUME Statement!Suggestible, SuggestionInv, NEW ident \in ColumnNames, NEW type \in Types,
           Statement!AddColumn(ident, type)
    PROVE  SuggestionInv'
<1> DEFINE c == Statement!Column(ident, type)
           n == Len(columns)
<1>1. /\ columns' = Append(columns, c) /\ c.key \notin {columns[i].key : i \in DOMAIN columns}
      /\ backend' = backend /\ table' = table
  BY DEF Statement!AddColumn, Statement!Names, Statement!Column
<1>2. c \in Shown
  <2>1. backend = "sqlparser" => ident.text = Statement!IdentKey(ident)
    BY DEF Statement!Suggestible, SuggestionInv
  <2> QED BY <2>1 DEF Statement!Column, Statement!ColumnDisplay, Shown, ColumnKeys
<1>3. n \in Nat /\ DOMAIN columns = 1..n /\ columns \in Seq(Shown)
  BY DEF SuggestionInv
<1> HIDE DEF c, n
<1>4. /\ columns' \in Seq(Shown) /\ DOMAIN columns' = 1..(n + 1)
      /\ \A i \in 1..n : columns'[i] = columns[i]
      /\ columns'[n + 1] = c
  <2> HIDE DEF Shown
  <2> QED BY <1>1, <1>2, <1>3 DEF n
<1>5. ASSUME NEW i \in DOMAIN columns', NEW j \in DOMAIN columns', columns'[i].key = columns'[j].key
      PROVE  i = j
  <2>1. (i \in 1..n \/ i = n + 1) /\ (j \in 1..n \/ j = n + 1)
    BY <1>3, <1>4
  <2> QED BY <1>1, <1>3, <1>4, <1>5, <2>1 DEF SuggestionInv
<1> QED BY <1>1, <1>4, <1>5 DEF SuggestionInv, Statement!ReadName

LEMMA DropColumnKeeps ==
    ASSUME SuggestionInv, NEW i \in DOMAIN columns, Statement!DropColumn(i)
    PROVE  SuggestionInv'
<1> DEFINE n == Len(columns)
<1>1. columns' = Cut(columns, i) /\ backend' = backend /\ table' = table
  BY DEF Statement!DropColumn, Cut
<1>2. n \in Nat /\ DOMAIN columns = 1..n /\ columns \in Seq(Shown)
  BY DEF SuggestionInv
<1> HIDE DEF n
<1>3. /\ columns' \in Seq(Shown) /\ Len(columns') = n - 1
      /\ \A p \in 1..(n - 1) : columns'[p] = IF p < i THEN columns[p] ELSE columns[p + 1]
  <2> HIDE DEF Shown
  <2> QED BY <1>1, <1>2, CutOut DEF n
<1>4. DOMAIN columns' = 1..(n - 1)
  <2> HIDE DEF Shown
  <2> QED BY <1>3
<1>5. ASSUME NEW j \in DOMAIN columns', NEW k \in DOMAIN columns', columns'[j].key = columns'[k].key
      PROVE  j = k
  <2> DEFINE J == IF j < i THEN j ELSE j + 1
             K == IF k < i THEN k ELSE k + 1
  <2>1. j \in 1..(n - 1) /\ k \in 1..(n - 1) /\ i \in 1..n
    BY <1>2, <1>4
  <2>2. J \in 1..n /\ K \in 1..n /\ (J = K => j = k)
    BY <1>2, <2>1
  <2>3. columns'[j] = columns[J] /\ columns'[k] = columns[K]
    BY <1>3, <2>1
  <2> HIDE DEF J, K
  <2> QED BY <1>2, <1>5, <2>2, <2>3 DEF SuggestionInv
<1> QED BY <1>1, <1>3, <1>5 DEF SuggestionInv, Statement!ReadName

LEMMA RenameColumnKeeps ==
    ASSUME SuggestionInv, NEW i \in DOMAIN columns, NEW new \in ColumnNames,
           Statement!RenameColumn(i, new)
    PROVE  SuggestionInv'
<1> DEFINE key == Statement!IdentKey(new)
           n == Len(columns)
<1>1. /\ key \notin {columns[j].key : j \in DOMAIN columns}
      /\ columns' = [columns EXCEPT ![i].key = key, ![i].display = key]
      /\ backend' = backend /\ table' = table
  BY DEF Statement!RenameColumn, Statement!Names
<1>2. key \in ColumnKeys
  BY DEF ColumnKeys
<1>3. n \in Nat /\ DOMAIN columns = 1..n /\ columns \in Seq(Shown) /\ \A j \in 1..n : columns[j] \in Shown
  BY DEF SuggestionInv
<1> HIDE DEF key, n
<1>4. /\ DOMAIN columns' = 1..n
      /\ \A j \in 1..n : j # i => columns'[j] = columns[j]
      /\ columns'[i] = [columns[i] EXCEPT !.key = key, !.display = key]
      /\ columns' = [j \in 1..n |-> columns'[j]]
  <2> HIDE DEF Shown
  <2> QED BY <1>1, <1>3
<1>5. columns'[i] \in Shown /\ columns'[i].key = key
  BY <1>2, <1>3, <1>4 DEF Shown
<1>6. columns' \in Seq(Shown)
  <2>1. \A j \in 1..n : columns'[j] \in Shown
    BY <1>3, <1>4, <1>5
  <2> HIDE DEF Shown
  <2>2. columns' \in [1..n -> Shown]
    BY <1>4, <2>1
  <2> QED BY <1>3, <2>2
<1>7. ASSUME NEW j \in DOMAIN columns', NEW k \in DOMAIN columns', columns'[j].key = columns'[k].key
      PROVE  j = k
  BY <1>1, <1>3, <1>4, <1>5, <1>7 DEF SuggestionInv
<1> QED BY <1>1, <1>6, <1>7 DEF SuggestionInv, Statement!ReadName

LEMMA InvSuggests ==
    ASSUME Statement!Suggestible, SuggestionInv
    PROVE  SuggestionIsTheTable
<1>1. Len(columns) \in Nat /\ DOMAIN columns = 1..Len(columns) /\ \A j \in DOMAIN columns : columns[j] \in Shown
  BY DEF SuggestionInv
<1>2. ASSUME NEW order \in Statement!Permutation(Len(columns)), NEW i \in DOMAIN order
      PROVE  /\ Statement!ReadName(Statement!Suggested(order)[i].name) = columns[order[i]].key
             /\ Statement!Suggested(order)[i].type = columns[order[i]].type
  <2> DEFINE j == order[i]
             display == columns[j].display
             shared == {k \in DOMAIN columns : columns[k].display = display}
             last == CHOOSE k \in shared : \A l \in shared : l <= k
             line == Statement!Suggested(order)[i]
  <2>1. j \in DOMAIN columns
    BY <1>1 DEF Statement!Permutation
  <2>2. line = [name |-> Statement!MaybeQuote(display), type |-> Statement!ReportOf(display).type]
    BY DEF Statement!Suggested
  <2>3. display = columns[j].key /\ display \in ColumnKeys
    BY <1>1, <2>1 DEF Shown
  <2>4. shared = {j}
    BY <1>1, <2>1 DEF Shown, SuggestionInv
  <2>5. last = j
    <3>1. j \in Int
      BY <1>1, <2>1
    <3>2. (CHOOSE k \in {j} : \A l \in {j} : l <= k) = j
      <4> HIDE DEF j
      <4> QED BY <3>1
    <3> HIDE DEF j, shared
    <3> QED BY <2>4, <3>2
  <2>6. Statement!ReportOf(display) = columns[last]
    BY DEF Statement!ReportOf
  <2> HIDE DEF display, last, shared, line, j
  <2>7. line.name = Statement!MaybeQuote(display) /\ line.type = columns[j].type
    BY <2>2, <2>5, <2>6
  <2> QED BY <2>3, <2>7, ColumnReadBack DEF line, j
<1>3. Statement!ReadName(table.display) = table.key
  BY DEF SuggestionInv
<1> QED BY <1>2, <1>3, Zenon DEF SuggestionIsTheTable, Statement!SuggestionIsTheTable

\* "rowdiet suggestion (column order only ...)" (render.rs:221): for tables of any number of
\* columns, renamed and dropped however often, and for names of any length with capitals, digits
\* and quotes in them, what is printed declares the same columns of the same table.
THEOREM SuggestionAlwaysTheTable ==
    ASSUME Statement!Suggestible
    PROVE  OutputsSpec => []SuggestionIsTheTable
<1>1. OutputsInit => SuggestionInv
  <2> SUFFICES ASSUME OutputsInit PROVE SuggestionInv
    OBVIOUS
  <2>1. /\ backend \in Backends /\ columns = << >>
        /\ \E ident \in TableNames :
              table = [key |-> Statement!IdentKey(ident), display |-> Statement!TableDisplay(ident)]
    BY DEF OutputsInit, Statement!Init
  <2>2. PICK ident \in TableNames :
            table = [key |-> Statement!IdentKey(ident), display |-> Statement!TableDisplay(ident)]
    BY <2>1
  <2>3. Statement!ReadName(table.display) = table.key
    BY <2>1, <2>2, TableReadBack
  <2>4. << >> \in Seq(Shown) /\ DOMAIN << >> = {}
    OBVIOUS
  <2> QED BY <2>1, <2>3, <2>4 DEF SuggestionInv
<1>2. SuggestionInv /\ [OutputsNext]_outputs => SuggestionInv'
  <2> SUFFICES ASSUME SuggestionInv, [OutputsNext]_outputs PROVE SuggestionInv'
    OBVIOUS
  <2>1. CASE Statement!Next
    <3>1. CASE \E ident \in ColumnNames, type \in Types : Statement!AddColumn(ident, type)
      BY <3>1, AddColumnKeeps
    <3>2. CASE \E i \in DOMAIN columns : Statement!DropColumn(i)
      BY <3>2, DropColumnKeeps
    <3>3. CASE \E i \in DOMAIN columns, new \in ColumnNames : Statement!RenameColumn(i, new)
      BY <3>3, RenameColumnKeeps
    <3>4. CASE \E new \in TableNames : Statement!RenameTable(new)
      <4>1. PICK new \in TableNames : Statement!RenameTable(new)
        BY <3>4
      <4>2. /\ table' = [key |-> Statement!IdentKey(new), display |-> Statement!TableDisplay(new)]
            /\ backend' = backend /\ columns' = columns
        BY <4>1 DEF Statement!RenameTable
      <4>3. Statement!ReadName(Statement!TableDisplay(new)) = Statement!IdentKey(new)
        BY TableReadBack DEF SuggestionInv
      <4>4. table'.key = Statement!IdentKey(new) /\ table'.display = Statement!TableDisplay(new)
        BY <4>2
      <4>5. Statement!ReadName(table'.display) = table'.key
        BY <4>3, <4>4, Zenon
      <4> QED BY <4>2, <4>5 DEF SuggestionInv, Statement!ReadName
    <3> QED BY <2>1, <3>1, <3>2, <3>3, <3>4 DEF Statement!Next
  <2>2. CASE UNCHANGED suggestion
    <3>1. backend' = backend /\ table' = table /\ columns' = columns
      BY <2>2 DEF suggestion
    <3> QED BY <3>1 DEF SuggestionInv, Statement!ReadName
  <2> QED BY <2>1, <2>2 DEF OutputsNext, NextLine, NextStatement, NextCall, outputs
<1>3. SuggestionInv => SuggestionIsTheTable
  BY InvSuggests
<1> QED BY <1>1, <1>2, <1>3, PTL DEF OutputsSpec

-----------------------------------------------------------------------------
(* Files: the order they are sorted in, and what the walk of a tree finds. *)

\* A comparison, as a function: of two elements each comes before or after the other or
\* they are one, and what comes before a third comes before what the third does.
Ordering(c, S) ==
    /\ c \in [S \X S -> {-1, 0, 1}]
    /\ \A x, y \in S : c[<< x, y >>] = 1 => c[<< y, x >>] = -1
    /\ \A x \in S : c[<< x, x >>] = 0
    /\ \A x, y \in S : c[<< x, y >>] = 0 => x = y
    /\ \A x, y, z \in S : c[<< x, y >>] = -1 /\ c[<< y, z >>] = -1 => c[<< x, z >>] = -1

\* The first difference decides, then the length.
LexBy(c, s, t) ==
    LET differ == {i \in DOMAIN s \cap DOMAIN t : s[i] # t[i]}
        first == CHOOSE i \in differ : \A j \in differ : i <= j
    IN  IF differ # {} THEN c[<< s[first], t[first] >>]
        ELSE IF Len(s) < Len(t) THEN -1 ELSE IF Len(s) > Len(t) THEN 1 ELSE 0

LexBelow(c, s, t) ==
    \E k \in 1..Len(t) :
        /\ \A i \in 1..(k - 1) : i <= Len(s) /\ s[i] = t[i]
        /\ k = Len(s) + 1 \/ (k <= Len(s) /\ c[<< s[k], t[k] >>] = -1)

LEMMA LexBelowTransitive ==
    ASSUME NEW S, NEW c, Ordering(c, S), NEW s \in Seq(S), NEW t \in Seq(S), NEW u \in Seq(S),
           LexBelow(c, s, t), LexBelow(c, t, u)
    PROVE  LexBelow(c, s, u)
<1>1. PICK k \in 1..Len(t) :
         /\ \A i \in 1..(k - 1) : i <= Len(s) /\ s[i] = t[i]
         /\ k = Len(s) + 1 \/ (k <= Len(s) /\ c[<< s[k], t[k] >>] = -1)
  BY DEF LexBelow
<1>2. PICK l \in 1..Len(u) :
         /\ \A i \in 1..(l - 1) : i <= Len(t) /\ t[i] = u[i]
         /\ l = Len(t) + 1 \/ (l <= Len(t) /\ c[<< t[l], u[l] >>] = -1)
  BY DEF LexBelow
<1>3. /\ Len(s) \in Nat /\ Len(t) \in Nat /\ Len(u) \in Nat
      /\ \A i \in 1..Len(s) : s[i] \in S
      /\ \A i \in 1..Len(t) : t[i] \in S
      /\ \A i \in 1..Len(u) : u[i] \in S
  OBVIOUS
<1>4. \A x, y, z \in S : c[<< x, y >>] = -1 /\ c[<< y, z >>] = -1 => c[<< x, z >>] = -1
  BY DEF Ordering
<1>5. CASE k < l
  <2>1. k \in 1..Len(u) /\ t[k] = u[k]
    BY <1>2, <1>3, <1>5
  <2>2. ASSUME NEW i \in 1..(k - 1) PROVE i <= Len(s) /\ s[i] = u[i]
    <3>1. i <= Len(s) /\ s[i] = t[i]
      BY <1>1
    <3>2. i \in 1..(l - 1)
      BY <1>5
    <3>3. t[i] = u[i]
      BY <1>2, <3>2
    <3> QED BY <3>1, <3>3
  <2>3. k = Len(s) + 1 \/ (k <= Len(s) /\ c[<< s[k], u[k] >>] = -1)
    BY <1>1, <2>1
  <2> QED BY <2>1, <2>2, <2>3 DEF LexBelow
<1>6. CASE k = l
  <2>1. ASSUME NEW i \in 1..(l - 1) PROVE i <= Len(s) /\ s[i] = u[i]
    <3>1. i <= Len(s) /\ s[i] = t[i]
      BY <1>1, <1>6
    <3>2. t[i] = u[i]
      BY <1>2
    <3> QED BY <3>1, <3>2
  <2>2. l = Len(s) + 1 \/ (l <= Len(s) /\ c[<< s[l], u[l] >>] = -1)
    <3>1. l <= Len(t) /\ c[<< t[l], u[l] >>] = -1
      BY <1>2, <1>3, <1>6
    <3>2. CASE l <= Len(s) /\ c[<< s[l], t[l] >>] = -1
      <4>1. s[l] \in S /\ t[l] \in S /\ u[l] \in S
        BY <1>2, <1>3, <3>1, <3>2
      <4> QED BY <1>4, <3>1, <3>2, <4>1
    <3> QED BY <1>1, <1>6, <3>2
  <2> QED BY <2>1, <2>2 DEF LexBelow
<1>7. CASE k > l
  <2>1. l \in 1..(k - 1) /\ l <= Len(s) /\ s[l] = t[l] /\ l <= Len(t) /\ l # Len(t) + 1
    BY <1>1, <1>2, <1>3, <1>7
  <2>2. ASSUME NEW i \in 1..(l - 1) PROVE i <= Len(s) /\ s[i] = u[i]
    <3>1. i \in 1..(k - 1)
      BY <1>7
    <3>2. i <= Len(s) /\ s[i] = t[i]
      BY <1>1, <3>1
    <3>3. t[i] = u[i]
      BY <1>2
    <3> QED BY <3>2, <3>3
  <2>3. c[<< s[l], u[l] >>] = -1
    BY <1>2, <2>1
  <2> QED BY <2>1, <2>2, <2>3 DEF LexBelow
<1> QED BY <1>1, <1>2, <1>3, <1>5, <1>6, <1>7

LEMMA LexBelowIrreflexive ==
    ASSUME NEW S, NEW c, Ordering(c, S), NEW s \in Seq(S)
    PROVE  ~LexBelow(c, s, s)
<1> SUFFICES ASSUME LexBelow(c, s, s) PROVE FALSE
  OBVIOUS
<1>1. Len(s) \in Nat /\ \A i \in 1..Len(s) : s[i] \in S
  OBVIOUS
<1>2. PICK k \in 1..Len(s) : k = Len(s) + 1 \/ c[<< s[k], s[k] >>] = -1
  BY DEF LexBelow
<1>3. c[<< s[k], s[k] >>] = -1 /\ s[k] \in S
  BY <1>1, <1>2
<1>4. c[<< s[k], s[k] >>] = 0
  BY <1>3 DEF Ordering
<1>5. -1 # 0
  OBVIOUS
<1> QED BY <1>3, <1>4, <1>5, Zenon

LEMMA LexByDecides ==
    ASSUME NEW S, NEW c, Ordering(c, S), NEW s \in Seq(S), NEW t \in Seq(S)
    PROVE  /\ LexBy(c, s, t) \in {-1, 0, 1}
           /\ LexBy(c, s, t) = -1 => LexBelow(c, s, t)
           /\ LexBy(c, s, t) = 1 => LexBelow(c, t, s)
           /\ LexBy(c, s, t) = 0 => s = t
<1> DEFINE differ == {i \in DOMAIN s \cap DOMAIN t : s[i] # t[i]}
           first == CHOOSE i \in differ : \A j \in differ : i <= j
           o == LexBy(c, s, t)
<1>1. /\ Len(s) \in Nat /\ Len(t) \in Nat /\ DOMAIN s = 1..Len(s) /\ DOMAIN t = 1..Len(t)
      /\ s = [i \in 1..Len(s) |-> s[i]] /\ t = [i \in 1..Len(t) |-> t[i]]
      /\ \A i \in 1..Len(s) : s[i] \in S
      /\ \A i \in 1..Len(t) : t[i] \in S
  OBVIOUS
<1>2. CASE differ # {}
  <2>1. differ \in SUBSET Nat
    BY <1>1
  <2>2. \E i \in differ : \A j \in differ : i <= j
    <3> HIDE DEF differ
    <3> QED BY <1>2, <2>1, LeastNumber
  <2>3. first \in differ /\ \A j \in differ : first <= j
    <3> HIDE DEF differ
    <3> QED BY <2>2
  <2>4. o = c[<< s[first], t[first] >>]
    BY <1>2 DEF LexBy
  <2> HIDE DEF o, first
  <2>5. first \in 1..Len(s) /\ first \in 1..Len(t) /\ s[first] # t[first]
    BY <1>1, <2>3
  <2>6. \A i \in 1..(first - 1) : i <= Len(s) /\ i <= Len(t) /\ s[i] = t[i]
    <3> TAKE i \in 1..(first - 1)
    <3>1. i \in DOMAIN s \cap DOMAIN t /\ ~(first <= i)
      BY <1>1, <2>5
    <3>2. s[i] = t[i]
      BY <2>3, <3>1
    <3> QED BY <1>1, <3>1, <3>2
  <2>7. s[first] \in S /\ t[first] \in S
    BY <1>1, <2>5
  <2> HIDE DEF differ
  <2>8. o \in {-1, 0, 1} /\ o # 0
    BY <2>4, <2>5, <2>7 DEF Ordering
  <2>9. o = -1 => LexBelow(c, s, t)
    <3> SUFFICES ASSUME o = -1 PROVE LexBelow(c, s, t)
      OBVIOUS
    <3>1. first <= Len(s) /\ c[<< s[first], t[first] >>] = -1
      BY <1>1, <2>4, <2>5
    <3> QED BY <2>5, <2>6, <3>1, Zenon DEF LexBelow
  <2>10. o = 1 => LexBelow(c, t, s)
    <3> SUFFICES ASSUME o = 1 PROVE LexBelow(c, t, s)
      OBVIOUS
    <3>1. c[<< t[first], s[first] >>] = -1
      BY <2>4, <2>7 DEF Ordering
    <3>2. first <= Len(t) /\ \A i \in 1..(first - 1) : i <= Len(t) /\ t[i] = s[i]
      BY <1>1, <2>5, <2>6
    <3> QED BY <2>5, <3>1, <3>2, Zenon DEF LexBelow
  <2> QED BY <2>8, <2>9, <2>10 DEF o
<1>3. CASE differ = {}
  <2>1. \A i \in 1..Len(s) : i <= Len(t) => s[i] = t[i]
    BY <1>1, <1>3
  <2>2. o = IF Len(s) < Len(t) THEN -1 ELSE IF Len(s) > Len(t) THEN 1 ELSE 0
    BY <1>3 DEF LexBy
  <2> HIDE DEF o
  <2>3. o \in {-1, 0, 1}
    BY <2>2
  <2>4. ASSUME o = -1 PROVE LexBelow(c, s, t)
    <3>1. Len(s) < Len(t)
      BY <2>2, <2>4
    <3>2. Len(s) + 1 \in 1..Len(t) /\ \A i \in 1..(Len(s) + 1 - 1) : i <= Len(s) /\ s[i] = t[i]
      BY <1>1, <2>1, <3>1
    <3> QED BY <3>2 DEF LexBelow
  <2>5. ASSUME o = 1 PROVE LexBelow(c, t, s)
    <3>1. Len(t) < Len(s)
      BY <1>1, <2>2, <2>5
    <3>2. Len(t) + 1 \in 1..Len(s) /\ \A i \in 1..(Len(t) + 1 - 1) : i <= Len(t) /\ t[i] = s[i]
      BY <1>1, <2>1, <3>1
    <3> QED BY <3>2 DEF LexBelow
  <2>6. ASSUME o = 0 PROVE s = t
    <3>1. ~(Len(s) < Len(t)) /\ ~(Len(s) > Len(t))
      <4>1. -1 # 0 /\ 1 # 0
        OBVIOUS
      <4> QED BY <2>2, <2>6, <4>1, Zenon
    <3>3. Len(s) = Len(t)
      <4>1. \A m, n \in Nat : ~(m < n) /\ ~(m > n) => m = n
        OBVIOUS
      <4> QED BY <1>1, <3>1, <4>1, Zenon
    <3>2. \A i \in 1..Len(s) : s[i] = t[i]
      BY <1>1, <2>1, <3>3
    <3> QED BY <1>1, <3>2, <3>3
  <2> QED BY <2>3, <2>4, <2>5, <2>6 DEF o
<1> QED BY <1>2, <1>3

\* What is ordered by its first difference is ordered.
LEMMA LexByOrders ==
    ASSUME NEW S, NEW c, Ordering(c, S)
    PROVE  Ordering([pair \in Seq(S) \X Seq(S) |-> LexBy(c, pair[1], pair[2])], Seq(S))
<1> DEFINE T == Seq(S)
           o == [pair \in T \X T |-> LexBy(c, pair[1], pair[2])]
<1>1. \A s, t \in T : o[<< s, t >>] = LexBy(c, s, t)
  OBVIOUS
<1>2. \A s, t \in T :
         /\ LexBy(c, s, t) \in {-1, 0, 1}
         /\ LexBy(c, s, t) = -1 => LexBelow(c, s, t)
         /\ LexBy(c, s, t) = 1 => LexBelow(c, t, s)
         /\ LexBy(c, s, t) = 0 => s = t
  BY LexByDecides
<1>3. \A s \in T : ~LexBelow(c, s, s)
  BY LexBelowIrreflexive
<1>4. \A s, t, u \in T : LexBelow(c, s, t) /\ LexBelow(c, t, u) => LexBelow(c, s, u)
  BY LexBelowTransitive
<1>5. \A s, t \in T : LexBelow(c, s, t) => LexBy(c, s, t) = -1
  <2> TAKE s, t \in T
  <2> SUFFICES ASSUME LexBelow(c, s, t) PROVE LexBy(c, s, t) = -1
    OBVIOUS
  <2>1. LexBy(c, s, t) # 1
    BY <1>2, <1>3, <1>4, Zenon
  <2>2. LexBy(c, s, t) # 0
    BY <1>2, <1>3, Zenon
  <2>3. LexBy(c, s, t) \in {-1, 0, 1}
    BY <1>2
  <2> QED BY <2>1, <2>2, <2>3
<1>6. o \in [T \X T -> {-1, 0, 1}]
  <2>1. \A pair \in T \X T : LexBy(c, pair[1], pair[2]) \in {-1, 0, 1}
    BY <1>2
  <2> QED BY <2>1
<1> HIDE DEF o, T
<1>7. \A x, y \in T : o[<< x, y >>] = 1 => o[<< y, x >>] = -1
  <2> TAKE x, y \in T
  <2>1. LexBy(c, x, y) = 1 => LexBelow(c, y, x)
    BY <1>2
  <2>2. LexBelow(c, y, x) => LexBy(c, y, x) = -1
    BY <1>5
  <2> QED BY <1>1, <2>1, <2>2
<1>8. \A x \in T : o[<< x, x >>] = 0
  <2> TAKE x \in T
  <2>1. LexBy(c, x, x) \in {-1, 0, 1} /\ LexBy(c, x, x) # -1 /\ LexBy(c, x, x) # 1
    BY <1>2, <1>3
  <2> QED BY <1>1, <2>1
<1>9. \A x, y \in T : o[<< x, y >>] = 0 => x = y
  BY <1>1, <1>2, Zenon
<1>10. \A x, y, z \in T : o[<< x, y >>] = -1 /\ o[<< y, z >>] = -1 => o[<< x, z >>] = -1
  <2> TAKE x, y, z \in T
  <2> SUFFICES ASSUME o[<< x, y >>] = -1, o[<< y, z >>] = -1 PROVE o[<< x, z >>] = -1
    OBVIOUS
  <2>1. LexBelow(c, x, y) /\ LexBelow(c, y, z)
    BY <1>1, <1>2, Zenon
  <2>2. LexBelow(c, x, z)
    BY <1>4, <2>1, Zenon
  <2> QED BY <1>1, <1>5, <2>2, Zenon
<1>11. Ordering(o, T)
  BY <1>6, <1>7, <1>8, <1>9, <1>10, Zenon DEF Ordering
<1> QED BY <1>11 DEF o, T

IntOrder ==
    [pair \in Int \X Int |->
        IF pair[1] < pair[2] THEN -1 ELSE IF pair[1] > pair[2] THEN 1 ELSE 0]

LEMMA IntOrdered == Ordering(IntOrder, Int)
<1>1. \A x, y \in Int :
          IntOrder[<< x, y >>] = IF x < y THEN -1 ELSE IF x > y THEN 1 ELSE 0
  BY DEF IntOrder
<1>2. IntOrder \in [Int \X Int -> {-1, 0, 1}]
  BY DEF IntOrder
<1> QED BY <1>1, <1>2 DEF Ordering

NumbersOrder == [pair \in Seq(Int) \X Seq(Int) |-> LexOrder(pair[1], pair[2])]

LEMMA NumbersOrdered == Ordering(NumbersOrder, Seq(Int))
<1>1. \A s, t \in Seq(Int) : LexOrder(s, t) = LexBy(IntOrder, s, t)
  <2> TAKE s, t \in Seq(Int)
  <2> DEFINE differ == {i \in DOMAIN s \cap DOMAIN t : s[i] # t[i]}
             first == CHOOSE i \in differ : \A j \in differ : i <= j
  <2>1. CASE differ # {}
    <3>1. \E i \in differ : \A j \in differ : i <= j
      <4>1. differ \in SUBSET Nat
        OBVIOUS
      <4> HIDE DEF differ
      <4> QED BY <2>1, <4>1, LeastNumber
    <3>2. first \in differ
      <4> HIDE DEF differ
      <4> QED BY <3>1
    <3> DEFINE x == s[first]
               y == t[first]
    <3>3. x \in Int /\ y \in Int /\ x # y
      <4>1. first \in DOMAIN s /\ first \in DOMAIN t /\ x # y
        BY <3>2
      <4> HIDE DEF first, differ
      <4> QED BY <4>1
    <3>4. LexOrder(s, t) = IF x < y THEN -1 ELSE 1
      BY <2>1 DEF LexOrder
    <3>5. LexBy(IntOrder, s, t) = IntOrder[<< x, y >>]
      BY <2>1 DEF LexBy
    <3> HIDE DEF x, y
    <3>6. IntOrder[<< x, y >>] = IF x < y THEN -1 ELSE 1
      BY <3>3 DEF IntOrder
    <3> QED BY <3>4, <3>5, <3>6
  <2>2. CASE differ = {}
    BY <2>2, Zenon DEF LexOrder, LexBy
  <2> QED BY <2>1, <2>2
<1>2. NumbersOrder = [pair \in Seq(Int) \X Seq(Int) |-> LexBy(IntOrder, pair[1], pair[2])]
  <2>1. \A pair \in Seq(Int) \X Seq(Int) : pair[1] \in Seq(Int) /\ pair[2] \in Seq(Int)
    OBVIOUS
  <2> QED BY <1>1, <2>1 DEF NumbersOrder
<1> QED BY <1>2, IntOrdered, LexByOrders

\* Elements of T in the order of what f makes of them.
Imaged(c, f, T) == [pair \in T \X T |-> c[<< f[pair[1]], f[pair[2]] >>]]

\* An order of what is told apart is an order.
LEMMA ImageOrders ==
    ASSUME NEW S, NEW c, Ordering(c, S), NEW T, NEW f \in [T -> S],
           \A x, y \in T : f[x] = f[y] => x = y
    PROVE  Ordering(Imaged(c, f, T), T)
<1> DEFINE o == Imaged(c, f, T)
<1>1. \A x, y \in T : o[<< x, y >>] = c[<< f[x], f[y] >>]
  BY DEF Imaged
<1>2. \A x \in T : f[x] \in S
  OBVIOUS
<1>3. o \in [T \X T -> {-1, 0, 1}]
  <2>1. \A pair \in T \X T : c[<< f[pair[1]], f[pair[2]] >>] \in {-1, 0, 1}
    BY <1>2 DEF Ordering
  <2> QED BY <2>1 DEF Imaged
<1> HIDE DEF o
<1>4. /\ \A x, y \in S : c[<< x, y >>] = 1 => c[<< y, x >>] = -1
      /\ \A x \in S : c[<< x, x >>] = 0
      /\ \A x, y \in S : c[<< x, y >>] = 0 => x = y
      /\ \A x, y, z \in S : c[<< x, y >>] = -1 /\ c[<< y, z >>] = -1 => c[<< x, z >>] = -1
  BY Zenon DEF Ordering
<1>5. \A x, y \in T : /\ o[<< x, y >>] = 1 => o[<< y, x >>] = -1
                      /\ o[<< x, y >>] = 0 => x = y
                      /\ o[<< x, x >>] = 0
  <2> TAKE x, y \in T
  <2>1. f[x] \in S /\ f[y] \in S
    BY <1>2
  <2>2. /\ o[<< x, y >>] = c[<< f[x], f[y] >>] /\ o[<< y, x >>] = c[<< f[y], f[x] >>]
        /\ o[<< x, x >>] = c[<< f[x], f[x] >>]
    BY <1>1
  <2>3. /\ c[<< f[x], f[y] >>] = 1 => c[<< f[y], f[x] >>] = -1
        /\ c[<< f[x], f[x] >>] = 0
        /\ c[<< f[x], f[y] >>] = 0 => f[x] = f[y]
    BY <1>4, <2>1, Zenon
  <2> QED BY <2>2, <2>3, Zenon
<1>7. \A x, y, z \in T : o[<< x, y >>] = -1 /\ o[<< y, z >>] = -1 => o[<< x, z >>] = -1
  <2> TAKE x, y, z \in T
  <2>1. f[x] \in S /\ f[y] \in S /\ f[z] \in S
    BY <1>2
  <2>2. /\ o[<< x, y >>] = c[<< f[x], f[y] >>] /\ o[<< y, z >>] = c[<< f[y], f[z] >>]
        /\ o[<< x, z >>] = c[<< f[x], f[z] >>]
    BY <1>1
  <2>3. c[<< f[x], f[y] >>] = -1 /\ c[<< f[y], f[z] >>] = -1 => c[<< f[x], f[z] >>] = -1
    BY <1>4, <2>1, Zenon
  <2> QED BY <2>2, <2>3, Zenon
<1>8. Ordering(o, T)
  BY <1>3, <1>5, <1>7, Zenon DEF Ordering
<1> QED BY <1>8 DEF o

Texts == Seq(Letters)

TextsOrder == [pair \in Texts \X Texts |-> TextOrder(pair[1], pair[2])]

LEMMA TextsOrdered == Ordering(TextsOrder, Texts)
<1> DEFINE bytes(txt) == [i \in DOMAIN txt |-> Byte(txt[i])]
           f == [txt \in Texts |-> bytes(txt)]
<1>1. \A txt \in Texts : f[txt] = bytes(txt)
  OBVIOUS
<1>2. \A txt \in Texts : bytes(txt) \in Seq(Int)
  <2> TAKE txt \in Texts
  <2>1. DOMAIN txt = 1..Len(txt) /\ Len(txt) \in Nat /\ \A i \in DOMAIN txt : txt[i] \in Letters
    BY DEF Texts
  <2>2. \A i \in DOMAIN txt : Byte(txt[i]) \in Int
    BY <2>1, BytesDiffer
  <2> QED BY <2>1, <2>2
<1>3. f \in [Texts -> Seq(Int)]
  BY <1>2
<1>4. \A s, t \in Texts : f[s] = f[t] => s = t
  <2> TAKE s, t \in Texts
  <2> SUFFICES ASSUME bytes(s) = bytes(t) PROVE s = t
    BY <1>1
  <2>1. /\ s = [i \in DOMAIN s |-> s[i]] /\ \A i \in DOMAIN s : s[i] \in Letters
        /\ t = [i \in DOMAIN t |-> t[i]] /\ \A i \in DOMAIN t : t[i] \in Letters
    BY DEF Texts
  <2>2. DOMAIN s = DOMAIN t
    OBVIOUS
  <2>3. \A i \in DOMAIN s : Byte(s[i]) = Byte(t[i])
    BY <2>2
  <2>4. \A i \in DOMAIN s : s[i] = t[i]
    BY <2>1, <2>2, <2>3, BytesDiffer
  <2> QED BY <2>1, <2>2, <2>4
<1>5. TextsOrder = Imaged(NumbersOrder, f, Texts)
  <2>1. \A pair \in Texts \X Texts :
           TextOrder(pair[1], pair[2]) = NumbersOrder[<< f[pair[1]], f[pair[2]] >>]
    <3> TAKE pair \in Texts \X Texts
    <3>1. pair[1] \in Texts /\ pair[2] \in Texts
      OBVIOUS
    <3> DEFINE s == bytes(pair[1])
               t == bytes(pair[2])
    <3>2. f[pair[1]] = s /\ f[pair[2]] = t /\ s \in Seq(Int) /\ t \in Seq(Int)
      BY <1>1, <1>2, <3>1
    <3>3. TextOrder(pair[1], pair[2]) = LexOrder(s, t)
      BY DEF TextOrder
    <3> HIDE DEF s, t, f
    <3>4. NumbersOrder[<< s, t >>] = LexOrder(s, t)
      BY <3>2 DEF NumbersOrder
    <3> QED BY <3>2, <3>3, <3>4
  <2> HIDE DEF f
  <2> QED BY <2>1 DEF TextsOrder, Imaged
<1> HIDE DEF f
<1>6. Ordering(Imaged(NumbersOrder, f, Texts), Texts)
  BY <1>3, <1>4, NumbersOrdered, ImageOrders
<1> QED BY <1>5, <1>6, Zenon

\* A version is a sequence of numbers.
LEMMA VersionTyped ==
    ASSUME NEW name \in Texts, MaxSegment \in Nat
    PROVE  ParseVersion(name) \in Seq(Int)
<1>1. IndexedName(name)
  BY TextIndexed DEF Texts, IsText
<1>2. LimitedAlike(MaxSegment, SegmentsUpTo(name, MaxSegment), SegmentsUpTo(name, MaxSegment))
  BY <1>1, VersionsAlike
<1>3. SegmentsUpTo(name, MaxSegment) \in Seq(Nat)
  BY <1>2 DEF LimitedAlike
<1>4. \A s \in Seq(Nat) : s \in Seq(Int)
  OBVIOUS
<1> QED BY <1>3, <1>4 DEF ParseVersion

\* By what f makes of the elements of T, and where that is one, by what g does.
Thened(c, f, d, g, T) ==
    [pair \in T \X T |->
        ThenWith(c[<< f[pair[1]], f[pair[2]] >>], d[<< g[pair[1]], g[pair[2]] >>])]

LEMMA ThenOrders ==
    ASSUME NEW R, NEW c, Ordering(c, R), NEW S, NEW d, Ordering(d, S),
           NEW T, NEW f \in [T -> R], NEW g \in [T -> S],
           \A x, y \in T : f[x] = f[y] /\ g[x] = g[y] => x = y
    PROVE  Ordering(Thened(c, f, d, g, T), T)
<1> DEFINE o == Thened(c, f, d, g, T)
           C(x, y) == c[<< f[x], f[y] >>]
           D(x, y) == d[<< g[x], g[y] >>]
<1>1. \A x, y \in T : o[<< x, y >>] = ThenWith(C(x, y), D(x, y))
  BY DEF Thened
<1>2. \A x \in T : f[x] \in R /\ g[x] \in S
  OBVIOUS
<1>3. /\ \A x, y \in R : c[<< x, y >>] \in {-1, 0, 1}
      /\ \A x, y \in R : c[<< x, y >>] = 1 => c[<< y, x >>] = -1
      /\ \A x \in R : c[<< x, x >>] = 0
      /\ \A x, y \in R : c[<< x, y >>] = 0 => x = y
      /\ \A x, y, z \in R : c[<< x, y >>] = -1 /\ c[<< y, z >>] = -1 => c[<< x, z >>] = -1
  <2>1. c \in [R \X R -> {-1, 0, 1}]
    BY Zenon DEF Ordering
  <2>2. \A x, y \in R : c[<< x, y >>] \in {-1, 0, 1}
    BY <2>1
  <2> QED BY <2>2, Zenon DEF Ordering
<1>4. /\ \A x, y \in S : d[<< x, y >>] \in {-1, 0, 1}
      /\ \A x, y \in S : d[<< x, y >>] = 1 => d[<< y, x >>] = -1
      /\ \A x \in S : d[<< x, x >>] = 0
      /\ \A x, y \in S : d[<< x, y >>] = 0 => x = y
      /\ \A x, y, z \in S : d[<< x, y >>] = -1 /\ d[<< y, z >>] = -1 => d[<< x, z >>] = -1
  <2>1. d \in [S \X S -> {-1, 0, 1}]
    BY Zenon DEF Ordering
  <2>2. \A x, y \in S : d[<< x, y >>] \in {-1, 0, 1}
    BY <2>1
  <2> QED BY <2>2, Zenon DEF Ordering
<1>5. \A x, y \in T :
         /\ C(x, y) \in {-1, 0, 1} /\ C(x, x) = 0
         /\ C(x, y) = 1 => C(y, x) = -1
         /\ C(x, y) = 0 => f[x] = f[y]
  BY <1>2, <1>3, Zenon
<1>6. \A x, y \in T :
         /\ D(x, y) \in {-1, 0, 1} /\ D(x, x) = 0
         /\ D(x, y) = 1 => D(y, x) = -1
         /\ D(x, y) = 0 => g[x] = g[y]
  BY <1>2, <1>4, Zenon
<1>7. \A x, y, z \in T :
         /\ C(x, y) = -1 /\ C(y, z) = -1 => C(x, z) = -1
         /\ D(x, y) = -1 /\ D(y, z) = -1 => D(x, z) = -1
         /\ f[x] = f[y] => C(x, z) = C(y, z) /\ C(z, x) = C(z, y)
  <2> TAKE x, y, z \in T
  <2>1. f[x] \in R /\ f[y] \in R /\ f[z] \in R /\ g[x] \in S /\ g[y] \in S /\ g[z] \in S
    BY <1>2, Zenon
  <2>2. C(x, y) = -1 /\ C(y, z) = -1 => C(x, z) = -1
    BY <1>3, <2>1, Zenon
  <2>3. D(x, y) = -1 /\ D(y, z) = -1 => D(x, z) = -1
    BY <1>4, <2>1, Zenon
  <2> QED BY <2>2, <2>3, Zenon
<1>8. -1 # 0 /\ 1 # 0 /\ -1 # 1
  OBVIOUS
<1>9. o \in [T \X T -> {-1, 0, 1}]
  <2>1. \A pair \in T \X T :
            ThenWith(c[<< f[pair[1]], f[pair[2]] >>], d[<< g[pair[1]], g[pair[2]] >>])
                \in {-1, 0, 1}
    <3> TAKE pair \in T \X T
    <3>1. pair[1] \in T /\ pair[2] \in T
      OBVIOUS
    <3>2. C(pair[1], pair[2]) \in {-1, 0, 1} /\ D(pair[1], pair[2]) \in {-1, 0, 1}
      BY <1>5, <1>6, <3>1, Zenon
    <3> QED BY <3>2, Zenon DEF ThenWith
  <2> QED BY <2>1 DEF Thened
<1> HIDE DEF o, C, D
<1>10. \A x, y \in T : o[<< x, y >>] = IF C(x, y) # 0 THEN C(x, y) ELSE D(x, y)
  BY <1>1, Zenon DEF ThenWith
<1>11. \A x, y \in T : o[<< x, y >>] = 1 => o[<< y, x >>] = -1
  <2> TAKE x, y \in T
  <2>1. C(x, y) = 0 => C(y, x) = 0
    <3>1. C(x, y) = 0 => f[x] = f[y]
      BY <1>5, Zenon
    <3>2. f[x] = f[y] => C(x, x) = C(y, x)
      BY <1>7, Zenon
    <3>3. C(x, x) = 0
      BY <1>5, Zenon
    <3> QED BY <3>1, <3>2, <3>3, Zenon
  <2>2. /\ C(x, y) = 1 => C(y, x) = -1
        /\ D(x, y) = 1 => D(y, x) = -1
    BY <1>5, <1>6, Zenon
  <2>3. /\ o[<< x, y >>] = IF C(x, y) # 0 THEN C(x, y) ELSE D(x, y)
        /\ o[<< y, x >>] = IF C(y, x) # 0 THEN C(y, x) ELSE D(y, x)
    BY <1>10, Zenon
  <2> QED BY <1>8, <2>1, <2>2, <2>3, Zenon
<1>12. \A x \in T : o[<< x, x >>] = 0
  <2> TAKE x \in T
  <2>1. C(x, x) = 0 /\ D(x, x) = 0
    BY <1>5, <1>6, Zenon
  <2>2. o[<< x, x >>] = IF C(x, x) # 0 THEN C(x, x) ELSE D(x, x)
    BY <1>10, Zenon
  <2> QED BY <2>1, <2>2, Zenon
<1>13. \A x, y \in T : o[<< x, y >>] = 0 => x = y
  <2> TAKE x, y \in T
  <2>1. o[<< x, y >>] = 0 => C(x, y) = 0 /\ D(x, y) = 0
    BY <1>10, Zenon
  <2> QED BY <1>5, <1>6, <2>1, Zenon
<1>14. \A x, y, z \in T : o[<< x, y >>] = -1 /\ o[<< y, z >>] = -1 => o[<< x, z >>] = -1
  <2> TAKE x, y, z \in T
  <2>1. /\ o[<< x, y >>] = IF C(x, y) # 0 THEN C(x, y) ELSE D(x, y)
        /\ o[<< y, z >>] = IF C(y, z) # 0 THEN C(y, z) ELSE D(y, z)
        /\ o[<< x, z >>] = IF C(x, z) # 0 THEN C(x, z) ELSE D(x, z)
    BY <1>10, Zenon
  <2>2. C(x, y) = 0 => C(x, z) = C(y, z)
    <3>1. C(x, y) = 0 => f[x] = f[y]
      BY <1>5, Zenon
    <3>2. f[x] = f[y] => C(x, z) = C(y, z)
      BY <1>7, Zenon
    <3> QED BY <3>1, <3>2, Zenon
  <2>3. C(y, z) = 0 => C(x, z) = C(x, y)
    <3>1. C(y, z) = 0 => f[y] = f[z]
      BY <1>5, Zenon
    <3>2. f[y] = f[z] => C(x, y) = C(x, z)
      BY <1>7, Zenon
    <3> QED BY <3>1, <3>2, Zenon
  <2>4. /\ C(x, y) = -1 /\ C(y, z) = -1 => C(x, z) = -1
        /\ D(x, y) = -1 /\ D(y, z) = -1 => D(x, z) = -1
    BY <1>7, Zenon
  <2> QED BY <1>8, <2>1, <2>2, <2>3, <2>4, Zenon
<1>15. Ordering(o, T)
  BY <1>9, <1>11, <1>12, <1>13, <1>14, Zenon DEF Ordering
<1> QED BY <1>15 DEF o

-----------------------------------------------------------------------------

Compares == [pair \in Texts \X Texts |-> Compare(pair[1], pair[2])]

LEMMA ComparesOrdered ==
    ASSUME MaxSegment \in Nat
    PROVE  Ordering(Compares, Texts)
<1> DEFINE self == [txt \in Texts |-> txt]
           version == [txt \in Texts |-> ParseVersion(txt)]
           rank == [txt \in Texts |-> << IF ParseVersion(txt) = Unversioned THEN 1 ELSE 0 >>]
           inner == Thened(NumbersOrder, version, TextsOrder, self, Texts)
           outer == Thened(NumbersOrder, rank, inner, self, Texts)
<1>1. self \in [Texts -> Texts] /\ \A s \in Texts : self[s] = s
  OBVIOUS
<1>2. version \in [Texts -> Seq(Int)] /\ \A s \in Texts : version[s] = ParseVersion(s)
  BY VersionTyped
<1>3. rank \in [Texts -> Seq(Int)]
  OBVIOUS
<1>4. \A s \in Texts : rank[s] = << IF ParseVersion(s) = Unversioned THEN 1 ELSE 0 >>
  OBVIOUS
<1> HIDE DEF self, version, rank
<1>5. Ordering(inner, Texts)
  <2>1. \A s, t \in Texts : version[s] = version[t] /\ self[s] = self[t] => s = t
    BY <1>1, Zenon
  <2>2. version \in [Texts -> Seq(Int)] /\ self \in [Texts -> Texts]
    BY <1>1, <1>2
  <2> QED BY <2>1, <2>2, NumbersOrdered, TextsOrdered, ThenOrders, Zenon
<1>6. \A s, t \in Texts :
         inner[<< s, t >>] = ThenWith(LexOrder(ParseVersion(s), ParseVersion(t)), TextOrder(s, t))
  <2> TAKE s, t \in Texts
  <2>1. inner[<< s, t >>] =
           ThenWith(NumbersOrder[<< version[s], version[t] >>], TextsOrder[<< self[s], self[t] >>])
    BY DEF Thened
  <2>2. version[s] \in Seq(Int) /\ version[t] \in Seq(Int)
    BY <1>2
  <2>3. NumbersOrder[<< version[s], version[t] >>] = LexOrder(version[s], version[t])
    BY <2>2 DEF NumbersOrder
  <2>4. TextsOrder[<< s, t >>] = TextOrder(s, t)
    BY DEF TextsOrder
  <2> QED BY <1>1, <1>2, <2>1, <2>3, <2>4
<1> HIDE DEF inner
<1>7. Ordering(outer, Texts)
  <2>1. \A s, t \in Texts : rank[s] = rank[t] /\ self[s] = self[t] => s = t
    BY <1>1, Zenon
  <2>2. rank \in [Texts -> Seq(Int)] /\ self \in [Texts -> Texts]
    BY <1>1, <1>3
  <2> QED BY <1>5, <2>1, <2>2, NumbersOrdered, ThenOrders, Zenon
<1>8. \A s, t \in Texts : outer[<< s, t >>] = Compare(s, t)
  <2> TAKE s, t \in Texts
  <2>1. outer[<< s, t >>] =
           ThenWith(NumbersOrder[<< rank[s], rank[t] >>], inner[<< self[s], self[t] >>])
    BY DEF Thened
  <2>2. rank[s] \in Seq(Int) /\ rank[t] \in Seq(Int)
    BY <1>3
  <2>3. NumbersOrder[<< rank[s], rank[t] >>] = LexOrder(rank[s], rank[t])
    BY <2>2 DEF NumbersOrder
  <2>4. outer[<< s, t >>] =
           ThenWith(LexOrder(rank[s], rank[t]),
                    ThenWith(LexOrder(ParseVersion(s), ParseVersion(t)), TextOrder(s, t)))
    BY <1>1, <1>6, <2>1, <2>3
  <2> DEFINE k == SortKey(s)
             l == SortKey(t)
  <2>5. /\ k.rank = IF ParseVersion(s) = Unversioned THEN 1 ELSE 0
        /\ k.segments = ParseVersion(s) /\ k.name = s
        /\ l.rank = IF ParseVersion(t) = Unversioned THEN 1 ELSE 0
        /\ l.segments = ParseVersion(t) /\ l.name = t
    BY DEF SortKey
  <2>6. rank[s] = << k.rank >> /\ rank[t] = << l.rank >>
    BY <1>4, <2>5
  <2> HIDE DEF k, l
  <2>7. KeyOrder(k, l) = outer[<< s, t >>]
    BY <2>4, <2>5, <2>6, Zenon DEF KeyOrder
  <2> QED BY <2>7, KeysCompare DEF k, l
<1>9. outer = Compares
  <2>1. \A pair \in Texts \X Texts : outer[pair] = Compare(pair[1], pair[2])
    <3> HIDE DEF outer
    <3> QED BY <1>8
  <2>2. outer = [pair \in Texts \X Texts |-> outer[pair]]
    BY DEF Thened
  <2> HIDE DEF outer
  <2> QED BY <2>1, <2>2 DEF Compares
<1> QED BY <1>7, <1>9

\* The comparisons of CollectFiles are those of the names.
LEMMA TreesLexOrder == \A s, t : Trees!LexOrder(s, t) = LexOrder(s, t)
BY Zenon DEF Trees!LexOrder, LexOrder

LEMMA TreesTextOrder == \A s, t : Trees!TextOrder(s, t) = TextOrder(s, t)
<1>1. \A c : Trees!Byte(c) = Byte(c)
  BY DEF Trees!Byte, Byte, Trees!Characters, Characters
<1>2. \A s : [i \in DOMAIN s |-> Trees!Byte(s[i])] = [i \in DOMAIN s |-> Byte(s[i])]
  BY <1>1
<1> QED BY <1>2, TreesLexOrder, Zenon DEF Trees!TextOrder, TextOrder

LEMMA TreesParseVersion == \A name : Trees!ParseVersion(name) = ParseVersion(name)
<1>1. \A name, i : Trees!IsDigit(name, i) <=> IsDigit(name, i)
  BY DEF Trees!IsDigit, IsDigit, Trees!Digits, Digits
<1>2. Trees!Digits = Digits
  BY DEF Trees!Digits, Digits
<1>3. \A name, i : Trees!DigitsEnd(name, i) = DigitsEnd(name, i)
  BY DEF Trees!DigitsEnd, DigitsEnd, Trees!IsDigit, IsDigit, Trees!Digits, Digits
<1>4. \A name, i, j : Trees!Number(name, i, j) = Number(name, i, j)
  BY DEF Trees!Number, Number, Trees!Digits, Digits
<1>5. \A name, j : Trees!Continues(name, j) <=> Continues(name, j)
  BY <1>1 DEF Trees!Continues, Continues
<1>6. Trees!Prefixes = Prefixes /\ Trees!Unversioned = Unversioned
  BY DEF Trees!Prefixes, Prefixes, Trees!Unversioned, Unversioned
<1>7. \A name, limit : Trees!SegmentsUpTo(name, limit) = SegmentsUpTo(name, limit)
  BY DEF Trees!SegmentsUpTo, SegmentsUpTo, Trees!DigitsEnd, DigitsEnd, Trees!IsDigit, IsDigit,
         Trees!Digits, Digits, Trees!Number, Number, Trees!Continues, Continues,
         Trees!Prefixes, Prefixes, Trees!Unversioned, Unversioned
<1> QED BY <1>7, Zenon DEF Trees!ParseVersion, ParseVersion

LEMMA TreesCompare == \A s, t : Trees!Compare(s, t) = Compare(s, t)
<1> TAKE s, t
<1> DEFINE vs == Trees!ParseVersion(s)
           vt == Trees!ParseVersion(t)
<1>1. Trees!Unversioned = Unversioned
  BY DEF Trees!Unversioned, Unversioned
<1>2. vs = ParseVersion(s) /\ vt = ParseVersion(t)
  BY TreesParseVersion, Zenon
<1>3. Trees!Compare(s, t) =
          IF vs # Unversioned /\ vt # Unversioned
          THEN ThenWith(LexOrder(vs, vt), TextOrder(s, t))
          ELSE IF vs # Unversioned THEN -1
          ELSE IF vt # Unversioned THEN 1
          ELSE TextOrder(s, t)
  <2>1. \A x, y : Trees!ThenWith(x, y) = ThenWith(x, y)
    BY Zenon DEF Trees!ThenWith, ThenWith
  <2>2. Trees!Compare(s, t) =
           CASE vs # Unversioned /\ vt # Unversioned ->
                    ThenWith(LexOrder(vs, vt), TextOrder(s, t))
             [] vs # Unversioned /\ vt = Unversioned -> -1
             [] vs = Unversioned /\ vt # Unversioned -> 1
             [] OTHER -> TextOrder(s, t)
    BY <1>1, <2>1, TreesLexOrder, TreesTextOrder DEF Trees!Compare
  <2> HIDE DEF vs, vt
  <2>3. CASE vs # Unversioned /\ vt # Unversioned
    BY <2>2, <2>3
  <2>4. CASE vs # Unversioned /\ vt = Unversioned
    BY <2>2, <2>4
  <2>5. CASE vs = Unversioned /\ vt # Unversioned
    BY <2>2, <2>5
  <2>6. CASE vs = Unversioned /\ vt = Unversioned
    BY <2>2, <2>6
  <2> QED BY <2>3, <2>4, <2>5, <2>6
<1> QED BY <1>2, <1>3, CompareBy, Zenon

NamesOrder == [pair \in FileNames \X FileNames |-> Trees!TextOrder(pair[1], pair[2])]

LEMMA NamesOrdered ==
    ASSUME FileNamesSpelled
    PROVE  Ordering(NamesOrder, FileNames)
<1>1. FileNames \subseteq Texts
  BY DEF FileNamesSpelled, Texts
<1>2. \A m, n \in FileNames : NamesOrder[<< m, n >>] = TextsOrder[<< m, n >>]
  BY <1>1, TreesTextOrder DEF NamesOrder, TextsOrder
<1>3. Ordering(TextsOrder, Texts)
  BY TextsOrdered
<1>4. \A m, n \in FileNames : NamesOrder[<< m, n >>] \in {-1, 0, 1}
  <2>1. TextsOrder \in [Texts \X Texts -> {-1, 0, 1}]
    BY <1>3, Zenon DEF Ordering
  <2> HIDE DEF TextsOrder
  <2> QED BY <1>1, <1>2, <2>1
<1>5. NamesOrder \in [FileNames \X FileNames -> {-1, 0, 1}]
  <2>1. NamesOrder = [pair \in FileNames \X FileNames |-> NamesOrder[pair]]
    BY DEF NamesOrder
  <2>2. \A pair \in FileNames \X FileNames : NamesOrder[pair] \in {-1, 0, 1}
    <3> HIDE DEF NamesOrder
    <3> QED BY <1>4
  <2> QED BY <2>1, <2>2
<1>6. /\ \A x, y \in FileNames : TextsOrder[<< x, y >>] = 1 => TextsOrder[<< y, x >>] = -1
      /\ \A x \in FileNames : TextsOrder[<< x, x >>] = 0
      /\ \A x, y \in FileNames : TextsOrder[<< x, y >>] = 0 => x = y
      /\ \A x, y, z \in FileNames :
            TextsOrder[<< x, y >>] = -1 /\ TextsOrder[<< y, z >>] = -1
            => TextsOrder[<< x, z >>] = -1
  BY <1>1, <1>3, Zenon DEF Ordering
<1>7. /\ \A x, y \in FileNames : NamesOrder[<< x, y >>] = 1 => NamesOrder[<< y, x >>] = -1
      /\ \A x \in FileNames : NamesOrder[<< x, x >>] = 0
      /\ \A x, y \in FileNames : NamesOrder[<< x, y >>] = 0 => x = y
      /\ \A x, y, z \in FileNames :
            NamesOrder[<< x, y >>] = -1 /\ NamesOrder[<< y, z >>] = -1
            => NamesOrder[<< x, z >>] = -1
  <2> HIDE DEF NamesOrder, TextsOrder
  <2> QED BY <1>2, <1>6
<1> QED BY <1>5, <1>7, Zenon DEF Ordering

Paths == Seq(FileNames)

PathsOrder == [pair \in Paths \X Paths |-> Trees!PathOrder(pair[1], pair[2])]

LEMMA LengthsOrdered ==
    ASSUME NEW m \in Nat, NEW n \in Nat
    PROVE  LexOrder(<< m >>, << n >>) = IF m < n THEN -1 ELSE IF m > n THEN 1 ELSE 0
<1> DEFINE s == << m >>
           t == << n >>
           differ == {i \in DOMAIN s \cap DOMAIN t : s[i] # t[i]}
<1>1. DOMAIN s = {1} /\ DOMAIN t = {1} /\ s[1] = m /\ t[1] = n /\ Len(s) = 1 /\ Len(t) = 1
  OBVIOUS
<1>2. CASE m = n
  <2>1. differ = {}
    BY <1>1, <1>2
  <2> HIDE DEF s, t
  <2>2. LexOrder(s, t) = 0
    BY <1>1, <2>1 DEF LexOrder
  <2> QED BY <1>2, <2>2 DEF s, t
<1>3. CASE m # n
  <2>1. differ = {1}
    BY <1>1, <1>3
  <2>2. (CHOOSE i \in differ : \A j \in differ : i <= j) = 1
    BY <2>1
  <2> HIDE DEF s, t
  <2>3. LexOrder(s, t) = IF s[1] < t[1] THEN -1 ELSE 1
    BY <2>1, <2>2 DEF LexOrder
  <2>4. m < n \/ m > n
    BY <1>3
  <2> QED BY <1>1, <2>3, <2>4 DEF s, t
<1> QED BY <1>2, <1>3

LEMMA PathsOrdered ==
    ASSUME FileNamesSpelled
    PROVE  Ordering(PathsOrder, Paths)
<1>1. \A p, q \in Paths : Trees!PathOrder(p, q) = LexBy(NamesOrder, p, q)
  <2> TAKE p, q \in Paths
  <2> DEFINE differ == {i \in DOMAIN p \cap DOMAIN q : p[i] # q[i]}
             first == CHOOSE i \in differ : \A j \in differ : i <= j
  <2>1. Len(p) \in Nat /\ Len(q) \in Nat
    BY DEF Paths
  <2>2. CASE differ # {}
    <3>1. \E i \in differ : \A j \in differ : i <= j
      <4>1. differ \in SUBSET Nat
        BY DEF Paths
      <4> HIDE DEF differ
      <4> QED BY <2>2, <4>1, LeastNumber
    <3>2. first \in differ
      <4> HIDE DEF differ
      <4> QED BY <3>1
    <3> DEFINE x == p[first]
               y == q[first]
    <3>3. x \in FileNames /\ y \in FileNames
      <4>1. first \in DOMAIN p /\ first \in DOMAIN q
        BY <3>2
      <4> HIDE DEF first, differ
      <4> QED BY <4>1 DEF Paths
    <3>4. Trees!PathOrder(p, q) = Trees!TextOrder(x, y)
      BY <2>2 DEF Trees!PathOrder
    <3>5. LexBy(NamesOrder, p, q) = NamesOrder[<< x, y >>]
      BY <2>2 DEF LexBy
    <3> HIDE DEF x, y
    <3>6. NamesOrder[<< x, y >>] = Trees!TextOrder(x, y)
      BY <3>3 DEF NamesOrder
    <3> QED BY <3>4, <3>5, <3>6
  <2>3. CASE differ = {}
    <3>1. Trees!PathOrder(p, q) = LexOrder(<< Len(p) >>, << Len(q) >>)
      BY <2>3, TreesLexOrder, Zenon DEF Trees!PathOrder
    <3>2. LexBy(NamesOrder, p, q) =
             IF Len(p) < Len(q) THEN -1 ELSE IF Len(p) > Len(q) THEN 1 ELSE 0
      BY <2>3, Zenon DEF LexBy
    <3> QED BY <2>1, <3>1, <3>2, LengthsOrdered, Zenon
  <2> QED BY <2>2, <2>3
<1>2. PathsOrder = [pair \in Paths \X Paths |-> LexBy(NamesOrder, pair[1], pair[2])]
  <2>1. \A pair \in Paths \X Paths : pair[1] \in Paths /\ pair[2] \in Paths
    OBVIOUS
  <2> QED BY <1>1, <2>1 DEF PathsOrder
<1> QED BY <1>2, NamesOrdered, LexByOrders DEF Paths

LEMMA SubSeqFacts ==
    ASSUME NEW S, NEW s \in Seq(S), NEW m \in 1..(Len(s) + 1), NEW n \in (m - 1)..Len(s)
    PROVE  /\ SubSeq(s, m, n) \in Seq(S) /\ Len(SubSeq(s, m, n)) = n - m + 1
           /\ \A i \in 1..(n - m + 1) : SubSeq(s, m, n)[i] = s[m + i - 1]
<1>1. Len(s) \in Nat /\ \A i \in 1..Len(s) : s[i] \in S
  OBVIOUS
<1>2. SubSeq(s, m, n) = [i \in 1..(n - m + 1) |-> s[m + i - 1]]
  BY <1>1
<1>3. n - m + 1 \in Nat /\ \A i \in 1..(n - m + 1) : m + i - 1 \in 1..Len(s)
  BY <1>1
<1>4. [i \in 1..(n - m + 1) |-> s[m + i - 1]] \in Seq(S)
  BY <1>1, <1>3
<1> QED BY <1>2, <1>3, <1>4

\* Where sort_by puts an element.
PlaceOf(sorted, e, before) ==
    CHOOSE i \in 1..(Len(sorted) + 1) :
        /\ \A j \in 1..(i - 1) : << e, sorted[j] >> \notin before
        /\ i <= Len(sorted) => << e, sorted[i] >> \in before

InsertedOf(sorted, e, before) ==
    SubSeq(sorted, 1, PlaceOf(sorted, e, before) - 1) \o << e >>
        \o SubSeq(sorted, PlaceOf(sorted, e, before), Len(sorted))

LEMMA PlaceFound ==
    ASSUME NEW S, NEW s \in Seq(S), NEW e, NEW before
    PROVE  /\ PlaceOf(s, e, before) \in 1..(Len(s) + 1)
           /\ \A j \in 1..(PlaceOf(s, e, before) - 1) : << e, s[j] >> \notin before
           /\ PlaceOf(s, e, before) <= Len(s) => << e, s[PlaceOf(s, e, before)] >> \in before
<1> DEFINE n == Len(s)
           Q == {i \in 1..(n + 1) : i <= n => << e, s[i] >> \in before}
<1>1. n \in Nat
  OBVIOUS
<1> HIDE DEF n
<1>2. Q \in SUBSET Nat /\ n + 1 \in Q
  BY <1>1
<1>3. PICK i \in Q : \A j \in Q : i <= j
  <2> HIDE DEF Q
  <2> QED BY <1>2, LeastNumber
<1>4. \A j \in 1..(i - 1) : << e, s[j] >> \notin before
  <2> TAKE j \in 1..(i - 1)
  <2>1. j \in 1..(n + 1) /\ j <= n /\ ~(i <= j)
    BY <1>1, <1>3
  <2>2. j \notin Q
    <3> HIDE DEF Q
    <3> QED BY <1>3, <2>1
  <2> QED BY <2>1, <2>2
<1>5. i \in 1..(n + 1) /\ (i <= n => << e, s[i] >> \in before)
  BY <1>3
<1>6. \E k \in 1..(n + 1) :
         /\ \A j \in 1..(k - 1) : << e, s[j] >> \notin before
         /\ k <= n => << e, s[k] >> \in before
  BY <1>4, <1>5
<1> QED BY <1>6, Zenon DEF PlaceOf, n

LEMMA InsertedFacts ==
    ASSUME NEW S, NEW s \in Seq(S), NEW e \in S, NEW before
    PROVE  LET r == InsertedOf(s, e, before)
               k == PlaceOf(s, e, before)
           IN  /\ r \in Seq(S) /\ Len(r) = Len(s) + 1
               /\ \A i \in 1..(Len(s) + 1) :
                     r[i] = IF i < k THEN s[i] ELSE IF i = k THEN e ELSE s[i - 1]
<1> DEFINE r == InsertedOf(s, e, before)
           k == PlaceOf(s, e, before)
           n == Len(s)
           left == SubSeq(s, 1, k - 1)
           right == SubSeq(s, k, n)
           one == << e >>
           front == left \o one
<1>1. n \in Nat /\ k \in 1..(n + 1)
  <2>1. Len(s) \in Nat
    OBVIOUS
  <2> QED BY <2>1, PlaceFound
<1>2. r = front \o right
  BY DEF InsertedOf
<1> HIDE DEF k, r
<1>3. /\ left \in Seq(S) /\ Len(left) = k - 1
      /\ \A i \in 1..(k - 1) : left[i] = s[i]
  <2>1. 1 \in 1..(Len(s) + 1) /\ k - 1 \in (1 - 1)..Len(s) /\ (k - 1) - 1 + 1 = k - 1
        /\ \A i \in 1..(k - 1) : 1 + i - 1 = i
    BY <1>1
  <2>2. /\ left \in Seq(S) /\ Len(left) = (k - 1) - 1 + 1
        /\ \A i \in 1..((k - 1) - 1 + 1) : left[i] = s[1 + i - 1]
    BY <2>1, SubSeqFacts
  <2> HIDE DEF left
  <2> QED BY <2>1, <2>2
<1>4. /\ right \in Seq(S) /\ Len(right) = n - k + 1
      /\ \A i \in 1..(n - k + 1) : right[i] = s[k + i - 1]
  <2>1. k \in 1..(Len(s) + 1) /\ n \in (k - 1)..Len(s)
    BY <1>1
  <2> QED BY <2>1, SubSeqFacts
<1>5. one \in Seq(S) /\ Len(one) = 1 /\ one[1] = e
  OBVIOUS
<1> HIDE DEF left, right, one, n
<1>6. /\ front \in Seq(S) /\ Len(front) = k
      /\ \A i \in 1..k : front[i] = IF i < k THEN s[i] ELSE e
  <2>1. front \in Seq(S) /\ Len(front) = Len(left) + Len(one)
        /\ \A i \in 1..(Len(left) + Len(one)) :
              front[i] = IF i <= Len(left) THEN left[i] ELSE one[i - Len(left)]
    <3>1. front \in Seq(S)
      BY <1>3, <1>5
    <3> QED BY <1>3, <1>5, <3>1, ConcatFacts
  <2>2. Len(front) = k - 1 + 1
    BY <1>3, <1>5, <2>1
  <2>3. \A i \in 1..(k - 1 + 1) :
            front[i] = IF i <= k - 1 THEN left[i] ELSE one[i - (k - 1)]
    BY <1>3, <1>5, <2>1
  <2> HIDE DEF front
  <2>4. \A i \in 1..k : i \in 1..(k - 1 + 1) /\ (i < k => i <= k - 1 /\ i \in 1..(k - 1))
                        /\ (~(i < k) => ~(i <= k - 1) /\ i - (k - 1) = 1)
    BY <1>1
  <2>5. k - 1 + 1 = k
    BY <1>1
  <2> QED BY <1>3, <1>5, <2>1, <2>2, <2>3, <2>4, <2>5
<1> HIDE DEF front
<1>7. r \in Seq(S)
  BY <1>2, <1>4, <1>6
<1>8. /\ Len(r) = Len(front) + Len(right)
      /\ \A i \in 1..(Len(front) + Len(right)) :
            r[i] = IF i <= Len(front) THEN front[i] ELSE right[i - Len(front)]
  BY <1>2, <1>4, <1>6, ConcatFacts
<1>9. \A i \in 1..(k + (n - k + 1)) : r[i] = IF i <= k THEN front[i] ELSE right[i - k]
  BY <1>4, <1>6, <1>8
<1>10. k + (n - k + 1) = n + 1
  BY <1>1
<1>11. \A i \in 1..(n + 1) : r[i] = IF i < k THEN s[i] ELSE IF i = k THEN e ELSE s[i - 1]
  <2> TAKE i \in 1..(n + 1)
  <2>1. r[i] = IF i <= k THEN front[i] ELSE right[i - k]
    BY <1>9, <1>10
  <2>2. CASE i <= k
    <3>1. i \in 1..k /\ (~(i < k) => i = k)
      BY <1>1, <2>2
    <3> QED BY <1>6, <2>1, <2>2, <3>1
  <2>3. CASE ~(i <= k)
    <3>1. i - k \in 1..(n - k + 1) /\ k + (i - k) - 1 = i - 1 /\ ~(i < k) /\ i # k
      BY <1>1, <2>3
    <3>2. right[i - k] = s[i - 1]
      BY <1>4, <3>1
    <3> QED BY <2>1, <2>3, <3>1, <3>2
  <2> QED BY <2>2, <2>3
<1>12. Len(r) = n + 1
  BY <1>4, <1>6, <1>8, <1>10
<1> QED BY <1>7, <1>11, <1>12 DEF r, k, n

IsSorting(seq, before, F) ==
    F = [n \in 0..Len(seq) |->
            IF n = 0 THEN << >> ELSE InsertedOf(F[n - 1], seq[n], before)]

SortingOf(seq, before) == CHOOSE F : IsSorting(seq, before, F)

LEMMA SortedBy == \A seq, before : Trees!Sorted(seq, before) = SortingOf(seq, before)[Len(seq)]
BY DEF Trees!Sorted, SortingOf, IsSorting, InsertedOf, PlaceOf

LEMMA SortingExists ==
    ASSUME NEW S, NEW seq \in Seq(S), NEW before
    PROVE  LET F == SortingOf(seq, before)
           IN  /\ F[0] = << >>
               /\ \A n \in 1..Len(seq) : F[n] = InsertedOf(F[n - 1], seq[n], before)
<1> DEFINE m == Len(seq)
           V == Seq(S)
           step == [x \in (1..m) \X V |-> InsertedOf(x[2], seq[x[1]], before)]
<1>1. m \in Nat /\ \A i \in 1..m : seq[i] \in S
  OBVIOUS
<1>2. << >> \in V
  OBVIOUS
<1>3. step \in [(1..m) \X V -> V]
  <2>1. \A x \in (1..m) \X V : InsertedOf(x[2], seq[x[1]], before) \in V
    BY <1>1, InsertedFacts
  <2> QED BY <2>1
<1> HIDE DEF V
<1>4. PICK F : IsLoop(F, m, V, << >>, step)
  <2> HIDE DEF step, m
  <2> QED BY <1>1, <1>2, <1>3, LoopExists
<1>5. F \in [0..m -> V] /\ F[0] = << >> /\ \A i \in 1..m : F[i] = step[<< i, F[i - 1] >>]
  BY <1>4 DEF IsLoop
<1>6. \A i \in 1..m : F[i] = InsertedOf(F[i - 1], seq[i], before)
  <2> TAKE i \in 1..m
  <2>1. i - 1 \in 0..m
    BY <1>1
  <2>2. F[i - 1] \in V
    BY <1>5, <2>1
  <2>3. step[<< i, F[i - 1] >>] = InsertedOf(F[i - 1], seq[i], before)
    BY <2>2
  <2> HIDE DEF step
  <2> QED BY <1>5, <2>3
<1> HIDE DEF step
<1>7. IsSorting(seq, before, F)
  <2>1. \A i \in 0..m : i # 0 => i \in 1..m
    BY <1>1
  <2>2. \A i \in 0..m : F[i] = IF i = 0 THEN << >> ELSE InsertedOf(F[i - 1], seq[i], before)
    BY <1>5, <1>6, <2>1
  <2>3. F = [i \in 0..m |-> F[i]]
    BY <1>5
  <2>4. F = [i \in 0..m |-> IF i = 0 THEN << >> ELSE InsertedOf(F[i - 1], seq[i], before)]
    BY <2>2, <2>3
  <2> QED BY <2>4 DEF IsSorting
<1> DEFINE G == SortingOf(seq, before)
<1>8. IsSorting(seq, before, G)
  BY <1>7 DEF SortingOf
<1> HIDE DEF G
<1>9. \A i \in 0..m : G[i] = IF i = 0 THEN << >> ELSE InsertedOf(G[i - 1], seq[i], before)
  BY <1>8 DEF IsSorting
<1>10. 0 \in 0..m /\ \A i \in 1..m : i \in 0..m /\ i # 0
  BY <1>1
<1> QED BY <1>9, <1>10 DEF G, m

LEMMA InsertedElements ==
    ASSUME NEW S, NEW s \in Seq(S), NEW e \in S, NEW before
    PROVE  Elements(InsertedOf(s, e, before)) = Elements(s) \cup {e}
<1> DEFINE r == InsertedOf(s, e, before)
           k == PlaceOf(s, e, before)
           n == Len(s)
<1>1. n \in Nat /\ DOMAIN s = 1..n
  OBVIOUS
<1>2. k \in 1..(n + 1)
  BY PlaceFound
<1>3. /\ r \in Seq(S) /\ Len(r) = n + 1
      /\ \A i \in 1..(n + 1) : r[i] = IF i < k THEN s[i] ELSE IF i = k THEN e ELSE s[i - 1]
  BY InsertedFacts
<1> HIDE DEF r, k, n
<1>4. DOMAIN r = 1..(n + 1)
  BY <1>3
<1>5. ASSUME NEW x \in Elements(r) PROVE x \in Elements(s) \cup {e}
  <2>1. PICK i \in 1..(n + 1) : x = r[i]
    BY <1>4, <1>5 DEF Elements
  <2>2. CASE i < k
    <3>1. i \in 1..n /\ x = s[i]
      BY <1>1, <1>2, <1>3, <2>1, <2>2
    <3> QED BY <1>1, <3>1 DEF Elements
  <2>3. CASE i = k
    BY <1>3, <2>1, <2>3
  <2>4. CASE ~(i < k) /\ i # k
    <3>1. i - 1 \in 1..n /\ x = s[i - 1]
      BY <1>1, <1>2, <1>3, <2>1, <2>4
    <3> QED BY <1>1, <3>1 DEF Elements
  <2> QED BY <2>2, <2>3, <2>4
<1>6. ASSUME NEW x \in Elements(s) PROVE x \in Elements(r)
  <2>1. PICK i \in 1..n : x = s[i]
    BY <1>1, <1>6 DEF Elements
  <2>2. CASE i < k
    <3>1. i \in 1..(n + 1) /\ r[i] = x
      BY <1>1, <1>2, <1>3, <2>1, <2>2
    <3> QED BY <1>4, <3>1 DEF Elements
  <2>3. CASE ~(i < k)
    <3>1. i + 1 \in 1..(n + 1) /\ ~(i + 1 < k) /\ i + 1 # k /\ i + 1 - 1 = i
      BY <1>1, <1>2, <2>1, <2>3
    <3>2. r[i + 1] = x
      BY <1>3, <2>1, <3>1
    <3> QED BY <1>4, <3>1, <3>2 DEF Elements
  <2> QED BY <2>2, <2>3
<1>7. e \in Elements(r)
  <2>1. r[k] = e /\ k \in DOMAIN r
    BY <1>1, <1>2, <1>3, <1>4
  <2> QED BY <2>1 DEF Elements
<1> QED BY <1>5, <1>6, <1>7 DEF r

\* Where each element of the longer sequence comes from.
SourceOf(k, i) == IF i < k THEN i ELSE i - 1

LEMMA InsertedInjective ==
    ASSUME NEW S, NEW s \in Seq(S), NEW e \in S, NEW before,
           Injective(s), e \notin Elements(s)
    PROVE  Injective(InsertedOf(s, e, before))
<1> DEFINE r == InsertedOf(s, e, before)
           k == PlaceOf(s, e, before)
           n == Len(s)
<1>1. n \in Nat /\ DOMAIN s = 1..n
  OBVIOUS
<1>2. k \in 1..(n + 1)
  BY PlaceFound
<1>3. /\ r \in Seq(S) /\ Len(r) = n + 1
      /\ \A i \in 1..(n + 1) : r[i] = IF i < k THEN s[i] ELSE IF i = k THEN e ELSE s[i - 1]
  BY InsertedFacts
<1> HIDE DEF r, k, n
<1>4. DOMAIN r = 1..(n + 1)
  BY <1>3
<1>5. \A i \in 1..n : s[i] # e
  BY <1>1 DEF Elements
<1>6. \A i \in 1..(n + 1) : i # k => SourceOf(k, i) \in 1..n /\ r[i] = s[SourceOf(k, i)]
  BY <1>1, <1>2, <1>3 DEF SourceOf
<1>7. \A i, j \in 1..(n + 1) : i # k /\ j # k /\ SourceOf(k, i) = SourceOf(k, j) => i = j
  BY <1>1, <1>2 DEF SourceOf
<1>8. r[k] = e
  BY <1>2, <1>3
<1>9. ASSUME NEW i \in 1..(n + 1), NEW j \in 1..(n + 1), r[i] = r[j] PROVE i = j
  <2>1. CASE i # k /\ j # k
    <3>1. SourceOf(k, i) = SourceOf(k, j)
      BY <1>1, <1>6, <1>9, <2>1 DEF Injective
    <3> QED BY <1>7, <2>1, <3>1
  <2>2. CASE i = k /\ j # k
    BY <1>5, <1>6, <1>8, <1>9, <2>2
  <2>3. CASE i # k /\ j = k
    BY <1>5, <1>6, <1>8, <1>9, <2>3
  <2> QED BY <2>1, <2>2, <2>3
<1>10. Injective(r)
  BY <1>4, <1>9 DEF Injective
<1> QED BY <1>10 DEF r

\* What sort_by is given: what comes before a third comes before what that does, and of
\* two only one comes before the other.
StrictBefore(before, S) ==
    /\ \A x, y, z \in S : << x, y >> \in before /\ << y, z >> \in before => << x, z >> \in before
    /\ \A x, y \in S : << x, y >> \in before => << y, x >> \notin before

InOrderBy(s, before) == \A i, j \in DOMAIN s : i < j => << s[j], s[i] >> \notin before

LEMMA InsertedInOrder ==
    ASSUME NEW S, NEW s \in Seq(S), NEW e \in S, NEW before,
           StrictBefore(before, S), InOrderBy(s, before)
    PROVE  InOrderBy(InsertedOf(s, e, before), before)
<1> DEFINE r == InsertedOf(s, e, before)
           k == PlaceOf(s, e, before)
           n == Len(s)
<1>1. n \in Nat /\ DOMAIN s = 1..n /\ \A i \in 1..n : s[i] \in S
  OBVIOUS
<1>2. /\ k \in 1..(n + 1)
      /\ \A j \in 1..(k - 1) : << e, s[j] >> \notin before
      /\ k <= n => << e, s[k] >> \in before
  BY PlaceFound
<1>3. /\ r \in Seq(S) /\ Len(r) = n + 1
      /\ \A i \in 1..(n + 1) : r[i] = IF i < k THEN s[i] ELSE IF i = k THEN e ELSE s[i - 1]
  BY InsertedFacts
<1> HIDE DEF r, k, n
<1>4. DOMAIN r = 1..(n + 1)
  BY <1>3
<1>5. \A i \in 1..(n + 1) : i # k => SourceOf(k, i) \in 1..n /\ r[i] = s[SourceOf(k, i)]
  BY <1>1, <1>2, <1>3 DEF SourceOf
<1>6. \A i, j \in 1..(n + 1) : i # k /\ j # k /\ i < j => SourceOf(k, i) < SourceOf(k, j)
  BY <1>1, <1>2 DEF SourceOf
<1>7. r[k] = e
  BY <1>2, <1>3
<1>8. \A i \in 1..n : i >= k => << s[i], e >> \notin before
  <2> TAKE i \in 1..n
  <2> SUFFICES ASSUME i >= k, << s[i], e >> \in before PROVE FALSE
    OBVIOUS
  <2>1. k \in 1..n /\ << e, s[k] >> \in before
    BY <1>1, <1>2
  <2>2. s[i] \in S /\ s[k] \in S
    BY <1>1, <2>1
  <2>3. << s[i], s[k] >> \in before
    BY <2>1, <2>2 DEF StrictBefore
  <2>4. CASE i = k
    BY <2>1, <2>2, <2>4 DEF StrictBefore
  <2>5. CASE i > k
    BY <1>1, <2>1, <2>3, <2>5 DEF InOrderBy
  <2> QED BY <1>1, <2>1, <2>4, <2>5
<1>9. ASSUME NEW i \in 1..(n + 1), NEW j \in 1..(n + 1), i < j PROVE << r[j], r[i] >> \notin before
  <2>1. CASE i # k /\ j # k
    <3>1. SourceOf(k, i) < SourceOf(k, j)
      BY <1>6, <1>9, <2>1
    <3> QED BY <1>1, <1>5, <2>1, <3>1 DEF InOrderBy
  <2>2. CASE i = k
    <3>1. j - 1 \in 1..n /\ j - 1 >= k /\ ~(j < k) /\ j # k
      BY <1>1, <1>2, <1>9, <2>2
    <3>2. r[j] = s[j - 1]
      BY <1>3, <3>1
    <3> QED BY <1>7, <1>8, <2>2, <3>1, <3>2
  <2>3. CASE j = k
    <3>1. i \in 1..(k - 1) /\ i < k
      BY <1>1, <1>2, <1>9, <2>3
    <3>2. r[i] = s[i]
      BY <1>3, <3>1
    <3> QED BY <1>2, <1>7, <2>3, <3>1, <3>2
  <2> QED BY <2>1, <2>2, <2>3
<1>10. InOrderBy(r, before)
  BY <1>4, <1>9 DEF InOrderBy
<1> QED BY <1>10 DEF r

\* Sorting neither loses nor repeats, and what it gives is in order.
LEMMA SortedFacts ==
    ASSUME NEW S, NEW seq \in Seq(S), NEW before
    PROVE  LET r == Trees!Sorted(seq, before)
           IN  /\ r \in Seq(S) /\ Len(r) = Len(seq)
               /\ Elements(r) = Elements(seq)
               /\ Injective(seq) => Injective(r)
               /\ StrictBefore(before, S) => InOrderBy(r, before)
<1> DEFINE F == SortingOf(seq, before)
           m == Len(seq)
           Upto(n) == {seq[i] : i \in 1..n}
           Keeps(n) ==
              /\ F[n] \in Seq(S) /\ Len(F[n]) = n
              /\ Elements(F[n]) = Upto(n)
              /\ Injective(seq) => Injective(F[n])
              /\ StrictBefore(before, S) => InOrderBy(F[n], before)
           T == {n \in Nat : n <= m => Keeps(n)}
<1>1. m \in Nat /\ DOMAIN seq = 1..m /\ \A i \in 1..m : seq[i] \in S
  OBVIOUS
<1>2. F[0] = << >> /\ \A n \in 1..m : F[n] = InsertedOf(F[n - 1], seq[n], before)
  BY SortingExists
<1> HIDE DEF F, m
<1>3. 0 \in T
  <2>1. << >> \in Seq(S) /\ Len(<< >>) = 0 /\ Elements(<< >>) = {} /\ Injective(<< >>)
        /\ InOrderBy(<< >>, before)
    BY DEF Elements, Injective, InOrderBy
  <2>2. Upto(0) = {}
    OBVIOUS
  <2> QED BY <1>2, <2>1, <2>2
<1>4. ASSUME NEW n \in T PROVE n + 1 \in T
  <2> SUFFICES ASSUME n + 1 <= m PROVE Keeps(n + 1)
    OBVIOUS
  <2>1. n \in Nat /\ n <= m /\ n + 1 \in 1..m /\ n + 1 - 1 = n
    BY <1>1
  <2> DEFINE s == F[n]
             e == seq[n + 1]
  <2>2. /\ s \in Seq(S) /\ Len(s) = n
        /\ Elements(s) = Upto(n)
        /\ Injective(seq) => Injective(s)
        /\ StrictBefore(before, S) => InOrderBy(s, before)
    BY <2>1
  <2>3. F[n + 1] = InsertedOf(s, e, before) /\ e \in S
    BY <1>1, <1>2, <2>1
  <2> HIDE DEF s
  <2>4. F[n + 1] \in Seq(S) /\ Len(F[n + 1]) = n + 1
    BY <2>2, <2>3, InsertedFacts
  <2>5. Elements(F[n + 1]) = Upto(n) \cup {e}
    BY <2>2, <2>3, InsertedElements
  <2>6. Upto(n + 1) = Upto(n) \cup {e}
    <3>1. 1..(n + 1) = 1..n \cup {n + 1}
      BY <2>1
    <3> QED BY <3>1
  <2>7. ASSUME Injective(seq) PROVE Injective(F[n + 1])
    <3>1. e \notin Upto(n)
      <4>1. \A i \in 1..n : i \in DOMAIN seq /\ n + 1 \in DOMAIN seq /\ i # n + 1
        BY <1>1, <2>1
      <4> QED BY <2>7, <4>1 DEF Injective
    <3> QED BY <2>2, <2>3, <2>7, <3>1, InsertedInjective
  <2>8. ASSUME StrictBefore(before, S) PROVE InOrderBy(F[n + 1], before)
    BY <2>2, <2>3, <2>8, InsertedInOrder
  <2> QED BY <2>4, <2>5, <2>6, <2>7, <2>8
<1>5. T = Nat
  <2> HIDE DEF T
  <2>1. T \in SUBSET Nat
    BY DEF T
  <2> QED BY <1>3, <1>4, <2>1, NatSetInduction
<1>6. Keeps(m)
  <2>1. m \in T /\ m <= m
    <3> HIDE DEF T
    <3> QED BY <1>1, <1>5
  <2> QED BY <2>1
<1>7. Upto(m) = Elements(seq)
  BY <1>1 DEF Elements
<1>8. Trees!Sorted(seq, before) = F[m]
  BY SortedBy DEF F, m
<1> QED BY <1>6, <1>7, <1>8, Zenon DEF m

LEMMA TreesElements == \A s : Trees!Elements(s) = Elements(s)
BY DEF Trees!Elements, Elements

LEMMA TreesCardinality == \A S : Trees!Cardinality(S) = Cardinality(S)
BY DEF Trees!Cardinality, Cardinality

\* What stands before the last names of a path.
Front(path, n) == SubSeq(path, 1, n)

LEMMA FrontFacts ==
    ASSUME NEW p \in Paths, NEW n \in 0..Len(p)
    PROVE  /\ Front(p, n) \in Paths /\ Len(Front(p, n)) = n
           /\ \A i \in 1..n : Front(p, n)[i] = p[i]
<1>1. Len(p) \in Nat
  BY DEF Paths
<1>2. 1 \in 1..(Len(p) + 1) /\ n \in (1 - 1)..Len(p) /\ n - 1 + 1 = n /\ \A i \in 1..n : 1 + i - 1 = i
  BY <1>1
<1> DEFINE N == FileNames
           f == Front(p, n)
<1>3. /\ f \in Seq(N) /\ Len(f) = n - 1 + 1
      /\ \A i \in 1..(n - 1 + 1) : f[i] = p[1 + i - 1]
  <2>1. p \in Seq(N)
    BY DEF Paths
  <2> QED BY <1>2, <2>1, SubSeqFacts DEF Front
<1> HIDE DEF f, N
<1>4. Len(f) = n /\ \A i \in 1..n : f[i] = p[i]
  BY <1>2, <1>3
<1> QED BY <1>3, <1>4 DEF f, Paths, N

LEMMA PathsEqual ==
    ASSUME NEW p \in Paths, NEW q \in Paths, Len(p) = Len(q), \A i \in 1..Len(p) : p[i] = q[i]
    PROVE  p = q
BY DEF Paths

LEMMA FrontOfFront ==
    ASSUME NEW p \in Paths, NEW n \in 0..Len(p), NEW m \in 0..n
    PROVE  Front(Front(p, n), m) = Front(p, m)
<1>1. Len(p) \in Nat /\ m \in 0..Len(p)
  BY DEF Paths
<1>2. /\ Front(p, n) \in Paths /\ Len(Front(p, n)) = n
      /\ \A i \in 1..n : Front(p, n)[i] = p[i]
  BY FrontFacts
<1>3. /\ Front(p, m) \in Paths /\ Len(Front(p, m)) = m
      /\ \A i \in 1..m : Front(p, m)[i] = p[i]
  BY <1>1, FrontFacts
<1>4. m \in 0..Len(Front(p, n))
  BY <1>2
<1>5. /\ Front(Front(p, n), m) \in Paths /\ Len(Front(Front(p, n), m)) = m
      /\ \A i \in 1..m : Front(Front(p, n), m)[i] = Front(p, n)[i]
  BY <1>2, <1>4, FrontFacts
<1>6. \A i \in 1..m : i \in 1..n
  OBVIOUS
<1> QED BY <1>2, <1>3, <1>5, <1>6, PathsEqual

LEMMA FrontWhole ==
    ASSUME NEW p \in Paths
    PROVE  Front(p, Len(p)) = p /\ Front(p, 0) = << >>
<1>1. Len(p) \in Nat /\ Len(p) \in 0..Len(p) /\ 0 \in 0..Len(p)
  BY DEF Paths
<1>2. Front(p, Len(p)) = p
  BY <1>1, FrontFacts, PathsEqual
<1>3. Front(p, 0) \in Paths /\ Len(Front(p, 0)) = 0
  BY <1>1, FrontFacts
<1>4. \A q \in Paths : Len(q) = 0 => q = << >>
  BY DEF Paths
<1> QED BY <1>2, <1>3, <1>4

LEMMA FrontOfAppend ==
    ASSUME NEW p \in Paths, NEW n \in FileNames
    PROVE  /\ Append(p, n) \in Paths /\ Len(Append(p, n)) = Len(p) + 1
           /\ Append(p, n)[Len(p) + 1] = n
           /\ \A m \in 0..Len(p) : Front(Append(p, n), m) = Front(p, m)
<1> DEFINE q == Append(p, n)
<1>1. /\ Len(p) \in Nat /\ q \in Paths /\ Len(q) = Len(p) + 1 /\ q[Len(p) + 1] = n
      /\ \A i \in 1..Len(p) : q[i] = p[i]
  BY DEF Paths
<1> HIDE DEF q
<1>2. \A m \in 0..Len(p) : Front(q, m) = Front(p, m)
  <2> TAKE m \in 0..Len(p)
  <2>1. m \in 0..Len(q) /\ \A i \in 1..m : i \in 1..Len(p)
    BY <1>1
  <2>2. /\ Front(q, m) \in Paths /\ Len(Front(q, m)) = m
        /\ \A i \in 1..m : Front(q, m)[i] = q[i]
    BY <1>1, <2>1, FrontFacts
  <2>3. /\ Front(p, m) \in Paths /\ Len(Front(p, m)) = m
        /\ \A i \in 1..m : Front(p, m)[i] = p[i]
    BY FrontFacts
  <2> QED BY <1>1, <2>1, <2>2, <2>3, PathsEqual
<1> QED BY <1>1, <1>2 DEF q

-----------------------------------------------------------------------------

\* Every entry is in a directory of the tree, down to the root.
TreeInv ==
    /\ IsFiniteSet(DOMAIN tree)
    /\ \A p \in DOMAIN tree :
          /\ p \in Paths /\ Len(p) \in 1..MaxDepth
          /\ \A n \in 1..(Len(p) - 1) :
                Front(p, n) \in DOMAIN tree /\ tree[Front(p, n)] = "directory"

LEMMA TreeAlwaysGrown ==
    ASSUME MaxDepth \in Nat
    PROVE  InputsSpec => []TreeInv
<1>1. InputsInit => TreeInv
  <2> SUFFICES ASSUME InputsInit PROVE TreeInv
    OBVIOUS
  <2>1. DOMAIN tree = {}
    BY DEF InputsInit, Trees!Init
  <2> QED BY <2>1, FS_EmptySet DEF TreeInv
<1>2. TreeInv /\ [InputsNext]_inputs => TreeInv'
  <2> SUFFICES ASSUME TreeInv, [InputsNext]_inputs PROVE TreeInv'
    OBVIOUS
  <2>1. CASE Trees!Next
    <3>1. PICK dir \in {<< >>} \cup DOMAIN tree, name \in FileNames, kind \in Trees!Kind :
             Trees!Add(dir, name, kind)
      BY <2>1 DEF Trees!Next
    <3> DEFINE path == Append(dir, name)
    <3>2. /\ Len(path) <= MaxDepth
          /\ dir = << >> \/ (dir \in DOMAIN tree /\ tree[dir] = "directory")
          /\ path \notin DOMAIN tree
          /\ tree' = [p \in DOMAIN tree \cup {path} |-> IF p = path THEN kind ELSE tree[p]]
      BY <3>1 DEF Trees!Add
    <3>3. dir \in Paths
      <4>1. << >> \in Paths
        BY DEF Paths
      <4> QED BY <3>2, <4>1 DEF TreeInv
    <3>4. /\ path \in Paths /\ Len(path) = Len(dir) + 1
          /\ \A m \in 0..Len(dir) : Front(path, m) = Front(dir, m)
      BY <3>3, FrontOfAppend
    <3>5. Len(dir) \in Nat
      BY <3>3 DEF Paths
    <3> HIDE DEF path
    <3>6. DOMAIN tree' = DOMAIN tree \cup {path}
      BY <3>2
    <3>7. \A p \in DOMAIN tree : tree'[p] = tree[p]
      BY <3>2
    <3>8. IsFiniteSet(DOMAIN tree')
      BY <3>6, FS_AddElement DEF TreeInv
    <3>9. Len(path) \in 1..MaxDepth
      BY <3>2, <3>4, <3>5
    <3>10. ASSUME NEW n \in 1..(Len(path) - 1)
           PROVE  Front(path, n) \in DOMAIN tree /\ tree[Front(path, n)] = "directory"
      <4>1. n \in 1..Len(dir) /\ n \in 0..Len(dir) /\ Front(path, n) = Front(dir, n)
        BY <3>4, <3>5
      <4>2. dir \in DOMAIN tree /\ tree[dir] = "directory"
        <5>1. dir # << >>
          BY <4>1
        <5> QED BY <3>2, <5>1
      <4>3. CASE n = Len(dir)
        BY <3>3, <4>1, <4>2, <4>3, FrontWhole
      <4>4. CASE n # Len(dir)
        <5>1. n \in 1..(Len(dir) - 1)
          BY <3>5, <4>1, <4>4
        <5> QED BY <4>1, <4>2, <5>1 DEF TreeInv
      <4> QED BY <4>3, <4>4
    <3>11. ASSUME NEW p \in DOMAIN tree'
           PROVE  /\ p \in Paths /\ Len(p) \in 1..MaxDepth
                  /\ \A n \in 1..(Len(p) - 1) :
                        Front(p, n) \in DOMAIN tree' /\ tree'[Front(p, n)] = "directory"
      <4>1. CASE p = path
        BY <3>4, <3>6, <3>7, <3>9, <3>10, <4>1
      <4>2. CASE p \in DOMAIN tree
        BY <3>6, <3>7, <4>2 DEF TreeInv
      <4> QED BY <3>6, <3>11, <4>1, <4>2
    <3> QED BY <3>8, <3>11 DEF TreeInv, Front
  <2>2. CASE UNCHANGED tree
    BY <2>2 DEF TreeInv, Front
  <2> QED BY <2>1, <2>2 DEF InputsNext, NextName, NextEntry, NextRead, inputs
<1> QED BY <1>1, <1>2, PTL DEF InputsSpec

\* What a directory's listing holds.
LEMMA ListingFacts ==
    ASSUME TreeInv, NEW dir
    PROVE  LET listing == Trees!Listing(dir)
           IN  /\ listing \in Seq(DOMAIN tree)
               /\ Elements(listing) = Trees!Entries(dir)
               /\ Injective(listing)
<1> DEFINE E == Trees!Entries(dir)
           n == Cardinality(E)
           one == CHOOSE seq \in [1..n -> E] : Trees!Elements(seq) = E
           before == {pair \in E \X E :
                         Trees!TextOrder(Trees!FileName(pair[1]), Trees!FileName(pair[2])) < 0}
<1>1. E \subseteq DOMAIN tree
  BY DEF Trees!Entries
<1>2. IsFiniteSet(E) /\ n \in Nat
  <2>1. IsFiniteSet(E)
    BY <1>1, FS_Subset DEF TreeInv
  <2> QED BY <2>1, FS_CardinalityType
<1>3. Trees!Listing(dir) = Trees!Sorted(one, before)
  BY TreesCardinality DEF Trees!Listing
<1> HIDE DEF E, n, before
<1>4. \E seq \in [1..n -> E] : Trees!Elements(seq) = E
  <2>1. ExistsBijection(1..n, E)
    BY <1>2, FS_CardinalityType DEF n
  <2>2. PICK f \in Bijection(1..n, E) : TRUE
    BY <2>1 DEF ExistsBijection
  <2>3. f \in [1..n -> E] /\ \A x \in E : \E i \in 1..n : f[i] = x
    BY <2>2 DEF Bijection, Surjection, Injection
  <2>4. Trees!Elements(f) = E
    <3>1. DOMAIN f = 1..n
      BY <2>3
    <3> QED BY <2>3, <3>1 DEF Trees!Elements
  <2> QED BY <2>3, <2>4
<1>5. one \in [1..n -> E] /\ Trees!Elements(one) = E
  BY <1>4
<1> HIDE DEF one
<1>6. one \in Seq(E) /\ Len(one) = n /\ DOMAIN one = 1..n
  BY <1>2, <1>5
<1>7. Injective(one)
  <2>1. one \in Surjection(1..n, E)
    <3>1. \A x \in E : \E i \in 1..n : one[i] = x
      BY <1>5, <1>6 DEF Trees!Elements
    <3> QED BY <1>5, <3>1 DEF Surjection
  <2>2. IsFiniteSet(1..n) /\ Cardinality(1..n) = n
    <3>1. IsFiniteSet(1..n) /\ Cardinality(1..n) = IF 1 > n THEN 0 ELSE n - 1 + 1
      BY <1>2, FS_Interval
    <3> QED BY <1>2, <3>1
  <2>3. one \in Injection(1..n, E)
    BY <2>1, <2>2, FS_SurjSameCardinalityImpliesInj DEF n
  <2> QED BY <1>6, <2>3 DEF Injection, IsInjective, Injective
<1>8. /\ Trees!Sorted(one, before) \in Seq(E)
      /\ Elements(Trees!Sorted(one, before)) = Elements(one)
      /\ Injective(Trees!Sorted(one, before))
  BY <1>6, <1>7, SortedFacts
<1>9. \A s \in Seq(E) : s \in Seq(DOMAIN tree)
  BY <1>1
<1> QED BY <1>3, <1>5, <1>8, <1>9, TreesElements DEF E

\* The files a directory holds, by itself and through its directories.
Beneath(d) ==
    {p \in DOMAIN tree :
        /\ tree[p] # "directory" /\ Trees!IsSql(p[Len(p)])
        /\ Len(p) > Len(d) /\ Front(p, Len(d)) = d
        /\ \A i \in (Len(d) + 1)..Len(p) : ~Trees!Hidden(p[i])}

Directories == {<< >>} \cup {p \in DOMAIN tree : tree[p] = "directory"}

\* What an entry contributes.
PieceOf(e) ==
    IF tree[e] = "directory" THEN IF Trees!Hidden(Trees!FileName(e)) THEN {} ELSE Beneath(e)
    ELSE IF Trees!Kept(e) THEN {e} ELSE {}

LEMMA DirectoryFacts ==
    ASSUME TreeInv, NEW d \in Directories
    PROVE  d \in Paths /\ Len(d) \in Nat /\ d \in {<< >>} \cup DOMAIN tree
<1>1. << >> \in Paths
  BY DEF Paths
<1>2. d \in Paths
  BY <1>1 DEF Directories, TreeInv
<1> QED BY <1>2 DEF Directories, Paths

LEMMA EntryFacts ==
    ASSUME TreeInv, NEW d \in Directories, NEW e \in Trees!Entries(d)
    PROVE  /\ e \in DOMAIN tree /\ e \in Paths /\ Len(e) \in 1..MaxDepth
           /\ Len(e) = Len(d) + 1 /\ Front(e, Len(d)) = d
<1>1. e \in DOMAIN tree /\ Front(e, Len(e) - 1) = d
  BY DEF Trees!Entries, Trees!Parent, Front
<1>2. e \in Paths /\ Len(e) \in 1..MaxDepth
  BY <1>1 DEF TreeInv
<1>3. Len(e) \in Nat /\ Len(e) - 1 \in 0..Len(e)
  <2>1. Len(e) \in Nat
    BY <1>2 DEF Paths
  <2> QED BY <1>2, <2>1
<1>4. Len(d) = Len(e) - 1
  BY <1>1, <1>2, <1>3, FrontFacts
<1> QED BY <1>1, <1>2, <1>3, <1>4

LEMMA BeneathEntry ==
    ASSUME TreeInv, NEW d \in Directories, NEW p \in Beneath(d)
    PROVE  \E e \in Trees!Entries(d) : p \in PieceOf(e)
<1> DEFINE n == Len(d)
           e == Front(p, n + 1)
<1>1. d \in Paths /\ n \in Nat
  BY DirectoryFacts
<1>2. /\ p \in DOMAIN tree /\ tree[p] # "directory" /\ Trees!IsSql(p[Len(p)])
      /\ Len(p) > n /\ Front(p, n) = d
      /\ \A i \in (n + 1)..Len(p) : ~Trees!Hidden(p[i])
  BY DEF Beneath
<1>3. p \in Paths /\ Len(p) \in Nat
  <2>1. p \in Paths
    BY <1>2 DEF TreeInv
  <2> QED BY <2>1 DEF Paths
<1> HIDE DEF n
<1>4. n + 1 \in 0..Len(p) /\ n \in 0..(n + 1) /\ n + 1 \in (n + 1)..Len(p) /\ n + 1 - 1 = n
  BY <1>1, <1>2, <1>3
<1>5. /\ e \in Paths /\ Len(e) = n + 1
      /\ \A i \in 1..(n + 1) : e[i] = p[i]
  BY <1>3, <1>4, FrontFacts
<1>6. Front(e, n) = d
  BY <1>2, <1>3, <1>4, FrontOfFront
<1> HIDE DEF e
<1>7. e[n + 1] = p[n + 1] /\ ~Trees!Hidden(e[n + 1])
  BY <1>1, <1>2, <1>4, <1>5
<1>8. Trees!FileName(e) = e[n + 1]
  BY <1>5 DEF Trees!FileName
<1>9. CASE Len(p) = n + 1
  <2>1. e = p
    BY <1>3, <1>9, FrontWhole DEF e
  <2>2. e \in Trees!Entries(d)
    BY <1>2, <1>4, <1>5, <1>6, <2>1 DEF Trees!Entries, Trees!Parent, Front
  <2>3. Trees!Kept(e)
    BY <1>2, <1>7, <1>8, <1>9, <2>1 DEF Trees!Kept
  <2>4. p \in PieceOf(e)
    BY <1>2, <2>1, <2>3 DEF PieceOf
  <2> QED BY <2>2, <2>4
<1>10. CASE Len(p) # n + 1
  <2>1. n + 1 \in 1..(Len(p) - 1)
    BY <1>1, <1>2, <1>3, <1>10
  <2>2. e \in DOMAIN tree /\ tree[e] = "directory"
    BY <1>2, <2>1 DEF TreeInv, e
  <2>3. e \in Trees!Entries(d)
    BY <1>4, <1>5, <1>6, <2>2 DEF Trees!Entries, Trees!Parent, Front
  <2>4. p \in Beneath(e)
    <3>1. Len(p) > Len(e) /\ Front(p, Len(e)) = e
      BY <1>1, <1>2, <1>3, <1>5, <1>10 DEF e
    <3>2. \A i \in (Len(e) + 1)..Len(p) : i \in (n + 1)..Len(p)
      BY <1>1, <1>3, <1>5
    <3> QED BY <1>2, <3>1, <3>2 DEF Beneath
  <2>5. p \in PieceOf(e)
    BY <1>7, <1>8, <2>2, <2>4 DEF PieceOf
  <2> QED BY <2>3, <2>5
<1> QED BY <1>9, <1>10

LEMMA PieceBeneath ==
    ASSUME TreeInv, NEW d \in Directories, NEW e \in Trees!Entries(d), NEW p \in PieceOf(e)
    PROVE  p \in Beneath(d) /\ Front(p, Len(d) + 1) = e
<1> DEFINE n == Len(d)
<1>1. d \in Paths /\ n \in Nat
  BY DirectoryFacts
<1>2. e \in DOMAIN tree /\ e \in Paths /\ Len(e) = n + 1 /\ Front(e, n) = d
  BY EntryFacts
<1> HIDE DEF n
<1>3. Trees!FileName(e) = e[n + 1]
  BY <1>2 DEF Trees!FileName
<1>4. CASE tree[e] = "directory"
  <2>1. ~Trees!Hidden(e[n + 1]) /\ p \in Beneath(e)
    BY <1>3, <1>4 DEF PieceOf
  <2>2. /\ p \in DOMAIN tree /\ tree[p] # "directory" /\ Trees!IsSql(p[Len(p)])
        /\ Len(p) > n + 1 /\ Front(p, n + 1) = e
        /\ \A i \in (n + 1 + 1)..Len(p) : ~Trees!Hidden(p[i])
    BY <1>2, <2>1 DEF Beneath
  <2>3. p \in Paths /\ Len(p) \in Nat
    <3>1. p \in Paths
      BY <2>2 DEF TreeInv
    <3> QED BY <3>1 DEF Paths
  <2>4. n + 1 \in 0..Len(p) /\ n \in 0..(n + 1) /\ n + 1 \in 1..(n + 1)
    BY <1>1, <2>2, <2>3
  <2>5. Front(p, n) = d
    BY <1>2, <2>2, <2>3, <2>4, FrontOfFront
  <2>6. p[n + 1] = e[n + 1]
    BY <2>2, <2>3, <2>4, FrontFacts
  <2>7. \A i \in (n + 1)..Len(p) : ~Trees!Hidden(p[i])
    <3>1. \A i \in (n + 1)..Len(p) : i = n + 1 \/ i \in (n + 1 + 1)..Len(p)
      BY <1>1, <2>3
    <3> QED BY <2>1, <2>2, <2>6, <3>1
  <2>8. Len(p) > n
    BY <1>1, <2>2, <2>3
  <2> QED BY <2>2, <2>5, <2>7, <2>8 DEF Beneath, n
<1>5. CASE tree[e] # "directory"
  <2>1. p = e /\ Trees!Kept(e)
    BY <1>5 DEF PieceOf
  <2>2. ~Trees!Hidden(e[n + 1]) /\ Trees!IsSql(e[Len(e)])
    BY <1>2, <1>3, <2>1 DEF Trees!Kept
  <2>3. Len(e) > n /\ \A i \in (n + 1)..Len(e) : i = n + 1
    BY <1>1, <1>2
  <2>4. Front(e, n + 1) = e
    BY <1>2, FrontWhole
  <2> QED BY <1>2, <1>5, <2>1, <2>2, <2>3, <2>4 DEF Beneath, n
<1> QED BY <1>4, <1>5

LEMMA ConcatOnce ==
    ASSUME NEW V, NEW s \in Seq(V), NEW t \in Seq(V)
    PROVE  /\ Elements(s \o t) = Elements(s) \cup Elements(t)
           /\ Injective(s) /\ Injective(t) /\ Elements(s) \cap Elements(t) = {} => Injective(s \o t)
<1> DEFINE r == s \o t
           m == Len(s)
           n == Len(t)
<1>1. m \in Nat /\ n \in Nat /\ DOMAIN s = 1..m /\ DOMAIN t = 1..n
  OBVIOUS
<1>2. /\ r \in Seq(V) /\ Len(r) = m + n
      /\ \A i \in 1..(m + n) : r[i] = IF i <= m THEN s[i] ELSE t[i - m]
  <2>1. r \in Seq(V)
    OBVIOUS
  <2> QED BY <2>1, ConcatFacts
<1>3. DOMAIN r = 1..(m + n)
  BY <1>2
<1> HIDE DEF r, m, n
<1>4. ASSUME NEW x \in Elements(r) PROVE x \in Elements(s) \cup Elements(t)
  <2>1. PICK i \in 1..(m + n) : x = r[i]
    BY <1>3, <1>4 DEF Elements
  <2>2. CASE i <= m
    <3>1. i \in 1..m /\ x = s[i]
      BY <1>1, <1>2, <2>1, <2>2
    <3> QED BY <1>1, <3>1 DEF Elements
  <2>3. CASE ~(i <= m)
    <3>1. i - m \in 1..n /\ x = t[i - m]
      BY <1>1, <1>2, <2>1, <2>3
    <3> QED BY <1>1, <3>1 DEF Elements
  <2> QED BY <2>2, <2>3
<1>5. ASSUME NEW x \in Elements(s) PROVE x \in Elements(r)
  <2>1. PICK i \in 1..m : x = s[i]
    BY <1>1, <1>5 DEF Elements
  <2>2. i \in 1..(m + n) /\ r[i] = x
    BY <1>1, <1>2, <2>1
  <2> QED BY <1>3, <2>2 DEF Elements
<1>6. ASSUME NEW x \in Elements(t) PROVE x \in Elements(r)
  <2>1. PICK i \in 1..n : x = t[i]
    BY <1>1, <1>6 DEF Elements
  <2>2. m + i \in 1..(m + n) /\ ~(m + i <= m) /\ m + i - m = i
    BY <1>1, <2>1
  <2> DEFINE j == m + i
  <2>3. j \in 1..(m + n) /\ ~(j <= m) /\ j - m = i
    BY <1>1, <2>1, <2>2
  <2> HIDE DEF j
  <2>4. r[j] = t[j - m]
    BY <1>2, <2>3
  <2>5. r[j] = x
    BY <2>1, <2>3, <2>4
  <2> QED BY <1>3, <2>3, <2>5 DEF Elements
<1>7. ASSUME Injective(s), Injective(t), Elements(s) \cap Elements(t) = {} PROVE Injective(r)
  <2>1. \A i \in 1..m, j \in 1..n : s[i] # t[j]
    BY <1>1, <1>7 DEF Elements
  <2>2. ASSUME NEW i \in 1..(m + n), NEW j \in 1..(m + n), r[i] = r[j] PROVE i = j
    <3>1. CASE i <= m /\ j <= m
      <4>1. i \in 1..m /\ j \in 1..m /\ s[i] = s[j]
        BY <1>1, <1>2, <2>2, <3>1
      <4> QED BY <1>1, <1>7, <4>1 DEF Injective
    <3>2. CASE i <= m /\ ~(j <= m)
      <4>1. i \in 1..m /\ j - m \in 1..n /\ s[i] = t[j - m]
        BY <1>1, <1>2, <2>2, <3>2
      <4> QED BY <2>1, <4>1
    <3>3. CASE ~(i <= m) /\ j <= m
      <4>1. j \in 1..m /\ i - m \in 1..n /\ s[j] = t[i - m]
        BY <1>1, <1>2, <2>2, <3>3
      <4> QED BY <2>1, <4>1
    <3>4. CASE ~(i <= m) /\ ~(j <= m)
      <4>1. i - m \in 1..n /\ j - m \in 1..n /\ t[i - m] = t[j - m]
        BY <1>1, <1>2, <2>2, <3>4
      <4>2. i - m = j - m
        BY <1>1, <1>7, <4>1 DEF Injective
      <4> QED BY <1>1, <4>2
    <3> QED BY <3>1, <3>2, <3>3, <3>4
  <2> QED BY <1>3, <2>2 DEF Injective
<1> QED BY <1>4, <1>5, <1>6, <1>7 DEF r

\* The sequences of a sequence one after the other, as a walk joins them.
IsJoined(U, of, n) ==
    U = [k \in 0..n |-> IF k = 0 THEN << >> ELSE U[k - 1] \o of[k]]

LEMMA JoinedExists ==
    ASSUME NEW V, NEW n \in Nat, NEW of \in [1..n -> Seq(V)]
    PROVE  \E U : IsJoined(U, of, n)
<1> DEFINE S == Seq(V)
           step == [x \in (1..n) \X S |-> x[2] \o of[x[1]]]
<1>1. << >> \in S /\ \A k \in 1..n : of[k] \in S
  OBVIOUS
<1>2. step \in [(1..n) \X S -> S]
  <2>1. \A x \in (1..n) \X S : x[2] \o of[x[1]] \in S
    <3> TAKE x \in (1..n) \X S
    <3>1. x[2] \in Seq(V) /\ of[x[1]] \in Seq(V)
      BY <1>1
    <3> QED BY <3>1
  <2> QED BY <2>1
<1> HIDE DEF S
<1>3. PICK U : IsLoop(U, n, S, << >>, step)
  <2> HIDE DEF step
  <2> QED BY <1>1, <1>2, LoopExists
<1>4. U \in [0..n -> S] /\ U[0] = << >> /\ \A k \in 1..n : U[k] = step[<< k, U[k - 1] >>]
  BY <1>3 DEF IsLoop
<1>5. \A k \in 1..n : U[k] = U[k - 1] \o of[k]
  <2> TAKE k \in 1..n
  <2>1. U[k - 1] \in S
    BY <1>4
  <2>2. step[<< k, U[k - 1] >>] = U[k - 1] \o of[k]
    BY <2>1
  <2> HIDE DEF step
  <2> QED BY <1>4, <2>2
<1> HIDE DEF step
<1>6. IsJoined(U, of, n)
  <2>1. \A k \in 0..n : k # 0 => k \in 1..n
    OBVIOUS
  <2>2. \A k \in 0..n : U[k] = IF k = 0 THEN << >> ELSE U[k - 1] \o of[k]
    BY <1>4, <1>5, <2>1
  <2>3. U = [k \in 0..n |-> U[k]]
    BY <1>4
  <2>4. U = [k \in 0..n |-> IF k = 0 THEN << >> ELSE U[k - 1] \o of[k]]
    BY <2>2, <2>3
  <2> QED BY <2>4 DEF IsJoined
<1> QED BY <1>6

\* What has each of its pieces once has every element once, when no two pieces share one.
LEMMA JoinedOnce ==
    ASSUME NEW V, NEW n \in Nat, NEW of \in [1..n -> Seq(V)],
           NEW U, IsJoined(U, of, n)
    PROVE  LET r == U[n]
           IN  /\ r \in Seq(V)
               /\ Elements(r) = UNION {Elements(of[k]) : k \in 1..n}
               /\ (\A k \in 1..n : Injective(of[k]))
                  /\ (\A j, k \in 1..n : j # k => Elements(of[j]) \cap Elements(of[k]) = {})
                  => Injective(r)
<1> DEFINE Upto(m) == UNION {Elements(of[k]) : k \in 1..m}
           Apart == /\ \A k \in 1..n : Injective(of[k])
                    /\ \A j, k \in 1..n : j # k => Elements(of[j]) \cap Elements(of[k]) = {}
           Keeps(m) ==
              U[m] \in Seq(V) /\ Elements(U[m]) = Upto(m) /\ (Apart => Injective(U[m]))
           T == {m \in Nat : m <= n => Keeps(m)}
<1>1. U[0] = << >> /\ \A k \in 1..n : U[k] = U[k - 1] \o of[k]
  <2>1. \A k \in 0..n : U[k] = IF k = 0 THEN << >> ELSE U[k - 1] \o of[k]
    BY DEF IsJoined
  <2>2. 0 \in 0..n /\ \A k \in 1..n : k \in 0..n /\ k # 0
    OBVIOUS
  <2> QED BY <2>1, <2>2
<1>2. 0 \in T
  <2>1. << >> \in Seq(V) /\ Elements(<< >>) = {} /\ Injective(<< >>)
    BY DEF Elements, Injective
  <2>2. Upto(0) = {}
    OBVIOUS
  <2> QED BY <1>1, <2>1, <2>2
<1>3. ASSUME NEW m \in T PROVE m + 1 \in T
  <2> SUFFICES ASSUME m + 1 <= n PROVE Keeps(m + 1)
    OBVIOUS
  <2>1. m \in Nat /\ m <= n /\ m + 1 \in 1..n /\ m + 1 - 1 = m
    OBVIOUS
  <2> DEFINE s == U[m]
             t == of[m + 1]
  <2>2. s \in Seq(V) /\ Elements(s) = Upto(m) /\ (Apart => Injective(s))
    BY <2>1
  <2>3. U[m + 1] = s \o t /\ t \in Seq(V)
    <3> HIDE DEF T
    <3> DEFINE k == m + 1
    <3>1. k \in 1..n /\ k - 1 = m
      BY <2>1
    <3> HIDE DEF k
    <3>2. U[k] = U[k - 1] \o of[k] /\ of[k] \in Seq(V)
      BY <1>1, <3>1
    <3> QED BY <3>1, <3>2 DEF k
  <2>4. Upto(m + 1) = Upto(m) \cup Elements(t)
    <3>1. 1..(m + 1) = 1..m \cup {m + 1}
      BY <2>1
    <3> QED BY <3>1
  <2>5. ASSUME Apart PROVE Injective(t) /\ Elements(s) \cap Elements(t) = {}
    <3>1. \A k \in 1..m : k \in 1..n /\ k # m + 1
      BY <2>1
    <3>2. \A k \in 1..m : Elements(of[k]) \cap Elements(t) = {}
      BY <2>1, <2>5, <3>1
    <3>3. Upto(m) \cap Elements(t) = {}
      BY <3>2
    <3> QED BY <2>1, <2>2, <2>5, <3>3
  <2> HIDE DEF s, t, Apart, Upto
  <2>6. /\ s \o t \in Seq(V) /\ Elements(s \o t) = Elements(s) \cup Elements(t)
        /\ Injective(s) /\ Injective(t) /\ Elements(s) \cap Elements(t) = {} => Injective(s \o t)
    <3>1. s \o t \in Seq(V)
      BY <2>2, <2>3
    <3> QED BY <2>2, <2>3, <3>1, ConcatOnce
  <2> QED BY <2>2, <2>3, <2>4, <2>5, <2>6
<1>4. T = Nat
  <2>1. T \in SUBSET Nat
    OBVIOUS
  <2> HIDE DEF T
  <2> QED BY <1>2, <1>3, <2>1, NatSetInduction
<1>5. Keeps(n)
  <2>1. n \in T /\ n <= n
    <3> HIDE DEF T
    <3> QED BY <1>4
  <2> QED BY <2>1
<1> QED BY <1>5

\* What walk adds for an entry, given what it finds in each directory.
PieceSeq(G, path) ==
    IF Trees!Enters(path)
    THEN IF Trees!Hidden(Trees!FileName(path)) THEN << >> ELSE G[Trees!Below(path)]
    ELSE IF Trees!Kept(path) THEN << path >> ELSE << >>

IsUpTo(U, G, listing) ==
    U = [n \in 0..Len(listing) |->
            IF n = 0 THEN << >> ELSE U[n - 1] \o PieceSeq(G, listing[n])]

WalkStep(G, listing) == (CHOOSE U : IsUpTo(U, G, listing))[Len(listing)]

IsWalk(F) ==
    F = [fuel \in 0..(MaxDepth + 1) |->
            [d \in {<< >>} \cup DOMAIN tree |->
                IF fuel = 0 THEN << >> ELSE WalkStep(F[fuel - 1], Trees!Listing(d))]]

LEMMA WalkBy == \A dir : Trees!Walk(dir) = (CHOOSE F : IsWalk(F))[MaxDepth + 1][dir]
BY DEF Trees!Walk, IsWalk, WalkStep, IsUpTo, PieceSeq

\* One directory: what its entries contribute, once.
LEMMA StepOnce ==
    ASSUME NEW V, NEW listing \in Seq(V), NEW G,
           \A i \in 1..Len(listing) : PieceSeq(G, listing[i]) \in Seq(V)
    PROVE  LET r == WalkStep(G, listing)
               n == Len(listing)
               piece(k) == PieceSeq(G, listing[k])
           IN  /\ r \in Seq(V)
               /\ Elements(r) = UNION {Elements(piece(k)) : k \in 1..n}
               /\ (\A k \in 1..n : Injective(piece(k)))
                  /\ (\A j, k \in 1..n : j # k => Elements(piece(j)) \cap Elements(piece(k)) = {})
                  => Injective(r)
<1> DEFINE n == Len(listing)
           of == [k \in 1..n |-> PieceSeq(G, listing[k])]
<1>1. n \in Nat
  OBVIOUS
<1>2. of \in [1..n -> Seq(V)] /\ \A k \in 1..n : of[k] = PieceSeq(G, listing[k])
  OBVIOUS
<1> HIDE DEF of
<1>3. \A U : IsJoined(U, of, n) <=> IsUpTo(U, G, listing)
  <2> TAKE U
  <2>1. \A k \in 0..n : k # 0 => of[k] = PieceSeq(G, listing[k])
    BY <1>1, <1>2
  <2> HIDE DEF n
  <2>2. [k \in 0..n |-> IF k = 0 THEN << >> ELSE U[k - 1] \o of[k]]
         = [k \in 0..n |-> IF k = 0 THEN << >> ELSE U[k - 1] \o PieceSeq(G, listing[k])]
    BY <2>1
  <2> QED BY <2>2 DEF IsJoined, IsUpTo, n
<1> HIDE DEF n
<1>4. PICK W : IsUpTo(W, G, listing)
  BY <1>1, <1>2, <1>3, JoinedExists
<1> DEFINE U == CHOOSE U : IsUpTo(U, G, listing)
<1>5. IsUpTo(U, G, listing)
  BY <1>4
<1>6. WalkStep(G, listing) = U[n]
  BY DEF WalkStep, n
<1> HIDE DEF U
<1>7. IsJoined(U, of, n)
  BY <1>3, <1>5
<1>8. /\ U[n] \in Seq(V)
      /\ Elements(U[n]) = UNION {Elements(of[k]) : k \in 1..n}
      /\ (\A k \in 1..n : Injective(of[k]))
         /\ (\A j, k \in 1..n : j # k => Elements(of[j]) \cap Elements(of[k]) = {})
         => Injective(U[n])
  BY <1>1, <1>2, <1>7, JoinedOnce
<1>9. {Elements(of[k]) : k \in 1..n} = {Elements(PieceSeq(G, listing[k])) : k \in 1..n}
  BY <1>2
<1>10. (\A k \in 1..n : Injective(PieceSeq(G, listing[k])))
       /\ (\A j, k \in 1..n : j # k => Elements(PieceSeq(G, listing[j])) \cap Elements(PieceSeq(G, listing[k])) = {})
       => Injective(U[n])
  BY <1>2, <1>8
<1> QED BY <1>6, <1>8, <1>9, <1>10 DEF n

LEMMA PieceTyped ==
    ASSUME TreeInv, NEW G \in [{<< >>} \cup DOMAIN tree -> Seq(DOMAIN tree)], NEW path \in DOMAIN tree
    PROVE  PieceSeq(G, path) \in Seq(DOMAIN tree)
<1>1. << >> \in Seq(DOMAIN tree) /\ << path >> \in Seq(DOMAIN tree)
  OBVIOUS
<1>2. Trees!Below(path) \in {<< >>} \cup DOMAIN tree
  BY DEF Trees!Below
<1>3. G[Trees!Below(path)] \in Seq(DOMAIN tree)
  BY <1>2
<1> QED BY <1>1, <1>3 DEF PieceSeq

\* The walk is defined, and what it finds is in the tree.
LEMMA WalkExists ==
    ASSUME TreeInv, MaxDepth \in Nat
    PROVE  LET F == CHOOSE F : IsWalk(F)
               Dirs == {<< >>} \cup DOMAIN tree
           IN  /\ F \in [0..(MaxDepth + 1) -> [Dirs -> Seq(DOMAIN tree)]]
               /\ F[0] = [d \in Dirs |-> << >>]
               /\ \A m \in 1..(MaxDepth + 1), d \in Dirs :
                     F[m][d] = WalkStep(F[m - 1], Trees!Listing(d))
<1> DEFINE V == DOMAIN tree
           Dirs == {<< >>} \cup V
           S == [Dirs -> Seq(V)]
           last == MaxDepth + 1
           init == [d \in Dirs |-> << >>]
           step == [x \in (1..last) \X S |-> [d \in Dirs |-> WalkStep(x[2], Trees!Listing(d))]]
<1>1. init \in S /\ last \in Nat
  OBVIOUS
<1>2. \A G \in S, d \in Dirs : WalkStep(G, Trees!Listing(d)) \in Seq(V)
  <2> TAKE G \in S, d \in Dirs
  <2>1. Trees!Listing(d) \in Seq(V)
    BY ListingFacts
  <2> DEFINE l == Trees!Listing(d)
  <2> HIDE DEF l
  <2>2. l \in Seq(V)
    BY <2>1 DEF l
  <2>3. \A i \in 1..Len(l) : l[i] \in V
    BY <2>2
  <2>4. \A i \in 1..Len(l) : PieceSeq(G, l[i]) \in Seq(V)
    BY <2>3, PieceTyped
  <2>5. WalkStep(G, l) \in Seq(V)
    BY <2>2, <2>4, StepOnce
  <2> QED BY <2>5 DEF l
<1>3. step \in [(1..last) \X S -> S]
  <2>1. \A x \in (1..last) \X S : x[2] \in S
    OBVIOUS
  <2> HIDE DEF V
  <2>2. \A x \in (1..last) \X S : [d \in Dirs |-> WalkStep(x[2], Trees!Listing(d))] \in S
    BY <1>2, <2>1
  <2> HIDE DEF S
  <2> QED BY <2>2
<1> HIDE DEF V, Dirs, S, last
<1>4. PICK F : IsLoop(F, last, S, init, step)
  <2> HIDE DEF step, init
  <2> QED BY <1>1, <1>3, LoopExists
<1>5. F \in [0..last -> S] /\ F[0] = init /\ \A m \in 1..last : F[m] = step[<< m, F[m - 1] >>]
  <2> HIDE DEF step, init
  <2> QED BY <1>4 DEF IsLoop
<1>6. \A m \in 1..last : F[m] = [d \in Dirs |-> WalkStep(F[m - 1], Trees!Listing(d))]
  <2> TAKE m \in 1..last
  <2>1. m - 1 \in 0..last
    BY <1>1
  <2>2. F[m - 1] \in S
    BY <1>5, <2>1
  <2>3. step[<< m, F[m - 1] >>] = [d \in Dirs |-> WalkStep(F[m - 1], Trees!Listing(d))]
    BY <2>2
  <2> HIDE DEF step, init
  <2> QED BY <1>5, <2>3
<1> HIDE DEF step
<1>7. IsWalk(F)
  <2>1. \A m \in 0..last : m # 0 => m \in 1..last
    BY <1>1
  <2>2. \A m \in 0..last :
            F[m] = [d \in Dirs |-> IF m = 0 THEN << >> ELSE WalkStep(F[m - 1], Trees!Listing(d))]
    <3> TAKE m \in 0..last
    <3>1. CASE m = 0
      BY <1>5, <3>1
    <3>2. CASE m # 0
      BY <1>6, <2>1, <3>2
    <3> QED BY <3>1, <3>2
  <2>3. F = [m \in 0..last |-> F[m]]
    BY <1>5
  <2>4. F = [m \in 0..last |->
                [d \in Dirs |-> IF m = 0 THEN << >> ELSE WalkStep(F[m - 1], Trees!Listing(d))]]
    BY <2>2, <2>3
  <2> QED BY <2>4 DEF IsWalk, last, Dirs, V
<1> DEFINE W == CHOOSE W : IsWalk(W)
<1>8. IsWalk(W)
  BY <1>7
<1> HIDE DEF W
<1>9. W = [m \in 0..last |->
              [d \in Dirs |-> IF m = 0 THEN << >> ELSE WalkStep(W[m - 1], Trees!Listing(d))]]
  BY <1>8 DEF IsWalk, last, Dirs, V
<1> DEFINE At(m, d) == IF m = 0 THEN << >> ELSE WalkStep(W[m - 1], Trees!Listing(d))
<1>17. W = [m \in 0..last |-> [d \in Dirs |-> At(m, d)]]
  BY <1>9
<1> HIDE DEF At
<1>18. \A m \in 0..last : W[m] = [d \in Dirs |-> At(m, d)]
  BY <1>17
<1>19. \A m \in 0..last, d \in Dirs : W[m][d] = At(m, d)
  BY <1>18
<1>10. \A m \in 0..last, d \in Dirs :
          W[m][d] = IF m = 0 THEN << >> ELSE WalkStep(W[m - 1], Trees!Listing(d))
  BY <1>19 DEF At
<1>11. \A m \in 0..last : W[m] = [d \in Dirs |-> W[m][d]]
  BY <1>18, <1>19
<1>12. 0 \in 0..last /\ \A m \in 1..last : m \in 0..last /\ m # 0 /\ m - 1 \in 0..last
  BY <1>1
<1>13. W[0] = init
  BY <1>10, <1>11, <1>12
<1>14. \A m \in 1..last, d \in Dirs : W[m][d] = WalkStep(W[m - 1], Trees!Listing(d))
  BY <1>10, <1>12
<1>15. \A m \in 0..last : W[m] \in S
  <2> DEFINE T == {m \in Nat : m <= last => W[m] \in S}
  <2>1. 0 \in T
    BY <1>1, <1>13
  <2>2. ASSUME NEW m \in T PROVE m + 1 \in T
    <3> SUFFICES ASSUME m + 1 <= last PROVE W[m + 1] \in S
      OBVIOUS
    <3> DEFINE k == m + 1
    <3>1. m \in Nat /\ k \in 1..last /\ k - 1 = m /\ m <= last
      BY <1>1
    <3>2. W[m] \in S
      BY <3>1
    <3> HIDE DEF T, k
    <3>3. \A d \in Dirs : W[k][d] \in Seq(V)
      BY <1>2, <1>14, <3>1, <3>2
    <3>4. W[k] = [d \in Dirs |-> W[k][d]]
      BY <1>11, <1>12, <3>1
    <3>5. W[k] \in S
      BY <3>3, <3>4 DEF S
    <3> QED BY <3>5 DEF k
  <2>3. T = Nat
    <3>1. T \in SUBSET Nat
      OBVIOUS
    <3> HIDE DEF T
    <3> QED BY <2>1, <2>2, <3>1, NatSetInduction
  <2> QED BY <1>1, <2>3
<1>16. W \in [0..last -> S]
  <2>1. W = [m \in 0..last |-> W[m]]
    BY <1>9
  <2> QED BY <1>15, <2>1
<1> QED BY <1>13, <1>14, <1>16 DEF W, S, Dirs, V, last

LEMMA PieceCollects ==
    ASSUME TreeInv, NEW G, NEW e \in DOMAIN tree,
           tree[e] = "directory" => Elements(G[e]) = Beneath(e) /\ Injective(G[e])
    PROVE  Elements(PieceSeq(G, e)) = PieceOf(e) /\ Injective(PieceSeq(G, e))
<1>1. Elements(<< >>) = {} /\ Injective(<< >>)
  BY DEF Elements, Injective
<1>2. Elements(<< e >>) = {e} /\ Injective(<< e >>)
  BY DEF Elements, Injective
<1>3. CASE tree[e] = "directory"
  BY <1>1, <1>3 DEF PieceSeq, PieceOf, Trees!Enters, Trees!Below
<1>4. CASE tree[e] # "directory"
  BY <1>1, <1>2, <1>4 DEF PieceSeq, PieceOf, Trees!Enters
<1> QED BY <1>3, <1>4

\* A directory walked after its subdirectories.
LEMMA DirectoryCollects ==
    ASSUME TreeInv, NEW G \in [{<< >>} \cup DOMAIN tree -> Seq(DOMAIN tree)], NEW d \in Directories,
           \A e \in Trees!Entries(d) :
              tree[e] = "directory" => Elements(G[e]) = Beneath(e) /\ Injective(G[e])
    PROVE  LET r == WalkStep(G, Trees!Listing(d))
           IN  Elements(r) = Beneath(d) /\ Injective(r)
<1> DEFINE l == Trees!Listing(d)
           n == Len(l)
           piece(k) == PieceSeq(G, l[k])
<1>1. l \in Seq(DOMAIN tree) /\ Elements(l) = Trees!Entries(d) /\ Injective(l)
  BY ListingFacts
<1> HIDE DEF l
<1>2. n \in Nat /\ DOMAIN l = 1..n /\ \A k \in 1..n : l[k] \in DOMAIN tree
  BY <1>1
<1>3. \A k \in 1..n : l[k] \in Trees!Entries(d)
  BY <1>1, <1>2 DEF Elements
<1>4. \A e \in Trees!Entries(d) : \E k \in 1..n : l[k] = e
  BY <1>1, <1>2 DEF Elements
<1>5. \A k \in 1..n : piece(k) \in Seq(DOMAIN tree)
  BY <1>2, PieceTyped
<1>6. \A k \in 1..n : Elements(piece(k)) = PieceOf(l[k]) /\ Injective(piece(k))
  BY <1>2, <1>3, PieceCollects
<1>7. \A j, k \in 1..n : j # k => Elements(piece(j)) \cap Elements(piece(k)) = {}
  <2> SUFFICES ASSUME NEW j \in 1..n, NEW k \in 1..n, NEW p \in PieceOf(l[j]), p \in PieceOf(l[k])
               PROVE  j = k
    BY <1>6
  <2>1. Front(p, Len(d) + 1) = l[j] /\ Front(p, Len(d) + 1) = l[k]
    BY <1>3, PieceBeneath
  <2> QED BY <1>1, <1>2, <2>1 DEF Injective
<1> DEFINE r == WalkStep(G, l)
<1>8. /\ Elements(r) = UNION {Elements(piece(k)) : k \in 1..n}
      /\ Injective(r)
  BY <1>1, <1>5, <1>6, <1>7, StepOnce
<1> HIDE DEF n, r, piece
<1>9. ASSUME NEW p \in Elements(r) PROVE p \in Beneath(d)
  <2>1. PICK k \in 1..n : p \in Elements(piece(k))
    BY <1>8, <1>9
  <2>2. p \in PieceOf(l[k])
    BY <1>6, <2>1
  <2> QED BY <1>3, <2>2, PieceBeneath
<1>10. ASSUME NEW p \in Beneath(d) PROVE p \in Elements(r)
  <2>1. PICK e \in Trees!Entries(d) : p \in PieceOf(e)
    BY <1>10, BeneathEntry
  <2>2. PICK k \in 1..n : l[k] = e
    BY <1>4
  <2>3. p \in Elements(piece(k))
    BY <1>6, <2>1, <2>2
  <2> QED BY <1>8, <2>3
<1> QED BY <1>8, <1>9, <1>10 DEF r, l

\* With fuel for the names left, walk finds what the directory holds.
LEMMA WalkCollects ==
    ASSUME TreeInv, MaxDepth \in Nat
    PROVE  LET walked == Trees!Walk(<< >>)
           IN  walked \in Seq(DOMAIN tree) /\ Elements(walked) = Beneath(<< >>) /\ Injective(walked)
<1> DEFINE F == CHOOSE F : IsWalk(F)
           Dirs == {<< >>} \cup DOMAIN tree
           last == MaxDepth + 1
           Found(m) == \A d \in Directories :
                          Len(d) + m >= last => Elements(F[m][d]) = Beneath(d) /\ Injective(F[m][d])
           T == {m \in Nat : m <= last => Found(m)}
<1>1. last \in Nat /\ last = MaxDepth + 1
  OBVIOUS
<1>2. /\ F \in [0..last -> [Dirs -> Seq(DOMAIN tree)]]
      /\ \A m \in 1..last, d \in Dirs : F[m][d] = WalkStep(F[m - 1], Trees!Listing(d))
  BY WalkExists
<1>3. Trees!Walk(<< >>) = F[last][<< >>]
  BY WalkBy
<1> HIDE DEF F, last
<1>4. \A d \in Directories : d \in Dirs /\ Len(d) \in Nat /\ Len(d) < last
  <2> TAKE d \in Directories
  <2>1. d \in Paths /\ Len(d) \in Nat /\ d \in Dirs
    BY DirectoryFacts
  <2>2. Len(d) <= MaxDepth
    <3>1. CASE d = << >>
      BY <3>1
    <3>2. CASE d # << >>
      <4>1. d \in DOMAIN tree
        BY <2>1, <3>2
      <4> QED BY <4>1 DEF TreeInv
    <3> QED BY <3>1, <3>2
  <2> QED BY <1>1, <2>1, <2>2
<1>5. 0 \in T
  BY <1>1, <1>4
<1>6. ASSUME NEW m \in T PROVE m + 1 \in T
  <2> SUFFICES ASSUME m + 1 <= last, NEW d \in Directories, Len(d) + (m + 1) >= last
               PROVE  Elements(F[m + 1][d]) = Beneath(d) /\ Injective(F[m + 1][d])
    OBVIOUS
  <2>1. m \in Nat /\ m <= last /\ m + 1 \in 1..last /\ m \in 0..last /\ m + 1 - 1 = m
    BY <1>1
  <2>2. Found(m)
    BY <2>1
  <2>3. d \in Dirs /\ Len(d) \in Nat
    BY <1>4
  <2> DEFINE G == F[m]
             k == m + 1
  <2>4. G \in [Dirs -> Seq(DOMAIN tree)]
    BY <1>2, <2>1
  <2>5. k \in 1..last /\ k - 1 = m
    BY <2>1
  <2> HIDE DEF k
  <2>6. F[k][d] = WalkStep(G, Trees!Listing(d))
    BY <1>2, <2>3, <2>5
  <2>7. ASSUME NEW e \in Trees!Entries(d), tree[e] = "directory"
        PROVE  Elements(G[e]) = Beneath(e) /\ Injective(G[e])
    <3>1. e \in Directories /\ Len(e) = Len(d) + 1
      BY <2>7, EntryFacts DEF Directories
    <3>2. Len(e) + m >= last
      BY <1>1, <2>1, <2>3, <3>1
    <3> QED BY <2>2, <3>1, <3>2
  <2> HIDE DEF G, T
  <2>8. Elements(F[k][d]) = Beneath(d) /\ Injective(F[k][d])
    BY <2>4, <2>6, <2>7, DirectoryCollects
  <2> QED BY <2>8 DEF k
<1>7. T = Nat
  <2>1. T \in SUBSET Nat
    OBVIOUS
  <2> HIDE DEF T
  <2> QED BY <1>5, <1>6, <2>1, NatSetInduction
<1>8. Found(last)
  <2>1. last \in T /\ last <= last
    <3> HIDE DEF T
    <3> QED BY <1>1, <1>7
  <2> QED BY <2>1
<1>9. << >> \in Directories /\ Len(<< >>) + last >= last /\ last \in 0..last /\ << >> \in Dirs
  BY <1>1 DEF Directories
<1>10. F[last][<< >>] \in Seq(DOMAIN tree)
  BY <1>2, <1>9
<1> QED BY <1>3, <1>8, <1>9, <1>10

LEMMA BeneathTheRoot == TreeInv => Beneath(<< >>) = Trees!Visible
<1> SUFFICES ASSUME TreeInv, NEW p \in DOMAIN tree
             PROVE  (/\ Len(p) > Len(<< >>) /\ Front(p, Len(<< >>)) = << >>
                     /\ \A i \in (Len(<< >>) + 1)..Len(p) : ~Trees!Hidden(p[i]))
                    <=> \A i \in DOMAIN p : ~Trees!Hidden(p[i])
  BY DEF Beneath, Trees!Visible, Trees!FileName
<1>1. p \in Paths /\ Len(p) > 0
  BY DEF TreeInv
<1>2. Len(<< >>) = 0 /\ DOMAIN p = 1..Len(p) /\ Front(p, 0) = << >>
  BY <1>1, FrontWhole DEF Paths
<1> QED BY <1>1, <1>2

\* What is collected, before and after it is sorted.
LEMMA CollectedFacts ==
    ASSUME TreeInv, MaxDepth \in Nat
    PROVE  LET r == Trees!CollectSqlFiles
           IN  r \in Seq(DOMAIN tree) /\ Elements(r) = Trees!Visible /\ Injective(r)
<1> DEFINE w == Trees!Walk(<< >>)
           before == {pair \in Elements(w) \X Elements(w) : Trees!FileOrder(pair[1], pair[2]) < 0}
<1>1. w \in Seq(DOMAIN tree) /\ Elements(w) = Trees!Visible /\ Injective(w)
  BY WalkCollects, BeneathTheRoot
<1>2. Trees!CollectSqlFiles = Trees!Sorted(w, before)
  BY TreesElements DEF Trees!CollectSqlFiles
<1> HIDE DEF w, before
<1> QED BY <1>1, <1>2, SortedFacts

\* Every visible file is collected, once, however deep the tree and whatever is linked.
THEOREM FilesAlwaysCollectedOnce ==
    ASSUME MaxDepth \in Nat
    PROVE  InputsSpec => []CollectedOnce
<1>1. TreeInv => CollectedOnce
  <2> SUFFICES ASSUME TreeInv PROVE CollectedOnce
    OBVIOUS
  <2> DEFINE r == Trees!CollectSqlFiles
  <2>1. r \in Seq(DOMAIN tree) /\ Elements(r) = Trees!Visible /\ Injective(r)
    BY CollectedFacts
  <2> HIDE DEF r
  <2>2. Len(r) = Cardinality(Elements(r))
    <3> DEFINE n == Len(r)
    <3>1. n \in Nat /\ DOMAIN r = 1..n
      BY <2>1
    <3> HIDE DEF n
    <3>2. r \in Bijection(1..n, Elements(r))
      BY <2>1, <3>1 DEF Bijection, Injection, Surjection, IsInjective, Injective, Elements
    <3>3. ExistsBijection(1..n, Elements(r))
      BY <3>2 DEF ExistsBijection
    <3> QED BY <3>1, <3>3, FS_CountingElements DEF n
  <2>3. Elements(r) = Trees!Visible /\ Len(r) = Trees!Cardinality(Trees!Visible)
    BY <2>1, <2>2, TreesCardinality
  <2> QED BY <2>3, TreesElements DEF CollectedOnce, Trees!CollectedOnce, r
<1> QED BY <1>1, TreeAlwaysGrown, PTL

NoneLess(o, s) == \A i, j \in DOMAIN s : i < j => o[<< s[j], s[i] >>] # -1

Together(f, d, g, s) ==
    \A i, j \in DOMAIN s :
        i < j /\ f[s[i]] = f[s[j]] =>
            /\ d[<< g[s[i]], g[s[j]] >>] # 1
            /\ \A k \in i..j : f[s[k]] = f[s[i]]

\* In an order by f, then by g: what f makes one stands together, in g's order.
LEMMA ThenedTogether ==
    ASSUME NEW R, NEW c, Ordering(c, R), NEW S, NEW d, Ordering(d, S),
           NEW V, NEW f \in [V -> R], NEW g \in [V -> S], NEW s \in Seq(V),
           NoneLess(Thened(c, f, d, g, V), s)
    PROVE  Together(f, d, g, s)
<1> SUFFICES ASSUME NEW i \in DOMAIN s, NEW j \in DOMAIN s, i < j, f[s[i]] = f[s[j]]
             PROVE  /\ d[<< g[s[i]], g[s[j]] >>] # 1
                    /\ \A k \in i..j : f[s[k]] = f[s[i]]
  BY DEF Together
<1> DEFINE o == Thened(c, f, d, g, V)
           C(x, y) == c[<< f[x], f[y] >>]
           D(x, y) == d[<< g[x], g[y] >>]
<1>1. \A x, y \in V : o[<< x, y >>] = ThenWith(C(x, y), D(x, y))
  BY DEF Thened
<1>2. \A x \in V : f[x] \in R /\ g[x] \in S
  OBVIOUS
<1>3. \A x, y \in R : /\ c[<< x, y >>] \in {-1, 0, 1} /\ c[<< x, x >>] = 0
                      /\ c[<< x, y >>] = 1 => c[<< y, x >>] = -1
                      /\ c[<< x, y >>] = 0 => x = y
  <2>1. c \in [R \X R -> {-1, 0, 1}]
    BY Zenon DEF Ordering
  <2>2. \A x, y \in R : c[<< x, y >>] \in {-1, 0, 1}
    BY <2>1
  <2> QED BY <2>2, Zenon DEF Ordering
<1>4. \A x, y \in S : d[<< x, y >>] = 1 => d[<< y, x >>] = -1
  BY Zenon DEF Ordering
<1>5. \A x, y \in V : /\ C(x, y) \in {-1, 0, 1} /\ C(x, x) = 0
                      /\ C(x, y) = 1 => C(y, x) = -1
                      /\ C(x, y) = 0 => f[x] = f[y]
  BY <1>2, <1>3, Zenon
<1>6. \A x, y \in V : D(x, y) = 1 => D(y, x) = -1
  BY <1>2, <1>4, Zenon
<1>7. \A x, y, z \in V : f[x] = f[y] => C(x, z) = C(y, z) /\ C(z, x) = C(z, y)
  BY Zenon
<1>8. DOMAIN s = 1..Len(s) /\ Len(s) \in Nat /\ \A k \in DOMAIN s : s[k] \in V
  OBVIOUS
<1>9. \A m, n \in DOMAIN s : m < n => o[<< s[n], s[m] >>] # -1
  BY Zenon DEF NoneLess
<1> HIDE DEF o, C, D
<1>10. \A m, n \in DOMAIN s : m < n => C(s[n], s[m]) # -1
  <2> TAKE m, n \in DOMAIN s
  <2>1. s[m] \in V /\ s[n] \in V
    BY <1>8, Zenon
  <2>2. o[<< s[n], s[m] >>] = ThenWith(C(s[n], s[m]), D(s[n], s[m]))
    BY <1>1, <2>1, Zenon
  <2>3. -1 # 0
    OBVIOUS
  <2> QED BY <1>9, <2>2, <2>3, Zenon DEF ThenWith
<1>11. s[i] \in V /\ s[j] \in V
  BY <1>8, Zenon
<1>12. D(s[i], s[j]) # 1
  <2>1. C(s[j], s[i]) = 0
    <3>1. f[s[i]] = f[s[j]]
      OBVIOUS
    <3>2. C(s[j], s[i]) = C(s[j], s[j])
      BY <1>7, <1>11, <3>1
    <3>3. C(s[j], s[j]) = 0
      BY <1>5, <1>11, Zenon
    <3> QED BY <3>2, <3>3
  <2>2. o[<< s[j], s[i] >>] = D(s[j], s[i])
    BY <1>1, <1>11, <2>1, Zenon DEF ThenWith
  <2> QED BY <1>6, <1>9, <1>11, <2>2, Zenon
<1>13. ASSUME NEW k \in i..j PROVE f[s[k]] = f[s[i]]
  <2>1. CASE k = i \/ k = j
    BY <2>1
  <2>2. CASE k # i /\ k # j
    <3>1. k \in DOMAIN s /\ i < k /\ k < j
      BY <1>8, <2>2
    <3>2. s[k] \in V /\ C(s[k], s[i]) # -1 /\ C(s[j], s[k]) # -1
      BY <1>8, <1>10, <3>1, Zenon
    <3>3. C(s[i], s[k]) # -1
      BY <1>7, <1>11, <3>2, Zenon
    <3>4. C(s[k], s[i]) = 0
      <4>1. C(s[k], s[i]) \in {-1, 0, 1} /\ (C(s[k], s[i]) = 1 => C(s[i], s[k]) = -1)
        BY <1>5, <1>11, <3>2, Zenon
      <4> QED BY <3>2, <3>3, <4>1
    <3> QED BY <1>5, <1>11, <3>2, <3>4, Zenon
  <2> QED BY <2>1, <2>2
<1> QED BY <1>12, <1>13 DEF D

\* What sort_by is given for the files: by the directory, then by the version.
ParentsOf == [p \in Trees!Visible |-> Trees!Parent(p)]

NamesOf == [p \in Trees!Visible |-> Trees!FileName(p)]

FilesOrder == Thened(PathsOrder, ParentsOf, Compares, NamesOf, Trees!Visible)

LEMMA VisibleFacts ==
    ASSUME TreeInv, FileNamesSpelled, NEW p \in Trees!Visible
    PROVE  /\ p \in Paths /\ Len(p) \in Nat \ {0}
           /\ Trees!Parent(p) = Front(p, Len(p) - 1) /\ Trees!Parent(p) \in Paths
           /\ Len(Trees!Parent(p)) = Len(p) - 1
           /\ Trees!FileName(p) = p[Len(p)] /\ Trees!FileName(p) \in FileNames
           /\ Trees!FileName(p) \in Texts
<1>1. p \in DOMAIN tree
  BY DEF Trees!Visible
<1>2. p \in Paths /\ Len(p) > 0
  BY <1>1 DEF TreeInv
<1>3. Len(p) \in Nat \ {0} /\ Len(p) - 1 \in 0..Len(p) /\ Len(p) \in DOMAIN p
  <2>1. Len(p) \in Nat /\ DOMAIN p = 1..Len(p)
    BY <1>2 DEF Paths
  <2> QED BY <1>2, <2>1
<1>4. Front(p, Len(p) - 1) \in Paths /\ Len(Front(p, Len(p) - 1)) = Len(p) - 1
  BY <1>2, <1>3, FrontFacts
<1>5. p[Len(p)] \in FileNames
  BY <1>2, <1>3 DEF Paths
<1>6. FileNames \subseteq Texts
  BY DEF FileNamesSpelled, Texts
<1> QED BY <1>1, <1>2, <1>3, <1>4, <1>5, <1>6 DEF Trees!Parent, Trees!FileName, Front

LEMMA FilesOrdered ==
    ASSUME TreeInv, FileNamesSpelled, MaxSegment \in Nat
    PROVE  /\ ParentsOf \in [Trees!Visible -> Paths] /\ NamesOf \in [Trees!Visible -> Texts]
           /\ Ordering(FilesOrder, Trees!Visible)
           /\ \A p, q \in Trees!Visible : FilesOrder[<< p, q >>] = Trees!FileOrder(p, q)
<1>1. ParentsOf \in [Trees!Visible -> Paths] /\ NamesOf \in [Trees!Visible -> Texts]
  BY VisibleFacts DEF ParentsOf, NamesOf
<1>2. \A p \in Trees!Visible : ParentsOf[p] = Trees!Parent(p) /\ NamesOf[p] = Trees!FileName(p)
  BY DEF ParentsOf, NamesOf
<1>3. ASSUME NEW p \in Trees!Visible, NEW q \in Trees!Visible,
             ParentsOf[p] = ParentsOf[q], NamesOf[p] = NamesOf[q]
      PROVE  p = q
  <2> DEFINE m == Len(p) - 1
  <2>1. /\ p \in Paths /\ Len(p) \in Nat \ {0} /\ q \in Paths /\ Len(q) \in Nat \ {0}
        /\ Trees!Parent(p) = Front(p, Len(p) - 1) /\ Trees!Parent(q) = Front(q, Len(q) - 1)
        /\ Len(Trees!Parent(p)) = Len(p) - 1 /\ Len(Trees!Parent(q)) = Len(q) - 1
        /\ Trees!FileName(p) = p[Len(p)] /\ Trees!FileName(q) = q[Len(q)]
    BY VisibleFacts
  <2>3. Trees!Parent(p) = Trees!Parent(q) /\ Trees!FileName(p) = Trees!FileName(q)
    BY <1>2, <1>3
  <2>4. Len(p) = Len(q) /\ Front(p, m) = Front(q, m)
    BY <2>1, <2>3
  <2>5. p[Len(p)] = q[Len(p)]
    BY <2>1, <2>3, <2>4
  <2>6. m \in 0..Len(p) /\ m \in 0..Len(q)
    BY <2>1, <2>4
  <2>7. \A i \in 1..m : Front(p, m)[i] = p[i] /\ Front(q, m)[i] = q[i]
    BY <2>1, <2>6, FrontFacts
  <2>8. \A i \in 1..Len(p) : p[i] = q[i]
    <3>1. \A i \in 1..Len(p) : i = Len(p) \/ i \in 1..m
      BY <2>1
    <3> HIDE DEF m
    <3> QED BY <2>4, <2>5, <2>7, <3>1
  <2> QED BY <2>1, <2>4, <2>8, PathsEqual
<1>4. Ordering(FilesOrder, Trees!Visible)
  <2> DEFINE V == Trees!Visible
  <2>1. \A x, y \in V : ParentsOf[x] = ParentsOf[y] /\ NamesOf[x] = NamesOf[y] => x = y
    BY <1>3, Zenon
  <2>2. Ordering(PathsOrder, Paths) /\ Ordering(Compares, Texts)
    BY PathsOrdered, ComparesOrdered
  <2>3. ParentsOf \in [V -> Paths] /\ NamesOf \in [V -> Texts]
    BY <1>1
  <2> HIDE DEF V
  <2>4. Ordering(Thened(PathsOrder, ParentsOf, Compares, NamesOf, V), V)
    BY <2>1, <2>2, <2>3, ThenOrders
  <2> QED BY <2>4 DEF FilesOrder, V
<1>5. ASSUME NEW p \in Trees!Visible, NEW q \in Trees!Visible
      PROVE  FilesOrder[<< p, q >>] = Trees!FileOrder(p, q)
  <2>1. FilesOrder[<< p, q >>] =
           ThenWith(PathsOrder[<< ParentsOf[p], ParentsOf[q] >>], Compares[<< NamesOf[p], NamesOf[q] >>])
    BY DEF FilesOrder, Thened
  <2>2. /\ ParentsOf[p] \in Paths /\ ParentsOf[q] \in Paths
        /\ NamesOf[p] \in Texts /\ NamesOf[q] \in Texts
    BY <1>1
  <2>3. PathsOrder[<< ParentsOf[p], ParentsOf[q] >>] = Trees!PathOrder(ParentsOf[p], ParentsOf[q])
    BY <2>2 DEF PathsOrder
  <2>4. Compares[<< NamesOf[p], NamesOf[q] >>] = Compare(NamesOf[p], NamesOf[q])
    BY <2>2 DEF Compares
  <2> QED BY <1>2, <2>1, <2>3, <2>4, TreesCompare, Zenon DEF Trees!FileOrder, Trees!ThenWith, ThenWith
<1> QED BY <1>1, <1>4, <1>5

\* The files of a directory follow one another, in the order of their versions, whatever
\* the tree, its directories and the spelling of their names.
THEOREM FilesAlwaysOrdered ==
    ASSUME FileNamesSpelled, MaxDepth \in Nat, MaxSegment \in Nat
    PROVE  InputsSpec => []OrderedWithinDirectories
<1>1. TreeInv => OrderedWithinDirectories
  <2> SUFFICES ASSUME TreeInv PROVE OrderedWithinDirectories
    OBVIOUS
  <2> DEFINE V == Trees!Visible
             w == Trees!Walk(<< >>)
             r == Trees!CollectSqlFiles
             before == {pair \in V \X V : Trees!FileOrder(pair[1], pair[2]) < 0}
  <2>1. w \in Seq(DOMAIN tree) /\ Elements(w) = V
    BY WalkCollects, BeneathTheRoot
  <2>2. r = Trees!Sorted(w, before)
    <3>1. Trees!Elements(w) = V
      BY <2>1, TreesElements
    <3> HIDE DEF V
    <3> QED BY <3>1 DEF Trees!CollectSqlFiles
  <2>3. /\ ParentsOf \in [V -> Paths] /\ NamesOf \in [V -> Texts]
        /\ Ordering(FilesOrder, V)
        /\ \A p, q \in V : FilesOrder[<< p, q >>] = Trees!FileOrder(p, q)
    BY FilesOrdered
  <2>4. \A p \in V : ParentsOf[p] = Trees!Parent(p) /\ NamesOf[p] = Trees!FileName(p)
    BY DEF ParentsOf, NamesOf
  <2> HIDE DEF w, r
  <2>5. w \in Seq(V)
    <3>1. \A i \in 1..Len(w) : w[i] \in V
      BY <2>1 DEF Elements
    <3> HIDE DEF V
    <3> QED BY <2>1, <3>1
  <2> HIDE DEF V
  <2>6. \A p, q \in V : /\ FilesOrder[<< p, q >>] \in {-1, 0, 1}
                        /\ << p, q >> \in before <=> FilesOrder[<< p, q >>] = -1
    <3>1. FilesOrder \in [V \X V -> {-1, 0, 1}]
      BY <2>3, Zenon DEF Ordering
    <3>2. \A p, q \in V : FilesOrder[<< p, q >>] \in {-1, 0, 1}
      BY <3>1
    <3>3. \A x \in {-1, 0, 1} : x < 0 <=> x = -1
      OBVIOUS
    <3>4. \A p, q \in V : << p, q >> \in before <=> Trees!FileOrder(p, q) < 0
      OBVIOUS
    <3> HIDE DEF before
    <3> QED BY <2>3, <3>2, <3>3, <3>4
  <2> HIDE DEF before
  <2>7. StrictBefore(before, V)
    <3>1. /\ \A x \in V : FilesOrder[<< x, x >>] = 0
          /\ \A x, y, z \in V : FilesOrder[<< x, y >>] = -1 /\ FilesOrder[<< y, z >>] = -1
                                => FilesOrder[<< x, z >>] = -1
      BY <2>3, Zenon DEF Ordering
    <3>2. -1 # 0
      OBVIOUS
    <3>3. \A x, y, z \in V :
             << x, y >> \in before /\ << y, z >> \in before => << x, z >> \in before
      BY <2>6, <3>1, Zenon
    <3>4. ASSUME NEW x \in V, NEW y \in V, << x, y >> \in before PROVE << y, x >> \notin before
      <4>1. << y, x >> \in before => << x, x >> \in before
        BY <3>3, <3>4, Zenon
      <4>2. << x, x >> \notin before
        BY <2>6, <3>1
      <4> QED BY <4>1, <4>2
    <3> QED BY <3>3, <3>4, Zenon DEF StrictBefore
  <2>8. r \in Seq(V) /\ InOrderBy(r, before)
    BY <2>2, <2>5, <2>7, SortedFacts
  <2>9. \A i, j \in DOMAIN r : i < j => FilesOrder[<< r[j], r[i] >>] # -1
    <3>1. \A i \in DOMAIN r : r[i] \in V
      BY <2>8
    <3> QED BY <2>6, <2>8, <3>1, Zenon DEF InOrderBy
  <2>10. ASSUME NEW i \in DOMAIN r, NEW j \in DOMAIN r, i < j,
                Trees!Parent(r[i]) = Trees!Parent(r[j])
         PROVE  Trees!Ranked(r, i, j)
    <3>1. \A k \in DOMAIN r : r[k] \in V
      BY <2>8
    <3>2. DOMAIN r = 1..Len(r) /\ Len(r) \in Nat
      BY <2>8
    <3>3. ParentsOf[r[i]] = ParentsOf[r[j]]
      BY <2>4, <2>10, <3>1
    <3>4. /\ Compares[<< NamesOf[r[i]], NamesOf[r[j]] >>] # 1
          /\ \A k \in i..j : ParentsOf[r[k]] = ParentsOf[r[i]]
      <4>1. Ordering(PathsOrder, Paths) /\ Ordering(Compares, Texts)
        BY PathsOrdered, ComparesOrdered
      <4>2. FilesOrder = Thened(PathsOrder, ParentsOf, Compares, NamesOf, V)
        BY DEF FilesOrder, V
      <4>3. NoneLess(Thened(PathsOrder, ParentsOf, Compares, NamesOf, V), r)
        BY <2>9, <4>2, Zenon DEF NoneLess
      <4>4. r \in Seq(V) /\ ParentsOf \in [V -> Paths] /\ NamesOf \in [V -> Texts]
        BY <2>3, <2>8
      <4>5. Together(ParentsOf, Compares, NamesOf, r)
        BY <4>1, <4>3, <4>4, ThenedTogether
      <4> QED BY <2>10, <3>3, <4>5, Zenon DEF Together
    <3>5. \A k \in i..j : k \in DOMAIN r
      BY <3>2
    <3>6. \A k \in i..j : Trees!Parent(r[k]) = Trees!Parent(r[i])
      BY <2>4, <3>1, <3>4, <3>5
    <3>7. Trees!Compare(Trees!FileName(r[i]), Trees!FileName(r[j])) <= 0
      <4> DEFINE s == NamesOf[r[i]]
                 t == NamesOf[r[j]]
      <4>1. s \in Texts /\ t \in Texts
        BY <2>3, <3>1
      <4>2. s = Trees!FileName(r[i]) /\ t = Trees!FileName(r[j])
        BY <2>4, <3>1
      <4> HIDE DEF s, t
      <4>3. Compares[<< s, t >>] = Compare(s, t)
        BY <4>1 DEF Compares
      <4>4. Compares[<< s, t >>] \in {-1, 0, 1}
        <5>1. Compares \in [Texts \X Texts -> {-1, 0, 1}]
          BY ComparesOrdered, Zenon DEF Ordering
        <5> HIDE DEF Compares
        <5> QED BY <4>1, <5>1
      <4>5. Compares[<< s, t >>] # 1
        BY <3>4 DEF s, t
      <4>6. Compare(s, t) <= 0
        BY <4>3, <4>4, <4>5
      <4> QED BY <4>2, <4>6, TreesCompare
    <3> QED BY <3>6, <3>7 DEF Trees!Ranked
  <2> QED BY <2>10, Zenon DEF OrderedWithinDirectories, Trees!OrderedWithinDirectories, r
<1> QED BY <1>1, TreeAlwaysGrown, PTL
=============================================================================
