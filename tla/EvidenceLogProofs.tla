------------------------- MODULE EvidenceLogProofs -------------------------
(***************************************************************************)
(* The evidence log keeps its chain, for every set of writers and contents *)
(* and every number of rows, deaths and damages; what a verification       *)
(* passes was recorded as it stands; and the writers go over the budget by *)
(* no more than one blob for each but one of them.                         *)
(***************************************************************************)
EXTENDS EvidenceLog, SequenceTheorems, FiniteSetTheorems, WellFoundedInduction, TLAPS

\* The entries of the first rows are a hash.
LEMMA PrefixIsHash ==
  ASSUME NEW list \in Seq(Row), NEW n \in 0..Len(list)
  PROVE  Prefix(list, n) \in Hash /\ Len(Prefix(list, n)) = n
<1>1. \A i \in 1..n : list[i].entry \in Entry
  <2>1. \A i \in 1..n : list[i] \in Row
    BY LenProperties
  <2> QED
    BY <2>1 DEF Row
<1>2. n \in Nat /\ Prefix(list, n) \in [1..n -> Entry]
  BY <1>1 DEF Prefix
<1> QED
  BY <1>2 DEF Hash

\* The hash of a row continues that of the row before it.
LEMMA PrefixGrows ==
  ASSUME NEW list \in Seq(Row), NEW i \in 1..Len(list)
  PROVE  Append(Prefix(list, i - 1), list[i].entry) = Prefix(list, i)
<1>1. list[i] \in Row
  BY ElementOfSeq
<1>e. list[i].entry \in Entry
  BY <1>1 DEF Row
<1>l. i \in Nat /\ i - 1 \in 0..Len(list) /\ i \in 0..Len(list)
  BY LenProperties
<1>2. /\ Prefix(list, i - 1) \in Seq(Entry) /\ Len(Prefix(list, i - 1)) = i - 1
      /\ Prefix(list, i) \in Seq(Entry) /\ Len(Prefix(list, i)) = i
  BY <1>l, PrefixIsHash DEF Hash
<1> DEFINE s == Append(Prefix(list, i - 1), list[i].entry)
<1>3. s \in Seq(Entry) /\ Len(s) = i
  BY <1>e, <1>l, <1>2, AppendProperties
<1>4. \A k \in 1..i : s[k] = Prefix(list, i)[k]
  <2>1. \A k \in 1..(i - 1) : s[k] = Prefix(list, i - 1)[k]
    BY <1>e, <1>2, AppendProperties
  <2>2. s[i] = list[i].entry
    BY <1>e, <1>l, <1>2, AppendProperties
  <2> QED
    BY <2>1, <2>2, <1>l DEF Prefix
<1> QED
  BY <1>2, <1>3, <1>4, SeqEqual

\* A new row leaves the entries before it as they are.
LEMMA PrefixStays ==
  ASSUME NEW list \in Seq(Row), NEW row \in Row, NEW n \in 0..Len(list)
  PROVE  Prefix(Append(list, row), n) = Prefix(list, n)
  BY DEF Prefix

-----------------------------------------------------------------------------

USE DEF Entry

\* What a new row is chained to is a hash, also when there is no row.
LEMMA LastHashIsHash ==
  ASSUME TypeOK
  PROVE  LastHash \in Hash
<1>1. rows \in Seq(Row)
  BY DEF TypeOK
<1>2. CASE rows = <<>>
  BY <1>2, EmptySeq DEF LastHash, Hash
<1>3. CASE rows # <<>>
  <2>1. Len(rows) \in 1..Len(rows)
    BY <1>1, <1>3, EmptySeq
  <2>2. rows[Len(rows)] \in Row
    BY <1>1, <2>1, ElementOfSeq
  <2> QED
    BY <1>3, <2>2 DEF LastHash, Row
<1> QED
  BY <1>2, <1>3

\* The row that record_evidence adds is a row, and continues the chain.
LEMMA RecordKeepsChain ==
  ASSUME TypeOK, NEW entry \in Entry, Record(entry)
  PROVE  /\ rows' \in Seq(Row) /\ appended' \subseteq Hash
         /\ Len(rows') = Len(rows) + 1 /\ rows'[Len(rows')].entry = entry
         /\ \A i \in 1..Len(rows) : rows'[i] = rows[i]
         /\ rows'[Len(rows')].record_hash \in appended'
         /\ Chained(rows) => Chained(rows')
<1> DEFINE row == [entry |-> entry, previous_hash |-> LastHash,
                   record_hash |-> Append(LastHash, entry)]
<1>1. LastHash \in Hash /\ Append(LastHash, entry) \in Hash
  BY LastHashIsHash DEF Hash
<1>2. row \in Row
  BY <1>1 DEF Row
<1>3. rows \in Seq(Row) /\ rows' = Append(rows, row)
  BY DEF TypeOK, Record
<1>4. /\ rows' \in Seq(Row) /\ Len(rows') = Len(rows) + 1 /\ rows'[Len(rows')] = row
      /\ \A i \in 1..Len(rows) : rows'[i] = rows[i]
  BY <1>2, <1>3, AppendProperties, LenProperties
<1>l. Len(rows) \in Nat
  BY <1>3, LenProperties
<1>5. appended' \subseteq Hash /\ rows'[Len(rows')].record_hash \in appended'
  <2>1. appended' = appended \union {row.record_hash}
    BY DEF Record
  <2> QED
    BY <1>1, <1>4, <2>1 DEF TypeOK
<1>6. ASSUME Chained(rows) PROVE Chained(rows')
  <2>1. LastHash = Prefix(rows, Len(rows))
    <3>1. CASE rows = <<>>
      BY <3>1 DEF LastHash, Prefix
    <3>2. CASE rows # <<>>
      BY <3>2, <1>3, <1>6 DEF LastHash, Chained
    <3> QED
      BY <3>1, <3>2
  <2>2. \A n \in 0..Len(rows) : Prefix(rows', n) = Prefix(rows, n)
    BY <1>2, <1>3, PrefixStays
  <2>3. \A i \in 1..Len(rows) :
          rows'[i].previous_hash = Prefix(rows', i - 1) /\ rows'[i].record_hash = Prefix(rows', i)
    <3>1. \A i \in 1..Len(rows) : i \in 0..Len(rows) /\ i - 1 \in 0..Len(rows)
      BY <1>l
    <3> QED
      BY <3>1, <2>2, <1>4, <1>6 DEF Chained
  <2>4. row.previous_hash = Prefix(rows', Len(rows') - 1)
    <3>1. Len(rows') - 1 = Len(rows) /\ Len(rows) \in 0..Len(rows)
      BY <1>4, <1>l
    <3> QED
      BY <3>1, <2>1, <2>2, <1>4
  <2>5. Append(Prefix(rows', Len(rows') - 1), row.entry) = Prefix(rows', Len(rows'))
    <3>1. Len(rows') \in 1..Len(rows')
      BY <1>4, <1>l
    <3> QED
      BY <3>1, <1>4, PrefixGrows
  <2>6. row.record_hash = Prefix(rows', Len(rows'))
    BY <2>4, <2>5
  <2>7. \A i \in 1..Len(rows') : i \in 1..Len(rows) \/ i = Len(rows')
    BY <1>4, <1>l
  <2> QED
    BY <2>3, <2>4, <2>6, <2>7, <1>4 DEF Chained
<1> QED
  BY <1>4, <1>5, <1>6

\* A step that leaves rows and reader alone, and files unless they are put in place.
Quiet ==
  /\ UNCHANGED <<rows, reader, appended, damaged>>
  /\ faults' \in Nat
  /\ \A c \in Content : file'[c] = file[c] \/ file'[c] = "good"

\* Such a step keeps what is known of rows and reader.
LEMMA QuietKeeps ==
  ASSUME EvidenceInvariant, Quiet
  PROVE  /\ LogIsSound' /\ NoFalseAlarm' /\ HashesAppended' /\ ReaderPosition'
<1>t. rows \in Seq(Row) /\ reader.rows \in Seq(Row)
  BY DEF EvidenceInvariant, TypeOK, ReaderState
<1>e. /\ \A i \in 1..Len(rows) : rows[i].entry \in Entry
      /\ \A i \in 1..Len(reader.rows) : reader.rows[i].entry \in Entry
  <2>1. /\ \A i \in 1..Len(rows) : rows[i] \in Row
        /\ \A i \in 1..Len(reader.rows) : reader.rows[i] \in Row
    BY <1>t, ElementOfSeq
  <2> QED
    BY <2>1 DEF Row
<1>f. \A c \in Content : file[c] = "good" => file'[c] = "good"
  BY DEF Quiet
<1>1. ASSUME ~damaged' PROVE Chained(rows)' /\ Backed(rows)'
  <2>1. Chained(rows) /\ Backed(rows)
    BY <1>1 DEF EvidenceInvariant, LogIsSound, Quiet
  <2> QED
    BY <1>e, <1>f, <2>1 DEF Quiet, Chained, Backed, Prefix
<1>2. ASSUME ~damaged' PROVE Chained(reader.rows)' /\ Backed(reader.rows)'
  <2>1. Chained(reader.rows) /\ Backed(reader.rows)
    BY <1>2 DEF EvidenceInvariant, ReaderPosition, Quiet
  <2> QED
    BY <1>e, <1>f, <2>1 DEF Quiet, Chained, Backed, Prefix
<1> QED
  BY <1>1, <1>2 DEF EvidenceInvariant, LogIsSound, NoFalseAlarm, HashesAppended, ReaderPosition,
       Quiet, Prefix

\* Steps of a writer before its row.
LEMMA WriterSteps ==
  ASSUME EvidenceInvariant, NEW w \in Writer,
         \/ \E c \in Content : StoreEvidenceBlob(w, c)
         \/ LookAtBlob(w) \/ AskForReference(w) \/ PutBlob(w) \/ WriterStops(w)
  PROVE  EvidenceInvariant'
<1> USE EvidenceAssumption
<1>1. ASSUME NEW c \in Content, StoreEvidenceBlob(w, c) PROVE EvidenceInvariant'
  <2>1. TypeOK'
    BY <1>1 DEF EvidenceInvariant, TypeOK, StoreEvidenceBlob, At, WriterState
  <2>2. Quiet /\ FilesInPlace'
    BY <1>1 DEF EvidenceInvariant, TypeOK, StoreEvidenceBlob, Quiet, FilesInPlace, At, WriterState
  <2> QED
    BY <2>1, <2>2, QuietKeeps DEF EvidenceInvariant
<1>2. CASE LookAtBlob(w)
  <2>1. TypeOK'
    BY <1>2 DEF EvidenceInvariant, TypeOK, LookAtBlob, At, Goto, WriterState
  <2>2. Quiet /\ FilesInPlace'
    BY <1>2 DEF EvidenceInvariant, TypeOK, LookAtBlob, Quiet, FilesInPlace, At, Goto, WriterState
  <2> QED
    BY <2>1, <2>2, QuietKeeps DEF EvidenceInvariant
<1>3. CASE AskForReference(w)
  <2>a. At(w, "ask") /\ (Rest(w) \/ Goto(w, "put"))
    BY <1>3 DEF AskForReference
  <2>1. TypeOK'
    <3>1. CASE Rest(w)
      BY <1>3, <3>1 DEF EvidenceInvariant, TypeOK, AskForReference, At, Rest, Resting, WriterState
    <3>2. CASE Goto(w, "put")
      BY <1>3, <2>a, <3>2 DEF EvidenceInvariant, TypeOK, AskForReference, At, Goto, WriterState
    <3> QED
      BY <2>a, <3>1, <3>2
  <2>2. Quiet /\ FilesInPlace'
    <3>1. CASE Rest(w)
      BY <1>3, <3>1 DEF EvidenceInvariant, TypeOK, AskForReference, Quiet, FilesInPlace, At, Rest,
           Resting, WriterState
    <3>2. CASE Goto(w, "put")
      BY <1>3, <3>2 DEF EvidenceInvariant, TypeOK, AskForReference, Quiet, FilesInPlace, At, Goto,
           WriterState
    <3> QED
      BY <2>a, <3>1, <3>2
  <2> QED
    BY <2>1, <2>2, QuietKeeps DEF EvidenceInvariant
<1>4. CASE PutBlob(w)
  <2>1. TypeOK'
    BY <1>4 DEF EvidenceInvariant, TypeOK, PutBlob, At, Goto, WriterState
  <2>2. Quiet /\ FilesInPlace'
    BY <1>4 DEF EvidenceInvariant, TypeOK, PutBlob, Quiet, FilesInPlace, At, Goto, WriterState
  <2> QED
    BY <2>1, <2>2, QuietKeeps DEF EvidenceInvariant
<1>5. CASE WriterStops(w)
  <2>1. TypeOK'
    BY <1>5 DEF EvidenceInvariant, TypeOK, WriterStops, Fault, At, Rest, Resting, WriterState
  <2>2. Quiet /\ FilesInPlace'
    BY <1>5 DEF EvidenceInvariant, TypeOK, WriterStops, Fault, Quiet, FilesInPlace, At, Rest,
         Resting, WriterState
  <2> QED
    BY <2>1, <2>2, QuietKeeps DEF EvidenceInvariant
<1> QED
  BY <1>1, <1>2, <1>3, <1>4, <1>5

\* A new row continues the chain, and its file is in place.
LEMMA RecordSteps ==
  ASSUME EvidenceInvariant, NEW w \in Writer, RecordEvidence(w) \/ AppendRow(w)
  PROVE  EvidenceInvariant'
<1> USE EvidenceAssumption
<1>1. PICK entry \in Entry :
        /\ Record(entry) /\ UNCHANGED <<file, reader, damaged, faults>>
        /\ entry # None => writer[w].entry = entry /\ At(w, "append")
        /\ writer' = writer \/ Rest(w)
  BY DEF RecordEvidence, AppendRow, EvidenceInvariant, TypeOK, WriterState
<1>2. TypeOK
  BY DEF EvidenceInvariant
<1>3. /\ rows' \in Seq(Row) /\ appended' \subseteq Hash
      /\ Len(rows') = Len(rows) + 1 /\ rows'[Len(rows')].entry = entry
      /\ \A i \in 1..Len(rows) : rows'[i] = rows[i]
      /\ rows'[Len(rows')].record_hash \in appended'
      /\ Chained(rows) => Chained(rows')
  BY <1>1, <1>2, RecordKeepsChain
<1>4. Len(rows) \in Nat /\ \A i \in 1..Len(rows') : i \in 1..Len(rows) \/ i = Len(rows')
  <2>1. Len(rows) \in Nat
    BY <1>2, LenProperties DEF TypeOK
  <2> QED
    BY <2>1, <1>3
<1>5. TypeOK'
  <2>1. CASE writer' = writer
    BY <2>1, <1>1, <1>2, <1>3 DEF TypeOK, At
  <2>2. CASE Rest(w)
    <3>1. /\ writer' \in [Writer -> WriterState]
          /\ \A x \in Writer : writer'[x].at = "idle" <=> writer'[x].entry = None
      BY <2>2, <1>2 DEF TypeOK, At, Rest, Resting, WriterState
    <3> QED
      BY <3>1, <1>1, <1>2, <1>3 DEF TypeOK, At
  <2> QED
    BY <2>1, <2>2, <1>1
<1>6. ASSUME ~damaged' PROVE Chained(rows)' /\ Backed(rows)'
  <2>1. Chained(rows) /\ Backed(rows)
    BY <1>1, <1>6 DEF EvidenceInvariant, LogIsSound
  <2>2. entry # None => file[entry] = "good"
    BY <1>1, <1>6 DEF EvidenceInvariant, FilesInPlace
  <2>3. Backed(rows)'
    BY <1>1, <1>3, <1>4, <2>1, <2>2 DEF Backed
  <2> QED
    BY <2>1, <2>3, <1>3
<1>7. FilesInPlace'
  BY <1>1, <1>2 DEF EvidenceInvariant, FilesInPlace, TypeOK, At, Rest, Resting
<1>8. HashesAppended'
  <2>1. appended \subseteq appended'
    BY <1>1 DEF Record
  <2> QED
    BY <1>1, <1>3, <1>4, <2>1 DEF EvidenceInvariant, HashesAppended
<1>9. ReaderPosition' /\ NoFalseAlarm'
  BY <1>1 DEF EvidenceInvariant, ReaderPosition, NoFalseAlarm, Chained, Backed, Prefix
<1> QED
  BY <1>5, <1>6, <1>7, <1>8, <1>9 DEF EvidenceInvariant, LogIsSound

\* The reader moves on.
LEMMA ReaderSteps ==
  ASSUME EvidenceInvariant, ListEvidence \/ CheckRow \/ ChainIsValid
  PROVE  EvidenceInvariant'
<1>1. TypeOK
  BY DEF EvidenceInvariant
<1>2. UNCHANGED <<rows, file, writer, appended, damaged, faults>>
  BY DEF ListEvidence, CheckRow, ChainIsValid
<1>3. LogIsSound' /\ FilesInPlace'
  BY <1>2 DEF EvidenceInvariant, LogIsSound, FilesInPlace, Chained, Backed, Prefix, At
<1>4. CASE ListEvidence
  <2>1. reader' = [at |-> "check", rows |-> rows, next |-> 1, previous |-> <<>>]
    BY <1>4 DEF ListEvidence
  <2>2. TypeOK'
    <3>1. <<>> \in Hash /\ Len(rows) \in Nat
      BY <1>1, EmptySeq, LenProperties DEF TypeOK, Hash
    <3> QED
      BY <1>1, <1>2, <2>1, <3>1 DEF TypeOK, ReaderState, At
  <2>3. HashesAppended' /\ NoFalseAlarm'
    BY <1>2, <2>1 DEF EvidenceInvariant, HashesAppended, NoFalseAlarm
  <2>4. ReaderPosition'
    <3>1. ~damaged' => Chained(reader.rows)' /\ Backed(reader.rows)'
      BY <1>2, <2>1 DEF EvidenceInvariant, LogIsSound, Chained, Backed, Prefix
    <3>2. <<>> = Prefix(rows, 0)
      BY DEF Prefix
    <3> QED
      BY <2>1, <3>1, <3>2 DEF ReaderPosition, Prefix
  <2> QED
    BY <1>3, <2>2, <2>3, <2>4 DEF EvidenceInvariant
<1>5. CASE CheckRow
  <2>1. /\ reader.at = "check" /\ reader.rows \in Seq(Row) /\ reader.next \in 1..Len(reader.rows)
        /\ Len(reader.rows) \in Nat /\ reader.previous \in Hash /\ reader.next \in Nat
    <3>1. reader.rows \in Seq(Row) /\ reader.next \in Nat \ {0} /\ reader.previous \in Hash
      BY <1>1 DEF TypeOK, ReaderState
    <3>2. Len(reader.rows) \in Nat
      BY <3>1, LenProperties
    <3> QED
      BY <1>5, <3>1, <3>2 DEF CheckRow
  <2>2. /\ reader.previous = Prefix(reader.rows, reader.next - 1)
        /\ \A i \in 1..(reader.next - 1) : reader.rows[i].record_hash = Prefix(reader.rows, i)
    BY <2>1 DEF EvidenceInvariant, ReaderPosition
  <2>3. Expected = Prefix(reader.rows, reader.next) /\ Expected \in Hash
    <3>1. Append(Prefix(reader.rows, reader.next - 1), RowInHand.entry) = Prefix(reader.rows, reader.next)
      BY <2>1, PrefixGrows DEF RowInHand
    <3>2. Prefix(reader.rows, reader.next) \in Hash
      BY <2>1, PrefixIsHash
    <3> QED
      BY <2>2, <3>1, <3>2 DEF Expected
  <2>4. CASE RowHolds
    <3>1. reader' = [reader EXCEPT !.next = @ + 1, !.previous = Expected]
      BY <1>5, <2>4 DEF CheckRow
    <3>2. /\ reader'.at = "check" /\ reader'.rows = reader.rows
          /\ reader'.next = reader.next + 1 /\ reader'.previous = Expected
      BY <1>1, <2>1, <3>1 DEF TypeOK, ReaderState
    <3>3. TypeOK'
      <4>1. reader' \in ReaderState
        <5>1. reader \in ReaderState /\ reader.next + 1 \in Nat \ {0}
          BY <1>1, <2>1 DEF TypeOK
        <5> QED
          BY <2>3, <3>1, <5>1 DEF ReaderState
      <4> QED
        BY <1>1, <1>2, <2>1, <3>2, <4>1 DEF TypeOK, At
    <3>4. HashesAppended' /\ NoFalseAlarm'
      BY <1>2, <3>2 DEF EvidenceInvariant, HashesAppended, NoFalseAlarm
    <3>5. ReaderPosition'
      <4>1. \A i \in 1..reader.next : reader.rows[i].record_hash = Prefix(reader.rows, i)
        <5>1. reader.rows[reader.next].record_hash = Prefix(reader.rows, reader.next)
          BY <2>3, <2>4 DEF RowHolds, RowInHand
        <5> QED
          BY <5>1, <2>1, <2>2
      <4>2. reader'.next - 1 = reader.next
        BY <2>1, <3>2
      <4>3. ~damaged' => Chained(reader.rows)' /\ Backed(reader.rows)'
        BY <1>2, <3>2 DEF EvidenceInvariant, ReaderPosition, Chained, Backed, Prefix
      <4> QED
        BY <2>3, <3>2, <4>1, <4>2, <4>3 DEF ReaderPosition, Prefix
    <3> QED
      BY <1>3, <3>3, <3>4, <3>5 DEF EvidenceInvariant
  <2>5. CASE ~RowHolds
    <3>1. reader' = [reader EXCEPT !.at = "failed"]
      BY <1>5, <2>5 DEF CheckRow
    <3>2. /\ reader'.at = "failed" /\ reader'.rows = reader.rows
          /\ reader'.next = reader.next
      BY <1>1, <3>1 DEF TypeOK, ReaderState
    <3>3. TypeOK'
      BY <1>1, <1>2, <3>1 DEF TypeOK, ReaderState, At
    <3>4. damaged
      <4>1. SUFFICES ASSUME ~damaged PROVE RowHolds
        BY <2>5
      <4>2. Chained(reader.rows) /\ Backed(reader.rows)
        BY <4>1 DEF EvidenceInvariant, ReaderPosition
      <4>3. /\ RowInHand.previous_hash = Prefix(reader.rows, reader.next - 1)
            /\ RowInHand.record_hash = Prefix(reader.rows, reader.next)
            /\ RowInHand.entry # None => file[RowInHand.entry] = "good"
        BY <2>1, <4>2 DEF Chained, Backed, RowInHand
      <4> QED
        BY <2>2, <2>3, <4>3 DEF RowHolds
    <3> QED
      BY <1>2, <1>3, <3>2, <3>3, <3>4 DEF EvidenceInvariant, HashesAppended, NoFalseAlarm, ReaderPosition
  <2> QED
    BY <2>4, <2>5
<1>6. CASE ChainIsValid
  <2>1. reader' = [reader EXCEPT !.at = "passed"] /\ reader.at = "check" /\ reader.next > Len(reader.rows)
    BY <1>6 DEF ChainIsValid
  <2>2. reader' \in ReaderState /\ reader'.at = "passed" /\ reader'.rows = reader.rows
        /\ reader'.next = reader.next /\ reader'.previous = reader.previous
    BY <1>1, <2>1 DEF TypeOK, ReaderState
  <2>3. TypeOK'
    BY <1>1, <1>2, <2>2 DEF TypeOK, At
  <2>4. reader.next = Len(reader.rows) + 1
    <3>1. reader.rows \in Seq(Row) /\ reader.next \in Nat /\ reader.next <= Len(reader.rows) + 1
      BY <1>1 DEF TypeOK, ReaderState
    <3>2. Len(reader.rows) \in Nat
      BY <3>1, LenProperties
    <3> QED
      BY <2>1, <3>1, <3>2
  <2>5. ReaderPosition'
    <3>1. ~damaged' => Chained(reader.rows)' /\ Backed(reader.rows)'
      BY <1>2, <2>2 DEF EvidenceInvariant, ReaderPosition, Chained, Backed, Prefix
    <3> QED
      BY <2>1, <2>2, <2>4, <3>1 DEF EvidenceInvariant, ReaderPosition, Prefix
  <2> QED
    BY <1>2, <1>3, <2>2, <2>3, <2>5 DEF EvidenceInvariant, HashesAppended, NoFalseAlarm
<1> QED
  BY <1>4, <1>5, <1>6

\* Damage makes no row whose hash nobody computed.
LEMMA DamageSteps ==
  ASSUME EvidenceInvariant, Damage
  PROVE  EvidenceInvariant'
<1>1. TypeOK /\ HashesAppended
  BY DEF EvidenceInvariant
<1>2. damaged' = TRUE /\ faults' \in Nat /\ UNCHANGED <<writer, reader, appended>>
  BY <1>1 DEF Damage, Fault, TypeOK
<1>3. Len(rows) \in Nat /\ \A i \in 1..Len(rows) : rows[i] \in Row /\ rows[i].record_hash \in appended
  BY <1>1, ElementOfSeq, LenProperties DEF TypeOK, HashesAppended
<1>4. /\ rows' \in Seq(Row) /\ \A i \in 1..Len(rows') : rows'[i].record_hash \in appended
      /\ file' \in [Content -> {"absent", "good", "bad"}]
  <2>1. CASE DamageFile
    BY <1>1, <2>1 DEF DamageFile, TypeOK, HashesAppended
  <2>2. CASE DamageRows
    <3>1. PICK i \in 1..Len(rows) :
            \/ rows' = Without(i)
            \/ \E e \in Entry \ {rows[i].entry} : rows' = [rows EXCEPT ![i].entry = e]
            \/ \E j \in 1..Len(rows) : j # i /\ rows' = [rows EXCEPT ![i] = rows[j]]
      BY <2>2 DEF DamageRows
    <3>2. CASE rows' = Without(i)
      <4>1. rows' \in [1..(Len(rows) - 1) -> Row]
        BY <3>2, <1>3 DEF Without
      <4>2. Len(rows) - 1 \in Nat
        BY <3>1, <1>3
      <4>3. rows' \in Seq(Row) /\ Len(rows') = Len(rows) - 1
        BY <4>1, <4>2
      <4>4. \A j \in 1..(Len(rows) - 1) : rows'[j].record_hash \in appended
        BY <3>2, <1>3 DEF Without
      <4> QED
        BY <4>3, <4>4, <2>2, <1>1 DEF DamageRows, TypeOK
    <3>3. ASSUME NEW e \in Entry, rows' = [rows EXCEPT ![i].entry = e]
          PROVE  rows' \in Seq(Row) /\ \A k \in 1..Len(rows') : rows'[k].record_hash \in appended
      <4> DEFINE row == [rows[i] EXCEPT !.entry = e]
      <4>1. row \in Row /\ row.record_hash = rows[i].record_hash
        BY <1>3, <3>1 DEF Row
      <4>2. rows' = [rows EXCEPT ![i] = row]
        BY <3>3
      <4> HIDE DEF row
      <4>3. /\ rows' \in Seq(Row) /\ Len(rows') = Len(rows)
            /\ \A k \in 1..Len(rows) : rows'[k] = IF k = i THEN row ELSE rows[k]
        BY <1>1, <4>1, <4>2, <3>1, ExceptSeq DEF TypeOK
      <4> QED
        BY <4>1, <4>3, <1>3
    <3>4. ASSUME NEW j \in 1..Len(rows), rows' = [rows EXCEPT ![i] = rows[j]]
          PROVE  rows' \in Seq(Row) /\ \A k \in 1..Len(rows') : rows'[k].record_hash \in appended
      <4>1. /\ rows' \in Seq(Row) /\ Len(rows') = Len(rows)
            /\ \A k \in 1..Len(rows) : rows'[k] = IF k = i THEN rows[j] ELSE rows[k]
        BY <1>1, <1>3, <3>4, <3>1, ExceptSeq DEF TypeOK
      <4> QED
        BY <4>1, <1>3
    <3> QED
      BY <3>1, <3>2, <3>3, <3>4, <2>2, <1>1 DEF DamageRows, TypeOK
  <2> QED
    BY <2>1, <2>2 DEF Damage
<1>5. TypeOK'
  BY <1>1, <1>2, <1>4 DEF TypeOK, At
<1>6. ReaderPosition' /\ HashesAppended'
  BY <1>2, <1>4 DEF EvidenceInvariant, ReaderPosition, HashesAppended, Prefix
<1> QED
  BY <1>2, <1>5, <1>6 DEF EvidenceInvariant, LogIsSound, NoFalseAlarm, FilesInPlace

-----------------------------------------------------------------------------

\* It holds of an empty table.
LEMMA EvidenceStarts ==
  ASSUME Init
  PROVE  EvidenceInvariant
<1>1. TypeOK
  <2>1. <<>> \in Seq(Row) /\ <<>> \in Hash /\ Len(<<>>) = 0
    BY EmptySeq DEF Hash
  <2>2. reader \in ReaderState /\ reader.next <= Len(reader.rows) + 1
    BY <2>1 DEF Init, ReaderState
  <2>3. writer \in [Writer -> WriterState] /\ \A w \in Writer : At(w, "idle") <=> writer[w].entry = None
    BY EvidenceAssumption DEF Init, WriterState, Resting, At
  <2> QED
    BY <2>1, <2>2, <2>3 DEF Init, TypeOK
<1> QED
  BY <1>1, EmptySeq DEF Init, EvidenceInvariant, LogIsSound, NoFalseAlarm, FilesInPlace,
     HashesAppended, ReaderPosition, Chained, Backed, At, Resting

\* The inductive invariant of the evidence log.
THEOREM EvidenceInvariance == Spec => []EvidenceInvariant
<1>1. Init => EvidenceInvariant
  BY EvidenceStarts
<1>2. EvidenceInvariant /\ [Next]_vars => EvidenceInvariant'
  <2> SUFFICES ASSUME EvidenceInvariant, [Next]_vars PROVE EvidenceInvariant'
    OBVIOUS
  <2>1. CASE Next
    BY <2>1, WriterSteps, RecordSteps, ReaderSteps, DamageSteps DEF Next
  <2>2. CASE UNCHANGED vars
    <3>1. TypeOK'
      BY <2>2 DEF vars, EvidenceInvariant, TypeOK, At
    <3>2. LogIsSound' /\ NoFalseAlarm'
      BY <2>2 DEF vars, EvidenceInvariant, LogIsSound, NoFalseAlarm, Chained, Backed, Prefix
    <3>3. FilesInPlace' /\ HashesAppended'
      BY <2>2 DEF vars, EvidenceInvariant, FilesInPlace, HashesAppended, At
    <3>4. ReaderPosition'
      BY <2>2 DEF vars, EvidenceInvariant, ReaderPosition, Chained, Backed, Prefix
    <3> QED
      BY <3>1, <3>2, <3>3, <3>4 DEF EvidenceInvariant
  <2> QED
    BY <2>1, <2>2
<1> QED
  BY <1>1, <1>2, PTL DEF Spec

\* Type correctness.
THEOREM EvidenceTypes == Spec => []TypeOK
  BY EvidenceInvariance, PTL DEF EvidenceInvariant

\* Concurrent writers and their deaths neither fork the chain nor leave a row
\* without its file.
THEOREM ChainStands == Spec => []LogIsSound
  BY EvidenceInvariance, PTL DEF EvidenceInvariant

\* A verification beside working writers does not fail for what they do.
THEOREM VerificationIsFair == Spec => []NoFalseAlarm
  BY EvidenceInvariance, PTL DEF EvidenceInvariant

\* What a verification passes is what a writer computed a hash of, so that only a cut
\* off end can be missing (verify_evidence_chain).
THEOREM PassedWasRecorded == Spec => []PassedIsGenuine
<1>1. EvidenceInvariant => PassedIsGenuine
  <2> SUFFICES ASSUME EvidenceInvariant, reader.at = "passed", reader.rows # <<>>
               PROVE  Entries(reader.rows) \in appended
    BY DEF PassedIsGenuine
  <2>1. reader.rows \in Seq(Row)
    BY DEF EvidenceInvariant, TypeOK, ReaderState
  <2>2. Len(reader.rows) \in 1..Len(reader.rows)
    BY <2>1, EmptySeq
  <2>3. /\ reader.next = Len(reader.rows) + 1
        /\ \A i \in 1..(reader.next - 1) : reader.rows[i].record_hash = Prefix(reader.rows, i)
    BY DEF EvidenceInvariant, ReaderPosition
  <2>4. reader.rows[Len(reader.rows)].record_hash = Prefix(reader.rows, Len(reader.rows))
    BY <2>2, <2>3
  <2> QED
    BY <2>2, <2>4 DEF EvidenceInvariant, HashesAppended, Entries
<1> QED
  BY <1>1, EvidenceInvariance, PTL

-----------------------------------------------------------------------------
(***************************************************************************)
(* Sums.  The induction schemes of the library take an operator, so        *)
(* induction over the naturals is stated here for sets.                    *)
(***************************************************************************)

\* A set of naturals has a least element.
LEMMA LeastNatural ==
  ASSUME NEW T \in SUBSET Nat, T # {}
  PROVE  \E m \in T : \A n \in T : m <= n
<1> DEFINE R == {pair \in Nat \X Nat : pair[1] < pair[2]}
<1>1. IsWellFoundedOn(R, Nat)
  BY NatLessThanWellFounded DEF OpToRel
<1>2. \E m \in T : \A n \in T : <<n, m>> \notin R
  <2> HIDE DEF R
  <2> QED
    BY <1>1, WFMin
<1>3. PICK m \in T : \A n \in T : <<n, m>> \notin R
  BY <1>2
<1>4. \A n \in T : ~(n < m)
  BY <1>3
<1> QED
  BY <1>4

\* A set with 0 and every successor of a member holds every natural.
LEMMA SetInduction ==
  ASSUME NEW T \in SUBSET Nat, 0 \in T, \A n \in T : n + 1 \in T
  PROVE  T = Nat
<1> SUFFICES ASSUME T # Nat PROVE FALSE
  OBVIOUS
<1>1. PICK m \in Nat \ T : \A n \in Nat \ T : m <= n
  BY LeastNatural
<1>2. m - 1 \in Nat /\ m - 1 \in T
  BY <1>1
<1> QED
  BY <1>1, <1>2

\* The sums of f up to n, as a finite table.
Sums(f, n) == {h \in [0..n -> Nat] : h[0] = 0 /\ \A k \in 1..n : h[k] = h[k - 1] + f[k]}

\* There is such a table for every n.
LEMMA SumsExist ==
  ASSUME NEW f \in [Nat -> Nat], NEW n \in Nat
  PROVE  \E h : h \in Sums(f, n)
<1> DEFINE T == {m \in Nat : \E h : h \in Sums(f, m)}
<1>1. 0 \in T
  <2>1. [k \in 0..0 |-> 0] \in Sums(f, 0)
    BY DEF Sums
  <2> QED
    BY <2>1
<1>2. ASSUME NEW m \in T PROVE m + 1 \in T
  <2>1. PICK h : h \in Sums(f, m)
    OBVIOUS
  <2>2. m \in Nat
    OBVIOUS
  <2> DEFINE g == [k \in 0..(m + 1) |-> IF k = m + 1 THEN h[m] + f[m + 1] ELSE h[k]]
  <2>3. g \in [0..(m + 1) -> Nat]
    <3>1. h \in [0..m -> Nat] /\ h[m] + f[m + 1] \in Nat
      <4> HIDE DEF T, g
      <4>1. h \in [0..m -> Nat]
        BY <2>1 DEF Sums
      <4>2. m \in 0..m /\ m + 1 \in Nat
        BY <2>2
      <4>3. h[m] \in Nat
        BY <4>1, <4>2
      <4>4. f[m + 1] \in Nat
        BY <4>2
      <4>5. \A a, b \in Nat : a + b \in Nat
        OBVIOUS
      <4> QED
        BY <4>1, <4>3, <4>4, <4>5, Zenon
    <3>2. \A k \in 0..(m + 1) : k = m + 1 \/ k \in 0..m
      BY <2>2
    <3> QED
      BY <3>1, <3>2
  <2>4. g[0] = 0
    BY <2>1, <2>2 DEF Sums
  <2>5. \A k \in 1..(m + 1) : g[k] = g[k - 1] + f[k]
    <3>1. \A k \in 1..m : g[k] = g[k - 1] + f[k]
      <4>1. \A k \in 1..m : k \in 1..m /\ k - 1 \in 0..m /\ k # m + 1 /\ k - 1 # m + 1
        BY <2>2
      <4> QED
        BY <4>1, <2>1, <2>2 DEF Sums
    <3>2. g[m + 1] = g[m] + f[m + 1]
      BY <2>2
    <3>3. (m + 1) - 1 = m /\ \A k \in 1..(m + 1) : k \in 1..m \/ k = m + 1
      BY <2>2
    <3> HIDE DEF g
    <3> QED
      BY <3>1, <3>2, <3>3
  <2> HIDE DEF g
  <2>6. g \in Sums(f, m + 1)
    BY <2>3, <2>4, <2>5 DEF Sums
  <2> QED
    BY <2>6, <2>2
<1>3. T = Nat
  <2> HIDE DEF T
  <2>1. T \in SUBSET Nat
    BY DEF T
  <2> QED
    BY <1>1, <1>2, <2>1, SetInduction
<1> QED
  BY <1>3

\* Two such tables agree.
LEMMA SumsAgree ==
  ASSUME NEW f \in [Nat -> Nat], NEW n \in Nat, NEW m \in Nat,
         NEW g \in Sums(f, n), NEW h \in Sums(f, m), NEW k \in Nat, k <= n, k <= m
  PROVE  g[k] = h[k]
<1> DEFINE T == {i \in Nat : i <= n /\ i <= m => g[i] = h[i]}
<1>1. 0 \in T
  BY DEF Sums
<1>2. ASSUME NEW i \in T PROVE i + 1 \in T
  <2> SUFFICES ASSUME i + 1 <= n, i + 1 <= m PROVE g[i + 1] = h[i + 1]
    OBVIOUS
  <2>1. i \in Nat /\ g[i] = h[i] /\ i + 1 \in 1..n /\ i + 1 \in 1..m /\ (i + 1) - 1 = i
    OBVIOUS
  <2>2. g[i + 1] = g[(i + 1) - 1] + f[i + 1] /\ h[i + 1] = h[(i + 1) - 1] + f[i + 1]
    BY <2>1 DEF Sums
  <2> QED
    BY <2>1, <2>2
<1>3. T = Nat
  <2> HIDE DEF T
  <2>1. T \in SUBSET Nat
    BY DEF T
  <2> QED
    BY <1>1, <1>2, <2>1, SetInduction
<1> QED
  BY <1>3

\* The equation of the recursive function in Total has a solution.
LEMMA SumFunctionExists ==
  ASSUME NEW f \in [Nat -> Nat]
  PROVE  \E g : g = [k \in Nat |-> IF k = 0 THEN 0 ELSE g[k - 1] + f[k]]
<1> DEFINE table == [n \in Nat |-> CHOOSE h : h \in Sums(f, n)]
           sum   == [n \in Nat |-> table[n][n]]
<1>1. \A n \in Nat : table[n] \in Sums(f, n)
  <2>1. \A n \in Nat : \E h : h \in Sums(f, n)
    BY SumsExist
  <2> QED
    BY <2>1
<1> HIDE DEF table
<1>2. sum[0] = 0
  BY <1>1 DEF Sums
<1>3. ASSUME NEW n \in Nat, n # 0 PROVE sum[n] = sum[n - 1] + f[n]
  <2>1. n - 1 \in Nat /\ n \in 1..n /\ n - 1 <= n
    BY <1>3
  <2>2. table[n] \in Sums(f, n) /\ table[n - 1] \in Sums(f, n - 1)
    BY <1>1, <2>1
  <2>3. table[n][n] = table[n][n - 1] + f[n]
    BY <2>1, <2>2 DEF Sums
  <2>4. table[n][n - 1] = table[n - 1][n - 1]
    BY <2>1, <2>2, SumsAgree
  <2> QED
    BY <2>1, <2>3, <2>4
<1>4. sum = [k \in Nat |-> IF k = 0 THEN 0 ELSE sum[k - 1] + f[k]]
  BY <1>2, <1>3
<1> HIDE DEF sum
<1> QED
  BY <1>4

\* What Total computes.
LEMMA TotalUnfolds ==
  ASSUME NEW f \in [Nat -> Nat]
  PROVE  Total(f, 0) = 0 /\ \A n \in Nat : Total(f, n + 1) = Total(f, n) + f[n + 1]
<1> DEFINE sum == CHOOSE g : g = [k \in Nat |-> IF k = 0 THEN 0 ELSE g[k - 1] + f[k]]
<1>1. \A n : Total(f, n) = sum[n]
  BY DEF Total
<1>2. sum = [k \in Nat |-> IF k = 0 THEN 0 ELSE sum[k - 1] + f[k]]
  BY SumFunctionExists
<1> HIDE DEF sum
<1>3. sum[0] = 0 /\ \A n \in Nat : sum[n + 1] = sum[n] + f[n + 1]
  BY <1>2
<1> QED
  BY <1>1, <1>3

\* A sum of naturals is a natural.
LEMMA TotalIsNat ==
  ASSUME NEW f \in [Nat -> Nat], NEW n \in Nat
  PROVE  Total(f, n) \in Nat
<1> DEFINE T == {m \in Nat : Total(f, m) \in Nat}
<1>u. Total(f, 0) = 0 /\ \A m \in Nat : Total(f, m + 1) = Total(f, m) + f[m + 1]
  BY TotalUnfolds
<1>1. 0 \in T
  BY <1>u
<1>2. ASSUME NEW m \in T PROVE m + 1 \in T
  <2>1. m \in Nat /\ Total(f, m) \in Nat /\ f[m + 1] \in Nat
    OBVIOUS
  <2>2. Total(f, m + 1) \in Nat
    BY <2>1, <1>u
  <2> QED
    BY <2>1, <2>2
<1>3. T = Nat
  <2> HIDE DEF T
  <2>1. T \in SUBSET Nat
    BY DEF T
  <2> QED
    BY <1>1, <1>2, <2>1, SetInduction
<1> QED
  BY <1>3

\* A sum depends on its terms only.
LEMMA TotalDepends ==
  ASSUME NEW f \in [Nat -> Nat], NEW g \in [Nat -> Nat], NEW n \in Nat,
         \A k \in 1..n : f[k] = g[k]
  PROVE  Total(f, n) = Total(g, n)
<1> DEFINE T == {m \in Nat : m <= n => Total(f, m) = Total(g, m)}
<1>1. 0 \in T
  BY TotalUnfolds
<1>2. ASSUME NEW m \in T PROVE m + 1 \in T
  <2> SUFFICES ASSUME m + 1 <= n PROVE Total(f, m + 1) = Total(g, m + 1)
    OBVIOUS
  <2>1. m \in Nat /\ m + 1 \in 1..n /\ Total(f, m) = Total(g, m)
    OBVIOUS
  <2> QED
    BY <2>1, TotalUnfolds
<1>3. T = Nat
  <2> HIDE DEF T
  <2>1. T \in SUBSET Nat
    BY DEF T
  <2> QED
    BY <1>1, <1>2, <2>1, SetInduction
<1> QED
  BY <1>3

-----------------------------------------------------------------------------
(***************************************************************************)
(* The budget                                                              *)
(***************************************************************************)

\* The bytes of every row are a natural.
LEMMA BlobBytesAreNat ==
  ASSUME NEW list \in Seq(Row)
  PROVE  BlobBytes(list) \in [Nat -> Nat]
<1>1. \A i \in 1..Len(list) : list[i].entry \in Entry
  <2>1. \A i \in 1..Len(list) : list[i] \in Row
    BY ElementOfSeq
  <2> QED
    BY <2>1 DEF Row
<1>2. \A i \in Nat : i \in 1..Len(list) /\ list[i].entry # None => Size[list[i].entry] \in Nat
  BY <1>1, EvidenceAssumption
<1> QED
  BY <1>2 DEF BlobBytes

\* A row adds the bytes of its blob to what is used.
LEMMA RecordIsCounted ==
  ASSUME TypeOK, NEW entry \in Entry, Record(entry)
  PROVE  Used' = Used + IF entry = None THEN 0 ELSE Size[entry]
<1>1. /\ rows \in Seq(Row) /\ rows' \in Seq(Row) /\ Len(rows) \in Nat
      /\ Len(rows') = Len(rows) + 1 /\ rows'[Len(rows')].entry = entry
      /\ \A i \in 1..Len(rows) : rows'[i] = rows[i]
  BY RecordKeepsChain, LenProperties DEF TypeOK
<1>2. PICK f \in [Nat -> Nat] : f = BlobBytes(rows)
  BY <1>1, BlobBytesAreNat
<1>3. PICK g \in [Nat -> Nat] : g = BlobBytes(rows')
  BY <1>1, BlobBytesAreNat
<1>4. PICK n \in Nat : n = Len(rows)
  BY <1>1
<1>5. Used = Total(f, n)
  BY <1>2, <1>4 DEF Used
<1>6. Used' = Total(g, n + 1)
  BY <1>1, <1>3, <1>4 DEF Used
<1>7. \A i \in 1..n : f[i] = g[i]
  BY <1>1, <1>2, <1>3, <1>4 DEF BlobBytes
<1>8. g[n + 1] = IF entry = None THEN 0 ELSE Size[entry]
  BY <1>1, <1>3, <1>4 DEF BlobBytes
<1>9. Total(g, n) = Total(f, n)
  BY <1>7, TotalDepends
<1>10. Total(g, n + 1) = Total(g, n) + g[n + 1]
  BY TotalUnfolds
<1> QED
  BY <1>5, <1>6, <1>8, <1>9, <1>10

\* What is used is a natural.
LEMMA UsedIsNat ==
  ASSUME TypeOK
  PROVE  Used \in Nat
<1>1. rows \in Seq(Row) /\ Len(rows) \in Nat
  BY LenProperties DEF TypeOK
<1>2. PICK f \in [Nat -> Nat] : f = BlobBytes(rows)
  BY <1>1, BlobBytesAreNat
<1>3. PICK n \in Nat : n = Len(rows)
  BY <1>1
<1> QED
  BY <1>2, <1>3, TotalIsNat DEF Used

\* There is a longest blob that fits, and it bounds every blob that fits.
LEMMA LongestBounds ==
  /\ Longest \in Nat /\ Longest <= EvidenceBytes
  /\ \A c \in Content : Size[c] <= EvidenceBytes => Size[c] <= Longest
<1> USE EvidenceAssumption
<1> DEFINE Bounds == {m \in Nat : \A k \in Accepted : k <= m}
<1>1. Accepted \subseteq 0..EvidenceBytes
  BY DEF Accepted
<1>2. Bounds \in SUBSET Nat /\ EvidenceBytes \in Bounds
  BY <1>1
<1>3. PICK m \in Bounds : \A n \in Bounds : m <= n
  BY <1>2, LeastNatural
<1>4. m \in {0} \union Accepted
  <2> SUFFICES ASSUME m # 0, m \notin Accepted PROVE FALSE
    OBVIOUS
  <2>1. m - 1 \in Nat /\ \A k \in Accepted : k <= m - 1
    BY <1>1, <1>3
  <2>2. m - 1 \in Bounds
    BY <2>1
  <2> QED
    BY <1>3, <2>2
<1>5. \E n \in {0} \union Accepted : \A k \in Accepted : k <= n
  BY <1>3, <1>4
<1>6. Longest \in {0} \union Accepted /\ \A k \in Accepted : k <= Longest
  BY <1>5 DEF Longest
<1>7. \A c \in Content : Size[c] <= EvidenceBytes => Size[c] \in Accepted
  BY DEF Accepted
<1> QED
  BY <1>1, <1>6, <1>7

\* Calls take no negative space.
LEMMA SpaceIsNat ==
  ASSUME NEW k \in Nat, NEW L \in Nat
  PROVE  k * L \in Nat
  OBVIOUS

\* There are never more calls than writers.
LEMMA CallsAreFew ==
  ASSUME NEW S \in SUBSET Writer
  PROVE  IsFiniteSet(S) /\ Cardinality(S) \in Nat /\ Cardinality(S) <= Cardinality(Writer)
  BY EvidenceAssumption, FS_Subset, FS_CardinalityType

\* What BudgetAhead says, with the arithmetic taken apart.
LEMMA BudgetTerms ==
  ASSUME TypeOK
  PROVE  \E limit \in Int, L \in Nat, calls \in Nat :
           /\ limit = EvidenceBytes + (Cardinality(Writer) - 1) * Longest
           /\ L = Longest /\ calls = Cardinality(Storing)
           /\ Used \in Nat /\ IsFiniteSet(Storing)
           /\ \A w \in Storing : Size[writer[w].entry] \in Nat
           /\ calls # 0 => (calls - 1) * L \in Nat
           /\ calls * L \in Nat
<1> USE EvidenceAssumption
<1>1. Storing \in SUBSET Writer
  BY DEF Storing
<1>2. IsFiniteSet(Storing) /\ Cardinality(Storing) \in Nat
  BY <1>1, CallsAreFew
<1>3. Cardinality(Writer) \in Nat
  BY FS_CardinalityType
<1>4. (Cardinality(Writer) - 1) * Longest \in Int
  BY <1>3, LongestBounds
<1>5. \A w \in Storing : Size[writer[w].entry] \in Nat
  BY DEF TypeOK, Storing, WriterState
<1>6. Cardinality(Storing) # 0 => (Cardinality(Storing) - 1) * Longest \in Nat
  BY <1>2, LongestBounds, SpaceIsNat
<1>7. Cardinality(Storing) * Longest \in Nat
  BY <1>2, LongestBounds, SpaceIsNat
<1>8. EvidenceBytes + (Cardinality(Writer) - 1) * Longest \in Int
  BY <1>4
<1> QED
  BY <1>2, <1>5, <1>6, <1>7, <1>8, LongestBounds, UsedIsNat

\* No row is beyond what BudgetAhead allows for the calls under way.
LEMMA AheadIsKept ==
  ASSUME TypeOK, BudgetAhead
  PROVE  BudgetIsKept
<1> SUFFICES ASSUME ~damaged
             PROVE  Used <= EvidenceBytes + (Cardinality(Writer) - 1) * Longest
  BY DEF BudgetIsKept
<1>1. PICK limit \in Int, L \in Nat, calls \in Nat :
        /\ limit = EvidenceBytes + (Cardinality(Writer) - 1) * Longest
        /\ L = Longest /\ calls = Cardinality(Storing)
        /\ Used \in Nat /\ IsFiniteSet(Storing)
        /\ \A w \in Storing : Size[writer[w].entry] \in Nat
        /\ calls # 0 => (calls - 1) * L \in Nat
        /\ calls * L \in Nat
  BY BudgetTerms
<1>2. \/ Used + calls * L <= limit
      \/ \E w \in Storing : Used + Size[writer[w].entry] + (calls - 1) * L <= limit
  BY <1>1 DEF BudgetAhead
<1>3. CASE Used + calls * L <= limit
  BY <1>1, <1>3
<1>4. ASSUME NEW w \in Storing, Used + Size[writer[w].entry] + (calls - 1) * L <= limit
      PROVE  Used <= limit
  <2>1. calls # 0
    BY <1>1, FS_EmptySet
  <2> QED
    BY <1>1, <1>4, <2>1
<1> QED
  BY <1>1, <1>2, <1>3, <1>4

\* A step that leaves the calls and the table as they are, or damages something.
LEMMA BudgetStays ==
  ASSUME BudgetAhead, \A w \in Writer : writer'[w].entry = writer[w].entry,
         Used' = Used, damaged' = damaged
  PROVE  BudgetAhead'
<1>1. Storing' = Storing
  BY DEF Storing
<1>2. Longest' = Longest
  BY DEF Longest, Accepted
<1> QED
  BY <1>1, <1>2 DEF BudgetAhead, Storing

\* A call that ends, with its row or without, leaves the others what they need.
LEMMA CallEnds ==
  ASSUME TypeOK, BudgetAhead, TypeOK', NEW w \in Writer, writer[w].entry # None, Rest(w),
         damaged' = damaged, Used' = Used \/ Used' = Used + Size[writer[w].entry]
  PROVE  BudgetAhead'
<1> SUFFICES ASSUME ~damaged' PROVE BudgetAhead'
  BY DEF BudgetAhead
<1>1. PICK limit \in Int, L \in Nat, calls \in Nat :
        /\ limit = EvidenceBytes + (Cardinality(Writer) - 1) * Longest
        /\ L = Longest /\ calls = Cardinality(Storing)
        /\ Used \in Nat /\ IsFiniteSet(Storing)
        /\ \A x \in Storing : Size[writer[x].entry] \in Nat
        /\ calls # 0 => (calls - 1) * L \in Nat
        /\ calls * L \in Nat
  BY BudgetTerms
<1>2. /\ w \in Storing /\ Storing' = Storing \ {w}
      /\ \A x \in Storing \ {w} : writer'[x] = writer[x]
  BY DEF Storing, Rest, Resting, TypeOK
<1>3. Cardinality(Storing \ {w}) = calls - 1 /\ calls - 1 \in Nat /\ calls # 0
  <2>1. Cardinality(Storing \ {w}) = calls - 1 /\ IsFiniteSet(Storing \ {w})
    BY <1>1, <1>2, FS_RemoveElement
  <2>2. Cardinality(Storing \ {w}) \in Nat
    BY <2>1, FS_CardinalityType
  <2> QED
    BY <2>1, <2>2, <1>1
<1>4. /\ \A x \in Storing : Size[writer[x].entry] <= L
      /\ \/ Used + calls * L <= limit
         \/ \E x \in Storing : Used + Size[writer[x].entry] + (calls - 1) * L <= limit
  BY <1>1 DEF BudgetAhead
<1>5. /\ calls * L = (calls - 1) * L + L
      /\ (calls - 1) * L = (calls - 2) * L + L /\ (calls - 2) * L \in Int
  BY <1>1, <1>3
<1>6. Used' \in Nat /\ Used' <= Used + Size[writer[w].entry] /\ Size[writer[w].entry] \in Nat
  BY <1>1, <1>2, UsedIsNat
<1>7. \/ Used' + (calls - 1) * L <= limit
      \/ \E x \in Storing \ {w} : Used' + Size[writer[x].entry] + (calls - 2) * L <= limit
  <2>1. Size[writer[w].entry] <= L
    BY <1>2, <1>4
  <2>2. CASE Used + calls * L <= limit
    BY <1>1, <1>5, <1>6, <2>1, <2>2
  <2>3. ASSUME NEW x \in Storing, Used + Size[writer[x].entry] + (calls - 1) * L <= limit
        PROVE  <1>7!1 \/ <1>7!2
    <3>1. Size[writer[x].entry] \in Nat
      BY <1>1
    <3>2. CASE x = w
      BY <1>1, <1>3, <1>6, <2>3, <3>2
    <3>3. CASE x # w
      <4>1. Used' + Size[writer[x].entry] + (calls - 2) * L <= limit
        BY <1>1, <1>3, <1>5, <1>6, <2>1, <2>3, <3>1
      <4> QED
        BY <3>3, <4>1
    <3> QED
      BY <3>2, <3>3
  <2> QED
    BY <1>4, <2>2, <2>3
<1>8. Longest' = Longest
  BY DEF Longest, Accepted
<1>9. /\ \A x \in Storing \ {w} : Size[writer'[x].entry] <= L
      /\ \/ Used' + (calls - 1) * L <= limit
         \/ \E x \in Storing \ {w} : Used' + Size[writer'[x].entry] + ((calls - 1) - 1) * L <= limit
  <2>1. (calls - 1) - 1 = calls - 2
    OBVIOUS
  <2> QED
    BY <1>2, <1>4, <1>7, <2>1
<1> QED
  BY <1>1, <1>2, <1>3, <1>8, <1>9 DEF BudgetAhead

\* A call that has measured fits with its blob; the others come on top of it.
LEMMA CallBegins ==
  ASSUME TypeOK, BudgetAhead, TypeOK', NEW w \in Writer, NEW c \in Content, StoreEvidenceBlob(w, c)
  PROVE  BudgetAhead'
<1> USE EvidenceAssumption
<1> SUFFICES ASSUME ~damaged' PROVE BudgetAhead'
  BY DEF BudgetAhead
<1>1. PICK limit \in Int, L \in Nat, calls \in Nat :
        /\ limit = EvidenceBytes + (Cardinality(Writer) - 1) * Longest
        /\ L = Longest /\ calls = Cardinality(Storing)
        /\ Used \in Nat /\ IsFiniteSet(Storing)
        /\ \A x \in Storing : Size[writer[x].entry] \in Nat
        /\ calls # 0 => (calls - 1) * L \in Nat
        /\ calls * L \in Nat
  BY BudgetTerms
<1>2. /\ w \notin Storing /\ Storing' = Storing \union {w} /\ writer'[w].entry = c
      /\ \A x \in Storing : writer'[x] = writer[x]
  BY DEF Storing, StoreEvidenceBlob, TypeOK, At
<1>3. Cardinality(Storing') = calls + 1
  BY <1>1, <1>2, FS_AddElement
<1>4. Used + Size[c] <= EvidenceBytes /\ Size[c] \in Nat /\ Used' = Used
  BY DEF StoreEvidenceBlob, Used
<1>5. Size[c] <= L
  BY <1>1, <1>4, LongestBounds
<1>6. \A x \in Storing : Size[writer[x].entry] <= L
  BY <1>1 DEF BudgetAhead, StoreEvidenceBlob
<1>7. calls * L <= (Cardinality(Writer) - 1) * L /\ (Cardinality(Writer) - 1) * L \in Int
  <2>1. Storing' \in SUBSET Writer
    BY DEF Storing
  <2>2. Cardinality(Writer) \in Nat
    BY FS_CardinalityType
  <2>3. calls + 1 <= Cardinality(Writer)
    BY <2>1, <1>3, CallsAreFew
  <2>4. calls <= Cardinality(Writer) - 1 /\ Cardinality(Writer) - 1 \in Nat
    BY <2>2, <2>3
  <2>5. \A a, b \in Nat : a <= b => a * L <= b * L /\ b * L \in Int
    OBVIOUS
  <2> QED
    BY <2>4, <2>5
<1>8. Used' + Size[c] + calls * L <= limit
  BY <1>1, <1>4, <1>7
<1>9. Longest' = Longest /\ (calls + 1) - 1 = calls
  BY DEF Longest, Accepted
<1> QED
  BY <1>1, <1>2, <1>3, <1>5, <1>6, <1>8, <1>9 DEF BudgetAhead

\* Every step keeps the writers and what is used within BudgetAhead.
LEMMA BudgetSteps ==
  ASSUME EvidenceInvariant, BudgetAhead, EvidenceInvariant', [Next]_vars
  PROVE  BudgetAhead'
<1>t. TypeOK /\ TypeOK' /\ \A w \in Writer : At(w, "idle") <=> writer[w].entry = None
  BY DEF EvidenceInvariant, TypeOK
<1>u. ASSUME rows' = rows PROVE Used' = Used
  BY <1>u DEF Used
<1>1. ASSUME NEW w \in Writer, RecordEvidence(w) PROVE BudgetAhead'
  <2>1. Used' = Used
    <3>1. Used' = Used + 0
      BY <1>1, <1>t, RecordIsCounted DEF RecordEvidence
    <3> QED
      BY <3>1, <1>t, UsedIsNat
  <2> QED
    BY <1>1, <2>1, BudgetStays DEF RecordEvidence
<1>2. ASSUME NEW w \in Writer, NEW c \in Content, StoreEvidenceBlob(w, c) PROVE BudgetAhead'
  BY <1>2, <1>t, CallBegins
<1>3. ASSUME NEW w \in Writer, AppendRow(w) PROVE BudgetAhead'
  <2>1. writer[w].entry \in Entry /\ writer[w].entry # None
    BY <1>3, <1>t DEF AppendRow, TypeOK, WriterState, At
  <2>2. Used' = Used + Size[writer[w].entry]
    BY <1>3, <1>t, <2>1, RecordIsCounted DEF AppendRow
  <2> QED
    BY <1>3, <1>t, <2>1, <2>2, CallEnds DEF AppendRow
<1>4. ASSUME NEW w \in Writer, ~At(w, "idle"), Rest(w), rows' = rows, damaged' = damaged
      PROVE  BudgetAhead'
  BY <1>4, <1>t, <1>u, CallEnds
<1>5. ASSUME NEW w \in Writer, NEW label, Goto(w, label), rows' = rows, damaged' = damaged
      PROVE  BudgetAhead'
  <2>1. \A x \in Writer : writer'[x].entry = writer[x].entry
    BY <1>5, <1>t DEF TypeOK, WriterState, Goto
  <2> QED
    BY <1>5, <1>u, <2>1, BudgetStays
<1>6. ASSUME NEW w \in Writer, AskForReference(w) PROVE BudgetAhead'
  <2>1. At(w, "ask") /\ (Rest(w) \/ Goto(w, "put")) /\ rows' = rows /\ damaged' = damaged
    BY <1>6 DEF AskForReference
  <2>2. ~At(w, "idle")
    BY <2>1 DEF At
  <2> QED
    BY <2>1, <2>2, <1>4, <1>5
<1>7. ASSUME NEW w \in Writer, LookAtBlob(w) \/ PutBlob(w) PROVE BudgetAhead'
  <2>1. (\E label : Goto(w, label)) /\ rows' = rows /\ damaged' = damaged
    BY <1>7 DEF LookAtBlob, PutBlob
  <2> QED
    BY <2>1, <1>5
<1>8. ASSUME NEW w \in Writer, WriterStops(w) PROVE BudgetAhead'
  BY <1>8, <1>4 DEF WriterStops
<1>9. CASE Damage
  BY <1>9 DEF Damage, BudgetAhead
<1>10. CASE ListEvidence \/ CheckRow \/ ChainIsValid \/ UNCHANGED vars
  <2>1. UNCHANGED <<rows, writer, damaged>>
    BY <1>10 DEF ListEvidence, CheckRow, ChainIsValid, vars
  <2> QED
    BY <2>1, <1>u, BudgetStays
<1> QED
  BY <1>1, <1>2, <1>3, <1>6, <1>7, <1>8, <1>9, <1>10 DEF Next

\* However many writers measure the budget at once, the table goes over it by at
\* most one blob for each of them but one.
THEOREM BudgetHolds == Spec => []BudgetIsKept
<1>1. Init => BudgetAhead
  <2> SUFFICES ASSUME Init PROVE BudgetAhead
    OBVIOUS
  <2>1. TypeOK /\ Storing = {}
    <3>1. Init => EvidenceInvariant
      BY EvidenceStarts
    <3> QED
      BY <3>1 DEF EvidenceInvariant, Init, Storing, Resting
  <2>2. Used = 0
    <3>1. rows = <<>> /\ Len(rows) = 0 /\ rows \in Seq(Row)
      BY <2>1 DEF Init, TypeOK
    <3>2. PICK f \in [Nat -> Nat] : f = BlobBytes(rows)
      BY <3>1, BlobBytesAreNat
    <3> QED
      BY <3>1, <3>2, TotalUnfolds DEF Used
  <2>3. Cardinality(Storing) = 0
    BY <2>1, FS_EmptySet
  <2>4. Cardinality(Writer) \in Nat
    BY EvidenceAssumption, FS_CardinalityType
  <2>5. 0 <= EvidenceBytes + (Cardinality(Writer) - 1) * Longest
    <3>1. PICK m \in Nat : m = Cardinality(Writer)
      BY <2>4
    <3>2. m = 0 \/ (m - 1) * Longest \in Nat
      BY LongestBounds, SpaceIsNat
    <3>3. (0 - 1) * Longest = 0 - Longest
      BY LongestBounds
    <3> QED
      BY <3>1, <3>2, <3>3, LongestBounds, EvidenceAssumption
  <2>6. 0 * Longest = 0
    BY LongestBounds
  <2> QED
    BY <2>1, <2>2, <2>3, <2>5, <2>6 DEF BudgetAhead
<1>2. EvidenceInvariant /\ EvidenceInvariant' /\ BudgetAhead /\ [Next]_vars => BudgetAhead'
  BY BudgetSteps
<1>3. EvidenceInvariant /\ BudgetAhead => BudgetIsKept
  BY AheadIsKept DEF EvidenceInvariant
<1> QED
  BY <1>1, <1>2, <1>3, EvidenceInvariance, PTL DEF Spec

=============================================================================
