---------------------------- MODULE EvidenceLog ----------------------------
(***************************************************************************)
(* The evidence of one mission, missions_db.py and mission_service.py: a   *)
(* table in which every row carries the hash of the row before it, and a   *)
(* directory with one compressed file per content.                         *)
(*                                                                         *)
(* Workers, the controller and operators store evidence at the same time.  *)
(* A writer measures the budget, looks at the file, puts it in place and   *)
(* appends its row, and can die between any two of these.  A reader lists  *)
(* the rows, then opens their files one by one while writers go on.  Rows  *)
(* and files can be damaged from outside.                                  *)
(***************************************************************************)
EXTENDS Naturals, Sequences, FiniteSets

CONSTANTS
  Writer,         \* processes that store evidence
  Content,        \* what can be in a blob; a digest names its file
  Size,           \* bytes of a content
  None,           \* a row without a blob
  EvidenceBytes,  \* budget evidence_bytes
  MaxRows,        \* bound: rows of the table
  MaxFaults       \* bound: deaths of a writer, damages

ASSUME EvidenceAssumption ==
  /\ None \notin Content
  /\ Size \in [Content -> Nat]
  /\ EvidenceBytes \in Nat /\ MaxRows \in Nat /\ MaxFaults \in Nat
  /\ IsFiniteSet(Writer)

VARIABLES
  rows,      \* mission_evidence of the mission, by id
  file,      \* the files under mission-evidence
  writer,    \* the calls of store_evidence_blob
  reader,    \* a call of verify_evidence_chain
  appended,  \* history: what the table was after each row that was recorded
  damaged,   \* history: rows or files were damaged
  faults

vars == <<rows, file, writer, reader, appended, damaged, faults>>

-----------------------------------------------------------------------------

Entry == Content \union {None}

\* A hash stands for what it was computed over: the entry of its row and the hash
\* before it, so all entries up to the row.  NULL is the empty sequence.
Hash == Seq(Entry)

Row == [entry : Entry, previous_hash : Hash, record_hash : Hash]

WriterState == [at : {"idle", "look", "ask", "put", "append"}, entry : Entry]
Resting     == [at |-> "idle", entry |-> None]

\* rows: the list it works on; next: the row to check; previous: the hash it
\* expects there.
ReaderState == [at : {"idle", "check", "passed", "failed"},
                rows : Seq(Row), next : Nat \ {0}, previous : Hash]

At(w, label)   == writer[w].at = label
Goto(w, label) == writer' = [writer EXCEPT ![w].at = label]

\* Mutant: the writer is not cleaned up.
RestAsIs(w) == Goto(w, "idle")

Rest(w) == writer' = [writer EXCEPT ![w] = Resting]

\* The first n entries of a list of rows.
Prefix(list, n) == [i \in 1..n |-> list[i].entry]
Entries(list)   == Prefix(list, Len(list))

\* blob_bytes of each row.
BlobBytes(list) ==
  [i \in Nat |-> IF i \in 1..Len(list) /\ list[i].entry # None THEN Size[list[i].entry] ELSE 0]

\* f[1] + ... + f[n]
Total(f, n) ==
  LET sum[k \in Nat] == IF k = 0 THEN 0 ELSE sum[k - 1] + f[k]
  IN  sum[n]

\* SUM(blob_bytes)
Used == Total(BlobBytes(rows), Len(rows))

Referenced(c) == \E i \in 1..Len(rows) : rows[i].entry = c

Fault == faults < MaxFaults /\ faults' = faults + 1

Init ==
  /\ rows = <<>>
  /\ file = [c \in Content |-> "absent"]
  /\ writer = [w \in Writer |-> Resting]
  /\ reader = [at |-> "idle", rows |-> <<>>, next |-> 1, previous |-> <<>>]
  /\ appended = {} /\ damaged = FALSE /\ faults = 0

-----------------------------------------------------------------------------
(***************************************************************************)
(* Writers                                                                 *)
(***************************************************************************)

LastHash == IF rows = <<>> THEN <<>> ELSE rows[Len(rows)].record_hash

\* record_evidence reads the last hash in the transaction that inserts the row.
Record(entry) ==
  /\ Len(rows) < MaxRows
  /\ rows' = Append(rows, [entry |-> entry, previous_hash |-> LastHash,
                           record_hash |-> Append(LastHash, entry)])
  /\ appended' = appended \union {Append(LastHash, entry)}

\* Evidence without a blob: lifecycle, errors, file mutations.
RecordEvidence(w) ==
  /\ At(w, "idle")
  /\ Record(None)
  /\ UNCHANGED <<file, writer, reader, damaged, faults>>

\* Mutant: the new blob is not counted.
StoreWhileBelow(w, c) ==
  /\ At(w, "idle")
  /\ Used <= EvidenceBytes
  /\ writer' = [writer EXCEPT ![w] = [at |-> "look", entry |-> c]]
  /\ UNCHANGED <<rows, file, reader, appended, damaged, faults>>

\* store_evidence_blob is refused when the budget is exceeded.
StoreEvidenceBlob(w, c) ==
  /\ At(w, "idle")
  /\ Used + Size[c] <= EvidenceBytes
  /\ writer' = [writer EXCEPT ![w] = [at |-> "look", entry |-> c]]
  /\ UNCHANGED <<rows, file, reader, appended, damaged, faults>>

\* Mutant: no file is taken for a good file.
LookOnlyForBad(w) ==
  /\ At(w, "look")
  /\ Goto(w, IF file[writer[w].entry] = "bad" THEN "ask" ELSE "append")
  /\ UNCHANGED <<rows, file, reader, appended, damaged, faults>>

\* A file that is there and reads as its digest says is used again.
LookAtBlob(w) ==
  /\ At(w, "look")
  /\ Goto(w, CASE file[writer[w].entry] = "absent" -> "put"
               [] file[writer[w].entry] = "good"   -> "append"
               [] file[writer[w].entry] = "bad"    -> "ask")
  /\ UNCHANGED <<rows, file, reader, appended, damaged, faults>>

\* A bad file is replaced only if no row refers to it; otherwise the call raises.
AskForReference(w) ==
  /\ At(w, "ask")
  /\ IF Referenced(writer[w].entry) THEN Rest(w) ELSE Goto(w, "put")
  /\ UNCHANGED <<rows, file, reader, appended, damaged, faults>>

\* Mutant: the file is written in place.
PutBlobInPlace(w) ==
  /\ At(w, "put")
  /\ \/ file' = [file EXCEPT ![writer[w].entry] = "good"] /\ Goto(w, "append") /\ UNCHANGED faults
     \/ file' = [file EXCEPT ![writer[w].entry] = "bad"] /\ Rest(w) /\ Fault
  /\ UNCHANGED <<rows, reader, appended, damaged>>

\* A temporary file, synced, takes the place in one step.
PutBlob(w) ==
  /\ At(w, "put")
  /\ file' = [file EXCEPT ![writer[w].entry] = "good"]
  /\ Goto(w, "append")
  /\ UNCHANGED <<rows, reader, appended, damaged, faults>>

AppendRow(w) ==
  /\ At(w, "append")
  /\ Record(writer[w].entry)
  /\ Rest(w)
  /\ UNCHANGED <<file, reader, damaged, faults>>

\* The process dies, the disk is full or the database does not answer.
WriterStops(w) ==
  /\ ~At(w, "idle") /\ Fault
  /\ Rest(w)
  /\ UNCHANGED <<rows, file, reader, appended, damaged>>

-----------------------------------------------------------------------------
(***************************************************************************)
(* The reader, verify_evidence_chain                                       *)
(***************************************************************************)

ListEvidence ==
  /\ reader.at # "check"
  /\ reader' = [at |-> "check", rows |-> rows, next |-> 1, previous |-> <<>>]
  /\ UNCHANGED <<rows, file, writer, appended, damaged, faults>>

RowInHand == reader.rows[reader.next]
Expected  == Append(reader.previous, RowInHand.entry)

\* Mutant: only the links are compared.
RowIsLinked ==
  /\ RowInHand.previous_hash = reader.previous
  /\ RowInHand.entry # None => file[RowInHand.entry] = "good"

RowHolds ==
  /\ RowInHand.previous_hash = reader.previous
  /\ RowInHand.record_hash = Expected
  /\ RowInHand.entry # None => file[RowInHand.entry] = "good"

CheckRow ==
  /\ reader.at = "check" /\ reader.next <= Len(reader.rows)
  /\ reader' = IF RowHolds THEN [reader EXCEPT !.next = @ + 1, !.previous = Expected]
                           ELSE [reader EXCEPT !.at = "failed"]
  /\ UNCHANGED <<rows, file, writer, appended, damaged, faults>>

ChainIsValid ==
  /\ reader.at = "check" /\ reader.next > Len(reader.rows)
  /\ reader' = [reader EXCEPT !.at = "passed"]
  /\ UNCHANGED <<rows, file, writer, appended, damaged, faults>>

-----------------------------------------------------------------------------
(***************************************************************************)
(* Damage from outside: somebody edits the database or the directory, and  *)
(* does not compute hashes.                                                *)
(***************************************************************************)

Without(i) == [j \in 1..(Len(rows) - 1) |-> rows[IF j < i THEN j ELSE j + 1]]

DamageRows ==
  /\ \E i \in 1..Len(rows) :
       \/ rows' = Without(i)
       \/ \E e \in Entry \ {rows[i].entry} : rows' = [rows EXCEPT ![i].entry = e]
       \/ \E j \in 1..Len(rows) : j # i /\ rows' = [rows EXCEPT ![i] = rows[j]]
  /\ UNCHANGED file

DamageFile ==
  /\ \E c \in Content, state \in {"absent", "bad"} : file' = [file EXCEPT ![c] = state]
  /\ UNCHANGED rows

Damage ==
  /\ Fault /\ damaged' = TRUE
  /\ DamageRows \/ DamageFile
  /\ UNCHANGED <<writer, reader, appended>>

-----------------------------------------------------------------------------

Next ==
  \/ \E w \in Writer :
       \/ RecordEvidence(w) \/ \E c \in Content : StoreEvidenceBlob(w, c)
       \/ LookAtBlob(w) \/ AskForReference(w) \/ PutBlob(w) \/ AppendRow(w)
       \/ WriterStops(w)
  \/ ListEvidence \/ CheckRow \/ ChainIsValid
  \/ Damage

Spec == Init /\ [][Next]_vars

-----------------------------------------------------------------------------
(***************************************************************************)
(* Properties                                                              *)
(***************************************************************************)

TypeOK ==
  /\ rows \in Seq(Row)
  /\ file \in [Content -> {"absent", "good", "bad"}]
  /\ writer \in [Writer -> WriterState]
  /\ \A w \in Writer : At(w, "idle") <=> writer[w].entry = None
  /\ reader \in ReaderState /\ reader.next <= Len(reader.rows) + 1
  /\ appended \subseteq Hash
  /\ damaged \in BOOLEAN /\ faults \in Nat

\* The chain of a list of rows, as its closed form: the hash of each is that of all
\* entries up to it.
Chained(list) ==
  \A i \in 1..Len(list) :
    /\ list[i].previous_hash = Prefix(list, i - 1)
    /\ list[i].record_hash = Prefix(list, i)

Backed(list) == \A i \in 1..Len(list) : list[i].entry # None => file[list[i].entry] = "good"

\* However many writers append at once and wherever they die, the table is one
\* chain, and every row has its file.
LogIsSound == ~damaged => Chained(rows) /\ Backed(rows)

\* A verification that runs beside the writers never fails for what they do.
NoFalseAlarm == ~damaged => reader.at # "failed"

\* What passes the verification is what some writer computed a hash of when it recorded
\* its row: nothing is altered or put in, and nothing left out of the middle.  An end
\* that was cut off is not noticed, also when rows are then recorded behind the cut.
PassedIsGenuine ==
  reader.at = "passed" /\ reader.rows # <<>> => Entries(reader.rows) \in appended

\* The longest blob that is ever accepted; 0 if none is.
Accepted == {n \in 0..EvidenceBytes : \E c \in Content : Size[c] = n}
Longest  == CHOOSE n \in {0} \union Accepted : \A k \in Accepted : k <= n

\* The budget is measured before the row is there: each writer but one can go over
\* it by one blob, and no more.
BudgetIsKept ==
  ~damaged => Used <= EvidenceBytes + (Cardinality(Writer) - 1) * Longest

-----------------------------------------------------------------------------
(***************************************************************************)
(* What the properties rest on                                             *)
(***************************************************************************)

\* A writer that is about to append has its file in place.
FilesInPlace ==
  ~damaged =>
    /\ \A c \in Content : file[c] # "bad"
    /\ \A w \in Writer : At(w, "append") => file[writer[w].entry] = "good"

\* Whatever happens to rows, the hashes in them were computed by a writer.
HashesAppended ==
  /\ \A i \in 1..Len(rows) : rows[i].record_hash \in appended
  /\ \A i \in 1..Len(reader.rows) : reader.rows[i].record_hash \in appended

\* What the reader knows of the rows behind it.
ReaderPosition ==
  /\ ~damaged => Chained(reader.rows) /\ Backed(reader.rows)
  /\ reader.at \in {"check", "passed"} =>
       /\ reader.previous = Prefix(reader.rows, reader.next - 1)
       /\ \A i \in 1..(reader.next - 1) : reader.rows[i].record_hash = Prefix(reader.rows, i)
  /\ reader.at = "passed" => reader.next = Len(reader.rows) + 1

Storing == {w \in Writer : writer[w].entry # None}

\* Each call under way adds at most one blob.  Once one of them has measured, the
\* table with its blob is within the budget, and only the others come on top.
BudgetAhead ==
  LET limit == EvidenceBytes + (Cardinality(Writer) - 1) * Longest
      calls == Cardinality(Storing)
  IN  ~damaged =>
        /\ \A w \in Storing : Size[writer[w].entry] <= Longest
        /\ \/ Used + calls * Longest <= limit
           \/ \E w \in Storing :
                Used + Size[writer[w].entry] + (calls - 1) * Longest <= limit

EvidenceInvariant ==
  TypeOK /\ LogIsSound /\ NoFalseAlarm /\ FilesInPlace /\ HashesAppended /\ ReaderPosition

=============================================================================
