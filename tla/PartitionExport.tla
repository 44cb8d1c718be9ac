--------------------------- MODULE PartitionExport ---------------------------
(***************************************************************************)
(* exportStructuredPartitions: a source is read row by row and every row   *)
(* is appended to the file of its store and day, through a pool that keeps *)
(* a bounded number of files open, buffers what is written to them, and    *)
(* closes the one used least recently when another is needed.  The import  *)
(* pipeline (PartitionImport) publishes what is in these files and what is *)
(* said about them.                                                        *)
(*                                                                         *)
(* A row is what the export tells apart in it: whether it is blank, a      *)
(* header, has a total's label in its first cell, has cells beyond the     *)
(* header's width, whether its other cells can be converted, its merchant, *)
(* store and day, and the bytes of the line made of it.                    *)
(***************************************************************************)
EXTENDS Integers, Sequences, FiniteSets, FiniteSetsExt, Orders

CONSTANTS
  ExportSources,    \* [order, sheets], a sheet being [hidden, rows]
  LowerCase,        \* store name -> the name with its ASCII letters in lower case
  HeaderScanRows, HeaderBytes, FlushThreshold,
  MaxOpenFiles, MaxRows, MaxFiles, MaxCanonicalBytes

ASSUME ExportAssumption ==
  /\ {HeaderScanRows, HeaderBytes, FlushThreshold, MaxOpenFiles, MaxRows, MaxFiles, MaxCanonicalBytes}
       \subseteq Nat \ {0}
  /\ \A s \in ExportSources :
       /\ Len(s.sheets) \in Nat \ {0}
       /\ \A n \in 1..Len(s.sheets) :
            /\ Len(s.sheets[n].rows) \in Nat
            /\ \A i \in 1..Len(s.sheets[n].rows) : s.sheets[n].rows[i].bytes \in Nat

VARIABLES
  source,     \* the file being exported
  reader,     \* [pc, sheet, row, header, seen]
  pool,       \* open files, the least recently used first: [file, chunks, bytes]
  files,      \* candidate directory: file -> lines
  states      \* partitions: file -> [name, count, bytes, hashed]

exportVars == <<source, reader, pool, files, states>>

HeaderLine == <<0, 0>>

-----------------------------------------------------------------------------
\* partitionStoreIdentity and the business date name a row's file.
FileOf(row) ==
  <<IF row.merchant # "" THEN <<"merchant", row.merchant>> ELSE <<"name", LowerCase[row.store]>>, row.day>>

NoValue(text) == text \in {"", "--"}

\* Footers: in order reports a real store's row is never one.
isSummary(row) ==
  IF source.order THEN NoValue(row.day) /\ (row.store = "total" \/ (NoValue(row.store) /\ row.label))
  ELSE row.label

Passed(row) == row.kind = "blank" \/ isSummary(row)

\* canonicalCell and partitionStoreIdentity throw.
Unreadable(row) ==
  \/ row.wide \/ ~row.valid \/ NoValue(row.day)
  \/ source.order /\ row.store = "--"
  \/ row.merchant = "" /\ row.store = ""

StoreConflict(row) ==
  /\ FileOf(row) \in DOMAIN states
  /\ states[FileOf(row)].name # "" /\ row.store # "" /\ states[FileOf(row)].name # row.store

-----------------------------------------------------------------------------
(***************************************************************************)
(* BoundedFileWriterPool.                                                  *)
(***************************************************************************)
Flushed(to, entry) == [to EXCEPT ![entry.file] = to[entry.file] \o entry.chunks]

EvictedUnflushed(w) == [pool |-> Tail(w.pool), files |-> w.files]

\* The oldest file is flushed and closed.
Evicted(w) == [pool |-> Tail(w.pool), files |-> Flushed(w.files, Head(w.pool))]

IsOpen(w, file) == \E i \in 1..Len(w.pool) : w.pool[i].file = file

PlaceOf(w, file) == CHOOSE i \in 1..Len(w.pool) : w.pool[i].file = file

\* The entry at a place is taken out and put at the end.
MovedLast(entries, at) ==
  SubSeq(entries, 1, at - 1) \o SubSeq(entries, at + 1, Len(entries)) \o <<entries[at]>>

\* An open file becomes the most recently used; another one is opened for appending.
handleFor(w, file) ==
  IF IsOpen(w, file)
  THEN [w EXCEPT !.pool = MovedLast(w.pool, PlaceOf(w, file))]
  ELSE LET room == IF Len(w.pool) >= MaxOpenFiles THEN Evicted(w) ELSE w
       IN  [pool |-> Append(room.pool, [file |-> file, chunks |-> <<>>, bytes |-> 0]),
            files |-> [f \in DOMAIN room.files \cup {file} |->
                         IF f \in DOMAIN room.files THEN room.files[f] ELSE <<>>]]

write(w, file, line, bytes) ==
  LET v == handleFor(w, file)
      n == Len(v.pool)
      entry == [file |-> file, chunks |-> Append(v.pool[n].chunks, line), bytes |-> v.pool[n].bytes + bytes]
  IN  IF entry.bytes < FlushThreshold THEN [v EXCEPT !.pool[n] = entry]
      ELSE [pool |-> [v.pool EXCEPT ![n] = [file |-> file, chunks |-> <<>>, bytes |-> 0]],
            files |-> Flushed(v.files, entry)]

\* A file with what is still buffered for it.
Held(w, file) ==
  IF IsOpen(w, file) THEN w.files[file] \o w.pool[PlaceOf(w, file)].chunks ELSE w.files[file]

closeAll == [f \in DOMAIN files |-> Held([pool |-> pool, files |-> files], f)]

-----------------------------------------------------------------------------
TotalRows == FoldSet(LAMBDA f, n : n + states[f].count, 0, DOMAIN states)
TotalBytes == FoldSet(LAMBDA f, n : n + states[f].bytes, 0, DOMAIN states)

\* The catch block: buffers are dropped and the candidate directory is made anew.
Throws ==
  /\ reader' = [reader EXCEPT !.pc = "failed"]
  /\ pool' = <<>> /\ files' = [f \in {} |-> <<>>]
  /\ UNCHANGED <<source, states>>

Sheet == source.sheets[reader.sheet]
ThisRow == Sheet.rows[reader.row]
ThisLine == <<reader.sheet, reader.row>>

AtRow == reader.pc = "rows" /\ reader.row <= Len(Sheet.rows)

StepOver(header) ==
  reader' = [reader EXCEPT !.row = @ + 1, !.header = header, !.seen = @ \/ ThisRow.kind # "blank"]

\* Rows up to the header are set aside; nothing of them is exported.
LookForHeader ==
  /\ AtRow /\ ~reader.header
  /\ IF reader.row <= HeaderScanRows
     THEN IF ThisRow.kind = "header" /\ Sheet.hidden THEN Throws
          ELSE StepOver(ThisRow.kind = "header") /\ UNCHANGED <<source, pool, files, states>>
     ELSE IF reader.seen \/ ThisRow.kind # "blank" THEN Throws
          ELSE StepOver(FALSE) /\ UNCHANGED <<source, pool, files, states>>

SkipRow ==
  /\ AtRow /\ reader.header /\ Passed(ThisRow)
  /\ StepOver(TRUE)
  /\ UNCHANGED <<source, pool, files, states>>

\* The row's partition, made with its first row; a missing name is taken from a later one.
StateWith(row) ==
  LET file == FileOf(row)
      first == file \notin DOMAIN states
      old == IF first THEN [name |-> row.store, count |-> 0, bytes |-> HeaderBytes, hashed |-> <<HeaderLine>>]
             ELSE states[file]
  IN  [name |-> IF old.name = "" THEN row.store ELSE old.name, count |-> old.count + 1,
       bytes |-> old.bytes + row.bytes, hashed |-> Append(old.hashed, ThisLine)]

OverLimit(row) ==
  LET first == FileOf(row) \notin DOMAIN states
  IN  \/ first /\ Cardinality(DOMAIN states) >= MaxFiles
      \/ TotalRows + 1 > MaxRows
      \/ TotalBytes + row.bytes + (IF first THEN HeaderBytes ELSE 0) > MaxCanonicalBytes

processDataRow ==
  /\ AtRow /\ reader.header /\ ~Passed(ThisRow)
  /\ IF Unreadable(ThisRow) \/ StoreConflict(ThisRow) \/ OverLimit(ThisRow) THEN Throws
     ELSE LET row == ThisRow
              file == FileOf(row)
              w0 == [pool |-> pool, files |-> files]
              w1 == IF file \in DOMAIN states THEN w0 ELSE write(w0, file, HeaderLine, HeaderBytes)
              w2 == write(w1, file, ThisLine, row.bytes)
          IN  /\ states' = [f \in DOMAIN states \cup {file} |-> IF f = file THEN StateWith(row) ELSE states[f]]
              /\ pool' = w2.pool /\ files' = w2.files
              /\ StepOver(TRUE) /\ UNCHANGED source

\* A sheet with content needs a header and may not be hidden.
FinishSheet ==
  /\ reader.pc = "rows" /\ reader.row > Len(Sheet.rows)
  /\ IF reader.seen /\ (Sheet.hidden \/ ~reader.header) THEN Throws
     ELSE /\ reader' = IF reader.sheet < Len(source.sheets)
                       THEN [pc |-> "rows", sheet |-> reader.sheet + 1, row |-> 1, header |-> FALSE, seen |-> FALSE]
                       ELSE [reader EXCEPT !.pc = "close"]
          /\ UNCHANGED <<source, pool, files, states>>

CloseFiles ==
  /\ reader.pc = "close"
  /\ IF TotalRows = 0 THEN Throws
     ELSE /\ files' = closeAll /\ pool' = <<>>
          /\ reader' = [reader EXCEPT !.pc = "done"]
          /\ UNCHANGED <<source, states>>

\* The signal is aborted, or opening, writing or closing a file fails.
ExportFails == reader.pc \in {"rows", "close"} /\ Throws

ExportInit ==
  /\ source \in ExportSources
  /\ reader = [pc |-> "rows", sheet |-> 1, row |-> 1, header |-> FALSE, seen |-> FALSE]
  /\ pool = <<>> /\ files = [f \in {} |-> <<>>] /\ states = [f \in {} |-> <<>>]

ExportNext ==
  \/ LookForHeader \/ SkipRow \/ processDataRow \/ FinishSheet \/ CloseFiles \/ ExportFails

ExportSpec == ExportInit /\ [][ExportNext]_exportVars

-----------------------------------------------------------------------------
RowAt(line) == source.sheets[line[1]].rows[line[2]]

\* The data rows of the source, by position: those below the first header of their sheet.
DataLines ==
  {l \in UNION {{n} \X (1..Len(source.sheets[n].rows)) : n \in 1..Len(source.sheets)} :
     /\ ~Passed(RowAt(l))
     /\ \E h \in 1..(l[2] - 1) : RowAt(<<l[1], h>>).kind = "header"}

Above(l, m) == l[1] < m[1] \/ (l[1] = m[1] /\ l[2] < m[2])

\* The data rows of one store and day, in the order of the source.
LinesOf(file) ==
  LET own == {l \in DataLines : FileOf(RowAt(l)) = file}
  IN  InOrder(own, {p \in own \X own : Above(p[1], p[2])})

\* What a file of these lines measures.
BytesOf(lines) ==
  LET total[n \in 0..Len(lines)] == IF n = 0 THEN HeaderBytes ELSE total[n - 1] + RowAt(lines[n]).bytes
  IN  total[Len(lines)]

\* A row has its file's name, or none.
NamedBy(row, name) == row.store \in {"", name}

\* A finished export is the source, split: every data row is in the file of its store
\* and day and in no other, once, in the order of the source and below one header; the
\* count, size and checksum reported for a file are those of what is in it, however
\* often it was closed and opened again for other files.  No more files are ever open
\* than allowed, and a failed export leaves no file behind (exportStructuredPartitions,
\* BoundedFileWriterPool).
ExportIsTheSource ==
  /\ Len(pool) <= MaxOpenFiles
  /\ reader.pc = "failed" => DOMAIN files = {} /\ pool = <<>>
  /\ reader.pc = "done" =>
       /\ DOMAIN files = {FileOf(RowAt(l)) : l \in DataLines}
       /\ DOMAIN states = DOMAIN files
       /\ \A f \in DOMAIN files :
            /\ files[f] = <<HeaderLine>> \o LinesOf(f) /\ states[f].hashed = files[f]
            /\ states[f].count = Len(LinesOf(f))
            /\ states[f].bytes = BytesOf(LinesOf(f))
            /\ \A i \in 1..Len(LinesOf(f)) : NamedBy(RowAt(LinesOf(f)[i]), states[f].name)
=============================================================================
