------------------------------ MODULE TextScan ------------------------------
(***************************************************************************)
(* The parallel text readers of src/marc_extension.cpp.  Files are handed  *)
(* out to the scan threads by an atomic counter and a file stays with its  *)
(* thread: TextScan (read_marc_breaker, read_marcxml) reads it slice by    *)
(* slice, WholeFileScan (read_marcjson, read_alephseq, read_microlif) at   *)
(* once.                                                                   *)
(*                                                                         *)
(* A file is given by its slices (module TextSource cuts them) and a slice *)
(* by the subfield rows that each of its records gives.                    *)
(***************************************************************************)
EXTENDS Integers, Sequences, FiniteSets, SequencesExt

CONSTANTS
  Threads,      \* the scan threads of the engine
  VECTOR_SIZE,  \* STANDARD_VECTOR_SIZE, rows of one output chunk (2048)
  Inputs,       \* the globs: sequences of files
  Readers       \* subset of {"slices", "whole"}

\* Whether the parser accepts the slice, and the rows of each of its records.
Slices == [ok : BOOLEAN, recs : Seq(Nat)]
Files == [opens : BOOLEAN, slices : Seq(Slices)]

ASSUME TextAssumption ==
  /\ Threads # {}
  /\ VECTOR_SIZE \in Nat \ {0}
  /\ Inputs \subseteq Seq(Files)
  /\ Readers \subseteq {"slices", "whole"}

VARIABLES
  paths, reader,            \* fixed for the scan
  next_text_path,           \* the atomic counter
  pc, path, source,         \* per thread: its file, and the slices it has read
  record_no, pending,       \* per thread
  output, failed            \* the engine's side

vars == <<paths, reader, next_text_path, pc, path, source, record_no, pending,
          output, failed>>

NoPath == 0
NoSource == -1

Init ==
  /\ paths \in Inputs
  /\ reader \in Readers
  /\ next_text_path = 0
  /\ pc = [t \in Threads |-> "ready"]
  /\ path = [t \in Threads |-> NoPath]
  /\ source = [t \in Threads |-> NoSource]
  /\ record_no = [t \in Threads |-> 0]
  /\ pending = [t \in Threads |-> <<>>]
  /\ output = [t \in Threads |-> <<>>]
  /\ failed = FALSE

Goto(t, label) == pc' = [pc EXCEPT ![t] = label]

\* The engine calls the scan function of a thread for its next chunk.
CallScan(t) ==
  /\ pc[t] = "ready"
  /\ Goto(t, "scan")
  /\ UNCHANGED <<paths, reader, next_text_path, path, source, record_no,
                 pending, output, failed>>

\* The loop's condition: WholeFileScan goes on as long as it has no rows,
\* TextScan until it has a full chunk.
WantsMore(t) ==
  IF reader = "whole" THEN pending[t] = <<>> ELSE Len(pending[t]) < VECTOR_SIZE

ScanFull(t) ==
  /\ pc[t] = "scan"
  /\ ~WantsMore(t)
  /\ Goto(t, "emit")
  /\ UNCHANGED <<paths, reader, next_text_path, path, source, record_no,
                 pending, output, failed>>

\* TextScan's source has another slice.
HasSlice(t) ==
  /\ reader = "slices"
  /\ source[t] # NoSource
  /\ source[t] < Len(paths[path[t]].slices)

\* next_text_path.fetch_add(1): the file is this thread's, or there is none.
NextPath(t) ==
  /\ pc[t] = "scan"
  /\ WantsMore(t)
  /\ ~HasSlice(t)
  /\ next_text_path' = next_text_path + 1
  /\ IF next_text_path >= Len(paths)
     THEN /\ source' = [source EXCEPT ![t] = NoSource]
          /\ Goto(t, "emit")
          /\ UNCHANGED path
     ELSE /\ path' = [path EXCEPT ![t] = next_text_path + 1]
          /\ Goto(t, "open")
          /\ UNCHANGED source
  /\ UNCHANGED <<paths, reader, record_no, pending, output, failed>>

\* Mutant: a file that does not open is tried again.
OpenThrowsRetried(t) ==
  /\ pc[t] = "open"
  /\ ~paths[path[t]].opens
  /\ UNCHANGED vars

\* Opening the file throws.
OpenThrows(t) ==
  /\ pc[t] = "open"
  /\ ~paths[path[t]].opens
  /\ failed' = TRUE
  /\ Goto(t, "threw")
  /\ UNCHANGED <<paths, reader, next_text_path, path, source, record_no,
                 pending, output>>

\* Mutant: records are counted on from the thread's last file.
OpenKeepsNumber(t) ==
  /\ pc[t] = "open"
  /\ reader = "slices"
  /\ paths[path[t]].opens
  /\ source' = [source EXCEPT ![t] = 0]
  /\ Goto(t, "scan")
  /\ UNCHANGED <<paths, reader, next_text_path, path, record_no, pending,
                 output, failed>>

OpenSource(t) ==
  /\ pc[t] = "open"
  /\ reader = "slices"
  /\ paths[path[t]].opens
  /\ source' = [source EXCEPT ![t] = 0]
  /\ record_no' = [record_no EXCEPT ![t] = 0]
  /\ Goto(t, "scan")
  /\ UNCHANGED <<paths, reader, next_text_path, path, pending, output, failed>>

\* The records of a file's first n slices, each by its number of rows.
RecordsOf(file, n) == FlattenSeq([k \in 1..n |-> file.slices[k].recs])

\* The rows of some records that stand behind the file's first `skip` ones,
\* under the record numbers from no + 1 on.
Rows(f, skip, no, recs) ==
  FlattenSeq([i \in DOMAIN recs |-> [k \in 1..recs[i] |->
    [raw |-> <<f, skip + i>>, row |-> k, file |-> f, record_no |-> no + i]]])

\* Mutant: a record's rows go to the front of the queue.
PushedInFront(t, rows) == rows \o pending[t]

\* PushRecordRows, record after record.
Pushed(t, rows) == pending[t] \o rows

\* PARSE of one slice.
ParseSlice(t) ==
  LET file == paths[path[t]]
      slice == file.slices[source[t] + 1] IN
  /\ pc[t] = "scan"
  /\ WantsMore(t)
  /\ HasSlice(t)
  /\ source' = [source EXCEPT ![t] = @ + 1]
  /\ \/ /\ slice.ok
        /\ record_no' = [record_no EXCEPT ![t] = @ + Len(slice.recs)]
        /\ pending' = [pending EXCEPT ![t] = Pushed(t,
             Rows(path[t], Len(RecordsOf(file, source[t])), record_no[t], slice.recs))]
        /\ UNCHANGED <<pc, failed>>
     \/ /\ ~slice.ok
        /\ failed' = TRUE
        /\ Goto(t, "threw")
        /\ UNCHANGED <<record_no, pending>>
  /\ UNCHANGED <<paths, reader, next_text_path, path, output>>

ParsesWhole(file) == \A k \in DOMAIN file.slices : file.slices[k].ok

\* WholeFileScan reads and parses the file; its record_no is local to it.
ParseWhole(t) ==
  LET file == paths[path[t]] IN
  /\ pc[t] = "open"
  /\ reader = "whole"
  /\ file.opens
  /\ \/ /\ ParsesWhole(file)
        /\ pending' = [pending EXCEPT ![t] = Pushed(t,
             Rows(path[t], 0, 0, RecordsOf(file, Len(file.slices))))]
        /\ Goto(t, "scan")
        /\ UNCHANGED failed
     \/ /\ ~ParsesWhole(file)
        /\ failed' = TRUE
        /\ Goto(t, "threw")
        /\ UNCHANGED pending
  /\ UNCHANGED <<paths, reader, next_text_path, path, source, record_no, output>>

ChunkLen(t) ==
  IF Len(pending[t]) < VECTOR_SIZE THEN Len(pending[t]) ELSE VECTOR_SIZE

\* Mutant: a thread that returned a short chunk is not called again.
AfterChunkShort(t) == IF ChunkLen(t) < VECTOR_SIZE THEN "done" ELSE "ready"

\* The engine calls a thread again until it returns an empty chunk.
AfterChunk(t) == IF ChunkLen(t) = 0 THEN "done" ELSE "ready"

\* EmitSubfieldRows.
Emit(t) ==
  /\ pc[t] = "emit"
  /\ output' = [output EXCEPT ![t] = @ \o SubSeq(pending[t], 1, ChunkLen(t))]
  /\ pending' = [pending EXCEPT ![t] = SubSeq(@, ChunkLen(t) + 1, Len(@))]
  /\ Goto(t, AfterChunk(t))
  /\ UNCHANGED <<paths, reader, next_text_path, path, source, record_no, failed>>

\* The engine does not call a thread of a failed query again.
Interrupt(t) ==
  /\ failed
  /\ pc[t] = "ready"
  /\ Goto(t, "done")
  /\ UNCHANGED <<paths, reader, next_text_path, path, source, record_no,
                 pending, output, failed>>

Step(t) ==
  \/ CallScan(t) \/ ScanFull(t) \/ NextPath(t)
  \/ OpenThrows(t) \/ OpenSource(t) \/ ParseSlice(t) \/ ParseWhole(t)
  \/ Emit(t) \/ Interrupt(t)

Stopped == {"done", "threw"}
AllStopped == \A t \in Threads : pc[t] \in Stopped

Terminated == AllStopped /\ UNCHANGED vars

Next == (\E t \in Threads : Step(t)) \/ Terminated

Spec == Init /\ [][Next]_vars

\* The engine keeps calling every thread until its scan ends.
FairSpec == Spec /\ \A t \in Threads : WF_vars(Step(t))

-----------------------------------------------------------------------------
(***************************************************************************)
(* Correctness.                                                            *)
(***************************************************************************)

Elements(s) == {s[i] : i \in DOMAIN s}

\* Where a row stands in the glob: by file, record, row of the record.
Before(r, s) ==
  \/ r.raw[1] < s.raw[1]
  \/ r.raw[1] = s.raw[1] /\ r.raw[2] < s.raw[2]
  \/ r.raw = s.raw /\ r.row < s.row

\* "A record_no that is 1-based within each file" (docs/REFERENCE.md:43-46),
\* although it is counted over slices that hold any number of records and a
\* thread reads one file after the other.
OrdinalsExact ==
  \A t \in Threads : \A row \in Elements(output[t]) :
    row.file = row.raw[1] /\ row.record_no = row.raw[2]

\* All rows of a file come from one thread, and every thread returns its
\* files in the order of the glob and their rows in the order of the file.
FilesStayTogether ==
  /\ \A t \in Threads : \A i, j \in DOMAIN output[t] :
       i < j => Before(output[t][i], output[t][j])
  /\ \A t, u \in Threads :
       \A r \in Elements(output[t]), s \in Elements(output[u]) :
         r.file = s.file => t = u

\* The scan of every thread ends.
ScanTerminates == <>AllStopped

OwedRows ==
  UNION {Elements(Rows(f, 0, 0, RecordsOf(paths[f], Len(paths[f].slices)))) :
           f \in DOMAIN paths}
Delivered == UNION {Elements(output[t]) : t \in Threads}

Emitted ==
  Cardinality(UNION {{<<t, i>> : i \in DOMAIN output[t]} : t \in Threads})

\* These readers skip nothing.
MustFail == \E f \in DOMAIN paths : ~paths[f].opens \/ ~ParsesWhole(paths[f])

Status == IF failed THEN "failed"
          ELSE IF AllStopped THEN "complete" ELSE "running"

Abstract == INSTANCE RecordScan WITH
  owed <- OwedRows, mustFail <- MustFail,
  delivered <- Delivered, emitted <- Emitted, status <- Status

\* The promise of the binary readers is kept by the text readers too: every
\* row is delivered exactly once, and a scan that meets a file it cannot open
\* or parse does not end without an error.
ExactlyOnce == Abstract!Spec

(***************************************************************************)
(* The inductive invariant behind these.                                   *)
(***************************************************************************)

TextRows == [raw : Nat \X Nat, row : Nat, file : Nat, record_no : Nat]

\* Every variable holds a value of its kind.
TypeOK ==
  /\ paths \in Inputs
  /\ reader \in Readers
  /\ next_text_path \in Nat
  /\ pc \in [Threads -> {"ready", "scan", "open", "emit"} \cup Stopped]
  /\ path \in [Threads -> Nat]
  /\ source \in [Threads -> Nat \cup {NoSource}]
  /\ record_no \in [Threads -> Nat]
  /\ pending \in [Threads -> Seq(TextRows)]
  /\ output \in [Threads -> Seq(TextRows)]
  /\ failed \in BOOLEAN

\* The records of a file.
All(f) == RecordsOf(paths[f], Len(paths[f].slices))

\* The rows a thread has made, handed to the engine or not.
Made(t) == output[t] \o pending[t]

\* The thread reads its file slice by slice; how many records it has read.
Reading(t) == source[t] # NoSource /\ pc[t] \notin {"open", "threw"}
HasRead(t) == Len(RecordsOf(paths[path[t]], source[t]))

\* A thread's file is one that was handed out, and while it is read, the
\* record number is the number of records read.
SourceOK(t) ==
  /\ path[t] \in 0..Len(paths) /\ path[t] <= next_text_path
  /\ pc[t] = "open" => path[t] # NoPath
  /\ reader = "whole" => source[t] = NoSource
  /\ Reading(t) =>
       /\ path[t] # NoPath /\ paths[path[t]].opens
       /\ source[t] <= Len(paths[path[t]].slices)
       /\ \A k \in 1..source[t] : paths[path[t]].slices[k].ok
       /\ record_no[t] = HasRead(t)

\* A thread ends only with an error or when there are no more files.
EndOK(t) ==
  /\ pc[t] = "threw" => failed
  /\ pc[t] = "done" => failed \/ pending[t] = <<>>
  /\ pc[t] \in {"emit", "done"} /\ pending[t] = <<>> =>
       failed \/ (source[t] = NoSource /\ Len(paths) <= next_text_path)

\* A row of the glob, under its own file and number.
Exact(row) ==
  /\ row.file \in 1..Len(paths)
  /\ row.record_no \in 1..Len(All(row.file))
  /\ row.row \in 1..All(row.file)[row.record_no]
  /\ row.raw = <<row.file, row.record_no>>

\* The row's record is one the thread has read.
Reached(t, row) ==
  /\ row.file <= path[t]
  /\ row.file = path[t] => pc[t] # "open" /\ (Reading(t) => row.record_no <= HasRead(t))

\* A thread's rows are exact, in order, and no further than it has read.
RowsOK(t) ==
  /\ \A i \in 1..Len(Made(t)) : Exact(Made(t)[i]) /\ Reached(t, Made(t)[i])
  /\ \A i, j \in 1..Len(Made(t)) : i < j => Before(Made(t)[i], Made(t)[j])

\* No two threads have a file in common.
FilesApart(t, u) ==
  /\ path[t] = path[u] => path[t] = NoPath
  /\ \A i \in 1..Len(Made(t)) :
       /\ Made(t)[i].file # path[u]
       /\ \A j \in 1..Len(Made(u)) : Made(t)[i].file # Made(u)[j].file

\* The thread has made all rows of the file's first n records.
MadeUpTo(t, f, n) ==
  \A no \in 1..n : \A k \in 1..All(f)[no] :
    \E i \in 1..Len(Made(t)) :
      Made(t)[i].file = f /\ Made(t)[i].record_no = no /\ Made(t)[i].row = k

\* A file that was handed out to the thread: to be opened, partly or wholly
\* made into rows.
HandledBy(t, f) ==
  \/ path[t] = f /\ pc[t] = "open"
  \/ path[t] = f /\ Reading(t) /\ MadeUpTo(t, f, HasRead(t))
  \/ paths[f].opens /\ ParsesWhole(paths[f]) /\ MadeUpTo(t, f, Len(All(f)))

\* No file that was handed out is lost.
FilesHandled ==
  ~failed => \A f \in 1..Len(paths) :
    f <= next_text_path => \E t \in Threads : HandledBy(t, f)

\* What the engine was handed, one by one.
EmittedSet == UNION {{<<t, i>> : i \in DOMAIN output[t]} : t \in Threads}

TextInv ==
  /\ TypeOK
  /\ \A t \in Threads : SourceOK(t) /\ EndOK(t) /\ RowsOK(t)
  /\ \A t, u \in Threads : t # u => FilesApart(t, u)
  /\ FilesHandled
  /\ IsFiniteSet(EmittedSet)
=============================================================================
