------------------------------ MODULE MarcScan ------------------------------
(***************************************************************************)
(* The parallel binary readers of src/marc_extension.cpp: read_marc,       *)
(* read_marc_subfields and read_marc_raw.  The threads of a scan share one *)
(* ScanGlobalState.  Under io_lock one of them splits raw records off the  *)
(* current file and numbers them; parsing, counting and emitting happen    *)
(* outside the lock, on every thread at once.                              *)
(*                                                                         *)
(* A record's bytes are abstracted to its identity <<file, ordinal>>,      *)
(* which is what RawWorkItem.raw is here, so that a row can be compared    *)
(* with the record it was really made from.  Under io_lock, splitting a    *)
(* record off the stream and numbering it are two steps.                   *)
(***************************************************************************)
EXTENDS Integers, Sequences, FiniteSets

CONSTANTS
  Threads,      \* the scan threads of the engine
  NoThread,     \* io_lock is free
  BATCH,        \* ScanLocalState::BATCH, records claimed at a time (48)
  VECTOR_SIZE,  \* STANDARD_VECTOR_SIZE, rows of one output chunk (2048)
  Inputs,       \* the globs: sequences of files
  Binds         \* the calls: reader, named parameters and engine version

\* What the scan can tell apart of a record: whether ParseRecord accepts it,
\* its leader/09, and how many subfield rows its kept fields give.
RecordKinds == [ok : BOOLEAN, leader9 : {"a", "A", "blank"}, rows : Nat]

Files == [opens : BOOLEAN, recs : Seq(RecordKinds)]

\* `external`: the engine claims batches itself (DuckDB v2.0).
Calls == [reader : {"subfields", "nested", "raw"}, ignore_errors : BOOLEAN,
          encoding : {"auto", "utf8", "marc8"}, external : BOOLEAN]

ASSUME ScanAssumption ==
  /\ Threads # {} /\ NoThread \notin Threads
  /\ BATCH \in Nat \ {0}
  /\ VECTOR_SIZE \in Nat \ {0}
  /\ Inputs \subseteq Seq(Files)
  /\ Binds \subseteq Calls

NoStream == -1
NoRecord == <<0, 0>>

VARIABLES
  paths, bind,                                   \* fixed for the scan
  io_lock, current_path, stream, next_record_no, exhausted,
  counters,                                      \* the four atomic counters
  pc, batch, batch_pos, item, pending,           \* per thread
  claims, claim_no, output, failed               \* the engine's side

globalVars == <<current_path, stream, next_record_no, exhausted>>
engineVars == <<claims, claim_no, output, failed>>
vars == <<paths, bind, io_lock, globalVars, counters, pc, batch, batch_pos,
          item, pending, engineVars>>

Init ==
  /\ paths \in Inputs
  /\ bind \in Binds
  /\ io_lock = NoThread
  /\ current_path = 0
  /\ stream = NoStream
  /\ next_record_no = 1
  /\ exhausted = FALSE
  /\ counters = [records_parsed |-> 0, marc8_records |-> 0,
                 utf8_records |-> 0, decode_errors |-> 0]
  /\ pc = [t \in Threads |-> IF bind.external THEN "idle" ELSE "ready"]
  /\ batch = [t \in Threads |-> <<>>]
  /\ batch_pos = [t \in Threads |-> 0]
  /\ item = [t \in Threads |-> NoRecord]
  /\ pending = [t \in Threads |-> <<>>]
  /\ claims = 0
  /\ claim_no = [t \in Threads |-> 0]
  /\ output = [t \in Threads |-> <<>>]
  /\ failed = FALSE

Goto(t, label) == pc' = [pc EXCEPT ![t] = label]

(***************************************************************************)
(* FillBatch, under io_lock.                                               *)
(***************************************************************************)

\* Mutant: the position of the old batch is kept for the new one.
ClaimBatchKeepsPosition(t) ==
  /\ batch' = [batch EXCEPT ![t] = <<>>]
  /\ Goto(t, "lock")
  /\ UNCHANGED batch_pos

\* ScanLocalState::ClaimBatch up to the lock: the old batch is dropped first.
ClaimBatch(t) ==
  /\ batch' = [batch EXCEPT ![t] = <<>>]
  /\ batch_pos' = [batch_pos EXCEPT ![t] = 0]
  /\ Goto(t, "lock")

\* The engine of v2.0 asks for the thread's next batch.
ScanClaimBatch(t) ==
  /\ pc[t] = "idle"
  /\ ClaimBatch(t)
  /\ UNCHANGED <<paths, bind, io_lock, globalVars, counters, item, pending,
                 engineVars>>

\* Mutant: FillBatch without its lock guard.
LockIoUnguarded(t) ==
  /\ pc[t] = "lock"
  /\ io_lock' = t
  /\ Goto(t, "fill")
  /\ UNCHANGED <<paths, bind, globalVars, counters, batch, batch_pos, item,
                 pending, engineVars>>

\* FillBatch takes the lock guard.
LockIo(t) ==
  /\ pc[t] = "lock"
  /\ io_lock = NoThread
  /\ io_lock' = t
  /\ Goto(t, "fill")
  /\ UNCHANGED <<paths, bind, globalVars, counters, batch, batch_pos, item,
                 pending, engineVars>>

\* The condition of FillBatch's loop.
WantsMore(t) == Len(batch[t]) < BATCH /\ ~exhausted

\* Mutant: the path index moves on before it is compared with the glob.
FillExhaustedPastEnd(t) ==
  /\ pc[t] = "fill" /\ WantsMore(t)
  /\ stream = NoStream
  /\ current_path >= Len(paths)
  /\ exhausted' = TRUE
  /\ current_path' = current_path + 1
  /\ UNCHANGED <<paths, bind, io_lock, stream, next_record_no, counters, pc,
                 batch, batch_pos, item, pending, engineVars>>

FillExhausted(t) ==
  /\ pc[t] = "fill" /\ WantsMore(t)
  /\ stream = NoStream
  /\ current_path >= Len(paths)
  /\ exhausted' = TRUE
  /\ UNCHANGED <<paths, bind, io_lock, current_path, stream, next_record_no,
                 counters, pc, batch, batch_pos, item, pending, engineVars>>

\* Mutant: record numbers run on from one file to the next.
FillOpenKeepsNumber(t) ==
  /\ pc[t] = "fill" /\ WantsMore(t)
  /\ stream = NoStream
  /\ current_path < Len(paths)
  /\ paths[current_path + 1].opens
  /\ stream' = 0
  /\ current_path' = current_path + 1
  /\ UNCHANGED <<paths, bind, io_lock, next_record_no, exhausted, counters, pc,
                 batch, batch_pos, item, pending, engineVars>>

FillOpen(t) ==
  /\ pc[t] = "fill" /\ WantsMore(t)
  /\ stream = NoStream
  /\ current_path < Len(paths)
  /\ paths[current_path + 1].opens
  /\ stream' = 0
  /\ current_path' = current_path + 1
  /\ next_record_no' = 1
  /\ UNCHANGED <<paths, bind, io_lock, exhausted, counters, pc, batch,
                 batch_pos, item, pending, engineVars>>

\* Mutant: the lock is not released when opening throws.
FillOpenThrowsLocked(t) ==
  /\ pc[t] = "fill" /\ WantsMore(t)
  /\ stream = NoStream
  /\ current_path < Len(paths)
  /\ ~paths[current_path + 1].opens
  /\ failed' = TRUE
  /\ Goto(t, "threw")
  /\ UNCHANGED <<paths, bind, io_lock, globalVars, counters, batch, batch_pos,
                 item, pending, claims, claim_no, output>>

\* Opening throws before current_path moves; the lock guard releases io_lock
\* and the engine is left with a failed query.
FillOpenThrows(t) ==
  /\ pc[t] = "fill" /\ WantsMore(t)
  /\ stream = NoStream
  /\ current_path < Len(paths)
  /\ ~paths[current_path + 1].opens
  /\ io_lock' = NoThread
  /\ failed' = TRUE
  /\ Goto(t, "threw")
  /\ UNCHANGED <<paths, bind, globalVars, counters, batch, batch_pos, item,
                 pending, claims, claim_no, output>>

FillNextRaw(t) ==
  /\ pc[t] = "fill" /\ WantsMore(t)
  /\ stream # NoStream
  /\ stream < Len(paths[current_path].recs)
  /\ item' = [item EXCEPT ![t] = <<current_path, stream + 1>>]
  /\ stream' = stream + 1
  /\ Goto(t, "number")
  /\ UNCHANGED <<paths, bind, io_lock, current_path, next_record_no,
                 exhausted, counters, batch, batch_pos, pending, engineVars>>

FillEndOfFile(t) ==
  /\ pc[t] = "fill" /\ WantsMore(t)
  /\ stream # NoStream
  /\ stream >= Len(paths[current_path].recs)
  /\ stream' = NoStream
  /\ UNCHANGED <<paths, bind, io_lock, current_path, next_record_no,
                 exhausted, counters, pc, batch, batch_pos, item, pending,
                 engineVars>>

FillNumber(t) ==
  /\ pc[t] = "number"
  /\ batch' = [batch EXCEPT ![t] =
        Append(@, [raw |-> item[t], record_no |-> next_record_no,
                   path_idx |-> current_path - 1])]
  /\ next_record_no' = next_record_no + 1
  /\ item' = [item EXCEPT ![t] = NoRecord]
  /\ Goto(t, "fill")
  /\ UNCHANGED <<paths, bind, io_lock, current_path, stream, exhausted,
                 counters, batch_pos, pending, engineVars>>

\* FillBatch returns and unlocks.  `claims` numbers the batches in the order
\* in which they were filled; a batch of the engine's own claiming is tagged
\* with it.
FillReturn(t) ==
  /\ pc[t] = "fill" /\ ~WantsMore(t)
  /\ io_lock' = NoThread
  /\ IF batch[t] = <<>>
     THEN /\ Goto(t, IF bind.external THEN "done" ELSE "emit")
          /\ UNCHANGED <<claims, claim_no>>
     ELSE /\ Goto(t, IF bind.external THEN "ready" ELSE "scan")
          /\ claims' = claims + 1
          /\ claim_no' = [claim_no EXCEPT ![t] = claims + 1]
  /\ UNCHANGED <<paths, bind, globalVars, counters, batch, batch_pos, item,
                 pending, output, failed>>

(***************************************************************************)
(* The scan functions SubfieldsScan, NestedScan and RawScan.               *)
(***************************************************************************)

\* The engine calls the scan function of a thread for its next chunk.
CallScan(t) ==
  /\ pc[t] = "ready"
  /\ Goto(t, "scan")
  /\ UNCHANGED <<paths, bind, io_lock, globalVars, counters, batch, batch_pos,
                 item, pending, engineVars>>

\* Mutant: claimed_externally is not consulted.
RefillsItselfAlways == TRUE

\* A thread whose batches the engine claims never refills on its own.
RefillsItself == ~bind.external

\* Head of the loop: stop at a full chunk, else take the batch's next record,
\* else refill - unless the batch was claimed by the engine.
ScanFull(t) ==
  /\ pc[t] = "scan"
  /\ Len(pending[t]) >= VECTOR_SIZE
  /\ Goto(t, "emit")
  /\ UNCHANGED <<paths, bind, io_lock, globalVars, counters, batch, batch_pos,
                 item, pending, engineVars>>

NextRaw(t) ==
  /\ pc[t] = "scan"
  /\ Len(pending[t]) < VECTOR_SIZE
  /\ \/ /\ batch_pos[t] < Len(batch[t])
        /\ batch_pos' = [batch_pos EXCEPT ![t] = @ + 1]
        /\ Goto(t, "parse")
        /\ UNCHANGED batch
     \/ /\ batch_pos[t] >= Len(batch[t])
        /\ ~RefillsItself
        /\ Goto(t, "emit")
        /\ UNCHANGED <<batch, batch_pos>>
     \/ /\ batch_pos[t] >= Len(batch[t])
        /\ RefillsItself
        /\ ClaimBatch(t)
  /\ UNCHANGED <<paths, bind, io_lock, globalVars, counters, item, pending,
                 engineVars>>

\* The item NextRaw handed out last, and the record whose bytes it holds.
Current(t) == batch[t][batch_pos[t]]
RecordOf(raw) == paths[raw[1]].recs[raw[2]]

\* ParseRecord's choice of decoder: leader/09 decides only under `auto`.
DecodedAs(rec) ==
  CASE bind.encoding = "utf8" -> "utf8"
    [] bind.encoding = "marc8" -> "marc8"
    [] OTHER -> IF rec.leader9 = "a" THEN "utf8" ELSE "marc8"

\* The rows one record adds to the thread's output.
RowCount(rec) ==
  IF bind.reader = "subfields" THEN IF rec.ok THEN rec.rows ELSE 0
  ELSE IF rec.ok \/ bind.reader = "raw" THEN 1 ELSE 0

RowsOf(t) ==
  [k \in 1..RowCount(RecordOf(Current(t).raw)) |->
     [raw |-> Current(t).raw, row |-> k,
      file |-> Current(t).path_idx + 1, record_no |-> Current(t).record_no,
      claim |-> claim_no[t]]]

\* CountRecord's two increments, and CountError's.
Counted == [counters EXCEPT !.records_parsed = @ + 1]

Classified(rec) ==
  IF rec.leader9 \in {"a", "A"}
  THEN [counters EXCEPT !.utf8_records = @ + 1]
  ELSE [counters EXCEPT !.marc8_records = @ + 1]

\* Mutant: an error that is skipped is not counted.
ErrorUncounted ==
  IF bind.ignore_errors THEN counters
  ELSE [counters EXCEPT !.decode_errors = @ + 1]

ErrorCounted == [counters EXCEPT !.decode_errors = @ + 1]

\* ParseRecord succeeds, and the record is counted.
ParseAndCount(t) ==
  /\ pc[t] = "parse"
  /\ RecordOf(Current(t).raw).ok
  /\ counters' = Counted
  /\ Goto(t, "classify")
  /\ UNCHANGED <<paths, bind, io_lock, globalVars, batch, batch_pos, item,
                 pending, engineVars>>

\* The record is classified by its leader, and gives its rows.
ClassifyAndPush(t) ==
  /\ pc[t] = "classify"
  /\ counters' = Classified(RecordOf(Current(t).raw))
  /\ pending' = [pending EXCEPT ![t] = @ \o RowsOf(t)]
  /\ Goto(t, "scan")
  /\ UNCHANGED <<paths, bind, io_lock, globalVars, batch, batch_pos, item,
                 engineVars>>

\* Mutant: every reader goes on after a malformed record.
SkipsErrorsAlways == TRUE

\* read_marc_raw reports a malformed record in its row, the other readers
\* skip it or fail the query.
SkipsErrors == bind.reader = "raw" \/ bind.ignore_errors

\* ParseRecord throws MarcError.
ParseThrows(t) ==
  /\ pc[t] = "parse"
  /\ ~RecordOf(Current(t).raw).ok
  /\ counters' = ErrorCounted
  /\ pending' = [pending EXCEPT ![t] = @ \o RowsOf(t)]
  /\ IF SkipsErrors
     THEN Goto(t, "scan") /\ UNCHANGED failed
     ELSE Goto(t, "threw") /\ failed' = TRUE
  /\ UNCHANGED <<paths, bind, io_lock, globalVars, batch, batch_pos, item,
                 claims, claim_no, output>>

ChunkLen(t) ==
  IF Len(pending[t]) < VECTOR_SIZE THEN Len(pending[t]) ELSE VECTOR_SIZE

\* Mutant: the last row of a full chunk stays pending.
LeftoverOffByOne(t) ==
  IF Len(pending[t]) < VECTOR_SIZE THEN <<>>
  ELSE SubSeq(pending[t], VECTOR_SIZE, Len(pending[t]))

\* The rows that did not fit in the chunk.
Leftover(t) == SubSeq(pending[t], ChunkLen(t) + 1, Len(pending[t]))

\* The chunk goes to the engine.  An empty one ends the thread's scan, or
\* its batch when the engine claims (FinishBatch drops what is left of it).
Emit(t) ==
  LET n == ChunkLen(t) IN
  /\ pc[t] = "emit"
  /\ output' = [output EXCEPT ![t] = @ \o SubSeq(pending[t], 1, n)]
  /\ pending' = [pending EXCEPT ![t] = Leftover(t)]
  /\ \/ /\ n > 0
        /\ Goto(t, "ready")
        /\ UNCHANGED <<batch, batch_pos>>
     \/ /\ n = 0
        /\ ~bind.external
        /\ Goto(t, "done")
        /\ UNCHANGED <<batch, batch_pos>>
     \/ /\ n = 0
        /\ bind.external
        /\ batch' = [batch EXCEPT ![t] = <<>>]
        /\ batch_pos' = [batch_pos EXCEPT ![t] = 0]
        /\ Goto(t, "idle")
  /\ UNCHANGED <<paths, bind, io_lock, globalVars, counters, item, claims,
                 claim_no, failed>>

\* The engine does not call a thread of a failed query again.
Interrupt(t) ==
  /\ failed
  /\ pc[t] \in {"idle", "ready"}
  /\ Goto(t, "done")
  /\ UNCHANGED <<paths, bind, io_lock, globalVars, counters, batch, batch_pos,
                 item, pending, engineVars>>

Fill(t) ==
  \/ FillExhausted(t) \/ FillOpen(t) \/ FillOpenThrows(t)
  \/ FillNextRaw(t) \/ FillEndOfFile(t) \/ FillNumber(t) \/ FillReturn(t)

Step(t) ==
  \/ ScanClaimBatch(t) \/ LockIo(t) \/ Fill(t)
  \/ CallScan(t) \/ ScanFull(t) \/ NextRaw(t)
  \/ ParseAndCount(t) \/ ClassifyAndPush(t) \/ ParseThrows(t)
  \/ Emit(t) \/ Interrupt(t)

Stopped == {"done", "threw"}
AllStopped == \A t \in Threads : pc[t] \in Stopped

Terminated == AllStopped /\ UNCHANGED vars

Next == (\E t \in Threads : Step(t)) \/ Terminated

Spec == Init /\ [][Next]_vars

\* The engine keeps calling every thread until its scan ends, and a mutex
\* that is free is eventually given to a waiting thread.
FairSpec == Spec /\ \A t \in Threads : WF_vars(Step(t))

-----------------------------------------------------------------------------
(***************************************************************************)
(* Correctness.                                                            *)
(***************************************************************************)

Labels == {"idle", "lock", "fill", "number", "ready", "scan", "parse",
           "classify", "emit"} \cup Stopped

Raws == Nat \X Nat
Items == [raw : Raws, record_no : Nat, path_idx : Int]
Rows == [raw : Raws, row : Nat, file : Int, record_no : Nat, claim : Nat]

\* Every variable holds a value of its kind.
TypeOK ==
  /\ paths \in Inputs
  /\ bind \in Binds
  /\ io_lock \in Threads \cup {NoThread}
  /\ current_path \in 0..Len(paths)
  /\ stream \in Nat \cup {NoStream}
  /\ next_record_no \in Nat
  /\ exhausted \in BOOLEAN
  /\ counters \in [records_parsed : Nat, marc8_records : Nat,
                   utf8_records : Nat, decode_errors : Nat]
  /\ pc \in [Threads -> Labels]
  /\ batch \in [Threads -> Seq(Items)]
  /\ batch_pos \in [Threads -> Nat]
  /\ item \in [Threads -> Raws]
  /\ pending \in [Threads -> Seq(Rows)]
  /\ claims \in Nat
  /\ claim_no \in [Threads -> Nat]
  /\ output \in [Threads -> Seq(Rows)]
  /\ failed \in BOOLEAN

Elements(s) == {s[i] : i \in DOMAIN s}

\* The row says the file and the ordinal of the record it was made from.
Exact(row) == row.file = row.raw[1] /\ row.record_no = row.raw[2]

\* Records are handed out "with their exact per-file ordinals"
\* (marc_extension.cpp:189-191): whichever thread split and numbered it, a
\* row carries the file and the position of the record whose bytes it has.
OrdinalsExact ==
  \A t \in Threads : \A row \in Elements(output[t]) : Exact(row)

\* Where a row stands in the glob: by file, record, row of the record.
Before(r, s) ==
  \/ r.raw[1] < s.raw[1]
  \/ r.raw[1] = s.raw[1] /\ r.raw[2] < s.raw[2]
  \/ r.raw = s.raw /\ r.row < s.row

\* One thread's chunks, read in the order it returned them, are in the order
\* of the input: batches are claimed in order and drained in order.
ThreadOutputInOrder ==
  \A t \in Threads : \A i, j \in DOMAIN output[t] :
    i < j => Before(output[t][i], output[t][j])

\* "lets batches read in parallel be put back in order": sorting the rows by
\* the order in which their batches were claimed restores the input's order
\* over all threads (marc_extension.cpp:317-322).
BatchesRestoreOrder ==
  \A t, u \in Threads :
    \A r \in Elements(output[t]), s \in Elements(output[u]) :
      r.claim < s.claim => Before(r, s)

\* A thread whose batches the engine claims never refills on its own: every
\* chunk it returns holds rows of the batch it was last handed, so that the
\* engine knows which batch they belong to (marc_extension.cpp:272-276).
ChunksStayInTheirBatch ==
  [][\A t \in Threads :
       bind.external =>
         \A i \in (Len(output[t]) + 1)..Len(output'[t]) :
           output'[t][i].claim = claim_no[t]]_output

\* Records of the glob, and what the counters should have seen of them.
AllRecords == UNION {{<<f, i>> : i \in DOMAIN paths[f].recs} : f \in DOMAIN paths}
HowMany(P(_)) == Cardinality({raw \in AllRecords : P(RecordOf(raw))})

\* When a scan has ended without an error, the counters account for every
\* record of the glob once, whichever threads and batches it went through.
CountersComplete ==
  AllStopped /\ ~failed =>
    /\ counters.records_parsed = HowMany(LAMBDA rec : rec.ok)
    /\ counters.decode_errors = HowMany(LAMBDA rec : ~rec.ok)
    /\ counters.utf8_records = HowMany(LAMBDA rec : rec.ok /\ rec.leader9 # "blank")

\* The scan of every thread ends: no thread waits for io_lock for ever and
\* none is called again and again for empty chunks.
ScanTerminates == <>AllStopped

(***************************************************************************)
(* Refinement.                                                             *)
(***************************************************************************)

\* The rows the glob stands for.
OwedRows ==
  UNION {{[raw |-> raw, row |-> k] : k \in 1..RowCount(RecordOf(raw))} :
           raw \in AllRecords}

Delivered ==
  {[raw |-> row.raw, row |-> row.row] :
     row \in UNION {Elements(output[t]) : t \in Threads}}

Emitted ==
  Cardinality(UNION {{<<t, i>> : i \in DOMAIN output[t]} : t \in Threads})

\* An input the scan can neither read nor skip.
MustFail ==
  \/ \E f \in DOMAIN paths : ~paths[f].opens
  \/ /\ bind.reader # "raw" /\ ~bind.ignore_errors
     /\ \E raw \in AllRecords : ~RecordOf(raw).ok

Status == IF failed THEN "failed"
          ELSE IF AllStopped THEN "complete" ELSE "running"

Abstract == INSTANCE RecordScan WITH
  owed <- OwedRows, mustFail <- MustFail,
  delivered <- Delivered, emitted <- Emitted, status <- Status

\* However the threads interleave, every row of the glob is delivered exactly
\* once, and the scan ends without an error only when all of them were and
\* nothing had to fail.
ExactlyOnce == Abstract!Spec

(***************************************************************************)
(* The inductive invariant behind OrdinalsExact.                           *)
(***************************************************************************)

\* io_lock is held exactly by the thread inside FillBatch.
LockHeld == \A t \in Threads : pc[t] \in {"fill", "number"} <=> io_lock = t

\* The record has been split off the stream.
SplitOff(raw) ==
  /\ raw[1] \in 1..current_path
  /\ raw[2] \in 1..Len(paths[raw[1]].recs)
  /\ raw[1] = current_path /\ stream # NoStream => raw[2] <= stream

\* next_record_no is the ordinal of the next record of the open stream, or of
\* the record that was split off and not yet numbered.
CursorOK ==
  /\ stream # NoStream =>
       /\ current_path \in 1..Len(paths)
       /\ stream \in 0..Len(paths[current_path].recs)
       /\ (\A t \in Threads : pc[t] # "number") => next_record_no = stream + 1
  /\ \A t \in Threads : pc[t] = "number" =>
       /\ stream \in Nat \ {0}
       /\ next_record_no = stream
       /\ item[t] = <<current_path, stream>>

\* Every item of a thread's batch is a record that was split off, under its
\* own ordinal and file, and a thread that parses is at an item of its batch.
BatchOK(t) ==
  /\ \A i \in 1..Len(batch[t]) :
       /\ SplitOff(batch[t][i].raw)
       /\ batch[t][i].path_idx + 1 = batch[t][i].raw[1]
       /\ batch[t][i].record_no = batch[t][i].raw[2]
  /\ batch_pos[t] \in 0..Len(batch[t])
  /\ pc[t] \in {"parse", "classify"} => batch_pos[t] # 0

\* Rows keep the file and ordinal of the item they were made from.
RowsExact(t) ==
  /\ \A i \in 1..Len(pending[t]) : Exact(pending[t][i])
  /\ \A i \in 1..Len(output[t]) : Exact(output[t][i])

IndInv ==
  /\ TypeOK
  /\ LockHeld
  /\ CursorOK
  /\ \A t \in Threads : BatchOK(t) /\ RowsExact(t)
=============================================================================
