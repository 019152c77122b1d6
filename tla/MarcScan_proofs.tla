-------------------------- MODULE MarcScan_proofs --------------------------
(***************************************************************************)
(* Proofs about MarcScan, for any number of threads, any batch and chunk   *)
(* size, any globs and any calls: the types, the ordinals, the order of    *)
(* the rows within a thread and over the batches of all threads, the       *)
(* counters while the scan runs; that a scan that ends without an error    *)
(* has counted every record of the glob and made every row of it; that the *)
(* counters reported by ScanMetrics fit together; and that the scan        *)
(* implements RecordScan.                                                  *)
(***************************************************************************)
EXTENDS ScanMetrics, GeneralFacts

-----------------------------------------------------------------------------
(* The glob is a sequence of files and a file holds a sequence of records. *)
LEMMA Glob ==
  ASSUME paths \in Inputs
  PROVE  /\ paths \in Seq(Files)
         /\ Len(paths) \in Nat
         /\ \A f \in 1..Len(paths) : /\ paths[f].recs \in Seq(RecordKinds)
                                     /\ Len(paths[f].recs) \in Nat
<1>1. paths \in Seq(Files) /\ Len(paths) \in Nat
  BY ScanAssumption
<1>2. \A f \in 1..Len(paths) : paths[f] \in Files
  BY <1>1
<1> QED
  BY <1>1, <1>2 DEF Files

-----------------------------------------------------------------------------
(* What a parsing thread works on.                                         *)

\* What an item of a batch consists of.
LEMMA BatchItem ==
  ASSUME TypeOK, NEW t \in Threads, NEW i \in 1..Len(batch[t])
  PROVE  /\ batch[t][i] \in Items
         /\ batch[t][i].raw \in Raws
<1>1. batch[t] \in Seq(Items)
  BY DEF TypeOK
<1>2. batch[t][i] \in Items
  BY <1>1
<1> QED
  BY <1>2 DEF Items

\* The record a thread parses is a record of the glob, and the item says its
\* file and its ordinal.
LEMMA CurrentItem ==
  ASSUME IndInv, NEW t \in Threads, pc[t] \in {"parse", "classify"}
  PROVE  /\ Current(t) \in Items
         /\ Current(t).raw \in Raws
         /\ Current(t).record_no \in Nat
         /\ Current(t).path_idx \in Int
         /\ Current(t).path_idx + 1 = Current(t).raw[1]
         /\ Current(t).record_no = Current(t).raw[2]
         /\ RecordOf(Current(t).raw) \in RecordKinds
<1>1. batch[t] \in Seq(Items) /\ batch_pos[t] \in 1..Len(batch[t])
  BY DEF IndInv, TypeOK, BatchOK
<1>2. /\ Current(t) \in Items
      /\ SplitOff(Current(t).raw)
      /\ Current(t).path_idx + 1 = Current(t).raw[1]
      /\ Current(t).record_no = Current(t).raw[2]
  BY <1>1 DEF IndInv, BatchOK, Current
<1>3. /\ Current(t).raw \in Raws
      /\ Current(t).record_no \in Nat
      /\ Current(t).path_idx \in Int
  BY <1>2 DEF Items
<1>4. RecordOf(Current(t).raw) \in RecordKinds
  <2>1. current_path \in 0..Len(paths) /\ Len(paths) \in Nat
    BY Glob DEF IndInv, TypeOK
  <2>2. Current(t).raw[1] \in 1..Len(paths)
    BY <1>2, <1>3, <2>1 DEF SplitOff, Raws
  <2>4. paths[Current(t).raw[1]].recs \in Seq(RecordKinds)
    BY <2>2, Glob DEF IndInv, TypeOK
  <2> QED
    BY <1>2, <2>4 DEF SplitOff, RecordOf
<1> QED
  BY <1>2, <1>3, <1>4

\* The rows made from a record carry its file and its ordinal.
LEMMA RowsOfCurrent ==
  ASSUME IndInv, NEW t \in Threads, pc[t] \in {"parse", "classify"}
  PROVE  /\ RowsOf(t) \in Seq(Rows)
         /\ \A i \in 1..Len(RowsOf(t)) : Exact(RowsOf(t)[i])
<1> DEFINE n == RowCount(RecordOf(Current(t).raw))
<1>1. n \in Nat
  BY CurrentItem DEF RowCount, RecordKinds
<1>2. claim_no[t] \in Nat
  BY DEF IndInv, TypeOK
<1>3. ASSUME NEW k \in 1..n
      PROVE  /\ RowsOf(t)[k] \in Rows
             /\ Exact(RowsOf(t)[k])
  BY <1>1, <1>2, <1>3, CurrentItem DEF RowsOf, Rows, Exact
<1>4. RowsOf(t) \in [1..n -> Rows]
  <2>1. DOMAIN RowsOf(t) = 1..n
    BY DEF RowsOf
  <2> QED
    BY <1>3, <2>1 DEF RowsOf
<1>5. RowsOf(t) \in Seq(Rows) /\ Len(RowsOf(t)) = n
  <2> HIDE DEF n
  <2> QED BY <1>1, <1>4
<1> QED
  BY <1>3, <1>5

-----------------------------------------------------------------------------
(* IndInv is inductive: one lemma per action.                              *)

\* The initial states.
LEMMA InitIndInv == Init => IndInv
<1> SUFFICES ASSUME Init PROVE IndInv
  OBVIOUS
<1> USE DEF Init
<1>1. TypeOK
  <2>1. Len(paths) \in Nat
    BY Glob
  <2>2. current_path \in 0..Len(paths)
    BY <2>1
  <2>3. stream \in Nat \cup {NoStream}
    BY DEF NoStream
  <2>4. counters \in [records_parsed : Nat, marc8_records : Nat,
                     utf8_records : Nat, decode_errors : Nat]
    OBVIOUS
  <2>5. pc \in [Threads -> Labels]
    BY DEF Labels
  <2>6. item \in [Threads -> Raws]
    BY DEF NoRecord, Raws
  <2>7. batch \in [Threads -> Seq(Items)]
    OBVIOUS
  <2>8. /\ pending \in [Threads -> Seq(Rows)]
        /\ output \in [Threads -> Seq(Rows)]
    OBVIOUS
  <2> QED
    BY <2>1, <2>2, <2>3, <2>4, <2>5, <2>6, <2>7, <2>8 DEF TypeOK
<1>2. LockHeld /\ CursorOK
  BY ScanAssumption DEF LockHeld, CursorOK
<1>3. \A t \in Threads : BatchOK(t) /\ RowsExact(t)
  BY DEF BatchOK, RowsExact
<1> QED
  BY <1>1, <1>2, <1>3 DEF IndInv

\* What a step does not touch stays right.
LEMMA BatchFrame ==
  ASSUME NEW u \in Threads, BatchOK(u),
         UNCHANGED <<paths, current_path, stream>>,
         batch'[u] = batch[u], batch_pos'[u] = batch_pos[u], pc'[u] = pc[u]
  PROVE  BatchOK(u)'
BY DEF BatchOK, SplitOff

\* The rows of a thread are as exact as they were while they stay the same.
LEMMA RowsFrame ==
  ASSUME NEW u \in Threads, RowsExact(u),
         pending'[u] = pending[u], output'[u] = output[u]
  PROVE  RowsExact(u)'
BY DEF RowsExact, Exact

\* The claim of a batch, up to the lock.
LEMMA ClaimStep ==
  ASSUME IndInv, NEW t \in Threads, ClaimBatch(t),
         pc[t] \notin {"fill", "number"},
         UNCHANGED <<paths, bind, io_lock, globalVars, counters, item,
                     pending, engineVars>>
  PROVE  IndInv'
<1> USE DEF IndInv, ClaimBatch, Goto, globalVars, engineVars
<1>1. TypeOK'
  BY DEF TypeOK, Labels
<1>2. LockHeld' /\ CursorOK'
  BY DEF TypeOK, LockHeld, CursorOK
<1>3. ASSUME NEW u \in Threads
      PROVE  BatchOK(u)' /\ RowsExact(u)'
  <2>1. CASE u = t
    BY <2>1, RowsFrame DEF TypeOK, BatchOK
  <2>2. CASE u # t
    BY <2>2, BatchFrame, RowsFrame DEF TypeOK
  <2> QED
    BY <2>1, <2>2
<1> QED
  BY <1>1, <1>2, <1>3

\* A thread outside FillBatch moves on and touches nothing else.
LEMMA MoveStep ==
  ASSUME IndInv, NEW t \in Threads,
         NEW label \in Labels \ {"fill", "number", "parse", "classify"},
         Goto(t, label),
         pc[t] \notin {"fill", "number"},
         UNCHANGED <<paths, bind, io_lock, globalVars, counters, batch,
                     batch_pos, item, pending, claims, claim_no, output>>,
         failed' \in BOOLEAN
  PROVE  IndInv'
<1> USE DEF IndInv, Goto, globalVars
<1>1. TypeOK'
  BY DEF TypeOK
<1>2. LockHeld' /\ CursorOK'
  BY DEF TypeOK, LockHeld, CursorOK
<1>3. ASSUME NEW u \in Threads
      PROVE  BatchOK(u)' /\ RowsExact(u)'
  <2>1. CASE u = t
    BY <2>1, RowsFrame, ZenonT(30) DEF TypeOK, BatchOK, SplitOff
  <2>2. CASE u # t
    BY <2>2, BatchFrame, RowsFrame DEF TypeOK
  <2> QED
    BY <2>1, <2>2
<1> QED
  BY <1>1, <1>2, <1>3

\* A thread gets the lock.
LEMMA LockIoStep ==
  ASSUME IndInv, NEW t \in Threads, LockIo(t)
  PROVE  IndInv'
<1> USE DEF IndInv, LockIo, Goto, globalVars, engineVars
<1>1. TypeOK'
  BY DEF TypeOK, Labels
<1>2. LockHeld' /\ CursorOK'
  BY ScanAssumption DEF TypeOK, LockHeld, CursorOK
<1>3. ASSUME NEW u \in Threads
      PROVE  BatchOK(u)' /\ RowsExact(u)'
  <2>1. CASE u = t
    BY <2>1, RowsFrame DEF TypeOK, BatchOK, SplitOff
  <2>2. CASE u # t
    BY <2>2, BatchFrame, RowsFrame DEF TypeOK
  <2> QED
    BY <2>1, <2>2
<1> QED
  BY <1>1, <1>2, <1>3

\* The next file is opened and its records are counted from the first.
LEMMA FillOpenStep ==
  ASSUME IndInv, NEW t \in Threads, FillOpen(t)
  PROVE  IndInv'
<1> USE DEF IndInv, FillOpen, Goto, engineVars
<1>1. /\ Len(paths) \in Nat
      /\ current_path \in 0..Len(paths)
      /\ current_path' \in 1..Len(paths)
  BY Glob DEF TypeOK
<1>2. TypeOK'
  <2>1. stream' \in Nat \cup {NoStream} /\ next_record_no' \in Nat
    OBVIOUS
  <2>2. current_path' \in 0..Len(paths')
    BY <1>1
  <2> QED
    BY <2>1, <2>2 DEF TypeOK
<1>3. LockHeld'
  BY DEF LockHeld
<1>4. CursorOK'
  <2>1. \A u \in Threads : pc[u] # "number"
    BY DEF LockHeld
  <2>2. stream' \in 0..Len(paths[current_path'].recs)
    BY <1>1, Glob, SMTT(30) DEF TypeOK
  <2> QED
    BY <1>1, <2>1, <2>2 DEF CursorOK
<1>5. ASSUME NEW u \in Threads
      PROVE  BatchOK(u)' /\ RowsExact(u)'
  <2>1. ASSUME NEW raw \in Raws, SplitOff(raw)
        PROVE  SplitOff(raw)'
    BY <1>1, <2>1 DEF SplitOff, Raws
  <2>2. ASSUME NEW i \in 1..Len(batch[u])
        PROVE  batch[u][i].raw \in Raws
    BY <2>2, BatchItem
  <2>3. BatchOK(u)'
    BY <2>1, <2>2 DEF BatchOK
  <2> QED
    BY <2>3, RowsFrame
<1> QED
  BY <1>2, <1>3, <1>4, <1>5

\* A record is split off the stream.
LEMMA FillNextRawStep ==
  ASSUME IndInv, NEW t \in Threads, FillNextRaw(t)
  PROVE  IndInv'
<1> USE DEF IndInv, FillNextRaw, Goto, engineVars
<1>1. /\ Len(paths) \in Nat
      /\ current_path \in 1..Len(paths)
      /\ stream \in Nat
      /\ stream' \in 1..Len(paths[current_path].recs)
  <2>1. current_path \in 1..Len(paths) /\ stream \in Nat
    BY DEF CursorOK
  <2> QED
    BY <2>1, Glob, SMTT(30) DEF TypeOK
<1>2. TypeOK'
  <2>1. pc' \in [Threads -> Labels]
    BY DEF TypeOK, Labels
  <2>2. <<current_path, stream + 1>> \in Raws
    BY <1>1 DEF Raws
  <2>3. item' \in [Threads -> Raws]
    BY <2>2 DEF TypeOK
  <2>4. stream' \in Nat \cup {NoStream}
    BY <1>1
  <2> QED
    BY <2>1, <2>3, <2>4 DEF TypeOK
<1>3. LockHeld'
  BY DEF LockHeld, TypeOK
<1>4. CursorOK'
  <2>1. \A u \in Threads : pc[u] # "number"
    BY DEF LockHeld
  <2>2. next_record_no = stream + 1
    BY <2>1, <1>1 DEF CursorOK, NoStream
  <2>3. \A u \in Threads : pc'[u] = "number" => u = t
    BY <2>1 DEF TypeOK
  <2>4. stream' \in 0..Len(paths[current_path].recs) /\ stream' \in Nat \ {0}
    BY <1>1
  <2> QED
    BY <1>1, <2>2, <2>3, <2>4 DEF CursorOK, TypeOK
<1>5. ASSUME NEW u \in Threads
      PROVE  BatchOK(u)' /\ RowsExact(u)'
  <2>1. ASSUME NEW raw \in Raws, SplitOff(raw)
        PROVE  SplitOff(raw)'
    BY <1>1, <2>1 DEF SplitOff, Raws, NoStream
  <2>2. ASSUME NEW i \in 1..Len(batch[u])
        PROVE  batch[u][i].raw \in Raws
    BY <2>2, BatchItem
  <2>3. BatchOK(u)'
    BY <2>1, <2>2 DEF BatchOK, TypeOK
  <2> QED
    BY <2>3, RowsFrame
<1> QED
  BY <1>2, <1>3, <1>4, <1>5

\* The stream has no more records.
LEMMA FillEndOfFileStep ==
  ASSUME IndInv, NEW t \in Threads, FillEndOfFile(t)
  PROVE  IndInv'
<1> USE DEF IndInv, FillEndOfFile, engineVars
<1>1. TypeOK'
  BY DEF TypeOK
<1>2. LockHeld'
  BY DEF LockHeld
<1>3. CursorOK'
  <2>1. \A u \in Threads : pc[u] # "number"
    BY DEF LockHeld
  <2> QED
    BY <2>1 DEF CursorOK
<1>4. ASSUME NEW u \in Threads
      PROVE  BatchOK(u)' /\ RowsExact(u)'
  <2>1. BatchOK(u)'
    BY DEF BatchOK, SplitOff
  <2> QED
    BY <2>1, RowsFrame
<1> QED
  BY <1>1, <1>2, <1>3, <1>4

\* There are no more files.
LEMMA FillExhaustedStep ==
  ASSUME IndInv, NEW t \in Threads, FillExhausted(t)
  PROVE  IndInv'
<1> USE DEF IndInv, FillExhausted, engineVars
<1>1. TypeOK' /\ LockHeld' /\ CursorOK'
  BY DEF TypeOK, LockHeld, CursorOK
<1>2. ASSUME NEW u \in Threads
      PROVE  BatchOK(u)' /\ RowsExact(u)'
  BY BatchFrame, RowsFrame
<1> QED
  BY <1>1, <1>2

\* The thread leaves FillBatch and releases the lock, by return or by throw.
LEMMA UnlockStep ==
  ASSUME IndInv, NEW t \in Threads, pc[t] = "fill", io_lock' = NoThread,
         NEW label \in Labels \ {"fill", "number", "parse", "classify"},
         Goto(t, label),
         UNCHANGED <<paths, bind, globalVars, counters, batch, batch_pos,
                     item, pending, output>>,
         failed' \in BOOLEAN, claims' \in Nat, claim_no' \in [Threads -> Nat]
  PROVE  IndInv'
<1> USE DEF IndInv, Goto, globalVars
<1>1. TypeOK'
  BY DEF TypeOK
<1>2. LockHeld'
  BY ScanAssumption DEF TypeOK, LockHeld
<1>3. CursorOK'
  BY DEF TypeOK, LockHeld, CursorOK
<1>4. ASSUME NEW u \in Threads
      PROVE  BatchOK(u)' /\ RowsExact(u)'
  <2>1. CASE u = t
    BY <2>1, RowsFrame DEF TypeOK, BatchOK, SplitOff
  <2>2. CASE u # t
    BY <2>2, BatchFrame, RowsFrame DEF TypeOK
  <2> QED
    BY <2>1, <2>2
<1> QED
  BY <1>1, <1>2, <1>3, <1>4

\* A file cannot be opened; the lock is released.
LEMMA FillOpenThrowsStep ==
  ASSUME IndInv, NEW t \in Threads, FillOpenThrows(t)
  PROVE  IndInv'
<1>1. claims \in Nat /\ claim_no \in [Threads -> Nat]
  BY DEF IndInv, TypeOK
<1>2. "threw" \in Labels \ {"fill", "number", "parse", "classify"}
  BY DEF Labels, Stopped
<1> QED
  BY <1>1, <1>2, UnlockStep DEF FillOpenThrows

\* The batch is full, or there is nothing more to put into it.
LEMMA FillReturnStep ==
  ASSUME IndInv, NEW t \in Threads, FillReturn(t)
  PROVE  IndInv'
<1>1. /\ claims \in Nat /\ claims + 1 \in Nat
      /\ claim_no \in [Threads -> Nat]
      /\ [claim_no EXCEPT ![t] = claims + 1] \in [Threads -> Nat]
      /\ failed \in BOOLEAN
  BY SMTT(30) DEF IndInv, TypeOK
<1>2. {"done", "emit", "ready", "scan"} \subseteq
        Labels \ {"fill", "number", "parse", "classify"}
  BY DEF Labels, Stopped
<1>3. PICK label \in {"done", "emit", "ready", "scan"} : Goto(t, label)
  BY DEF FillReturn
<1>4. claims' \in Nat /\ claim_no' \in [Threads -> Nat]
  BY <1>1 DEF FillReturn
<1> QED
  BY <1>1, <1>2, <1>3, <1>4, UnlockStep DEF FillReturn

\* The record split off gets its number and joins the batch.
LEMMA FillNumberStep ==
  ASSUME IndInv, NEW t \in Threads, FillNumber(t)
  PROVE  IndInv'
<1> USE DEF IndInv, FillNumber, Goto, engineVars
<1>1. /\ io_lock = t
      /\ Len(paths) \in Nat
      /\ current_path \in 0..Len(paths)
      /\ stream \in Nat \ {0}
      /\ next_record_no = stream
      /\ item[t] = <<current_path, stream>>
  BY Glob DEF LockHeld, CursorOK, TypeOK
<1>2. stream # NoStream
  BY <1>1 DEF NoStream
<1>3. /\ current_path \in 1..Len(paths)
      /\ stream \in 0..Len(paths[current_path].recs)
      /\ Len(paths[current_path].recs) \in Nat
  BY <1>2, Glob DEF CursorOK, TypeOK
<1>4. PICK new \in Items :
        /\ new = [raw |-> item[t], record_no |-> next_record_no,
                  path_idx |-> current_path - 1]
        /\ new.raw = <<current_path, stream>>
        /\ new.raw \in Raws
        /\ new.path_idx + 1 = new.raw[1] /\ new.record_no = new.raw[2]
  <2>1. item[t] \in Raws
    BY DEF TypeOK
  <2> QED
    BY <1>1, <1>3, <2>1 DEF Items
<1>5. /\ batch \in [Threads -> Seq(Items)]
      /\ batch' = [batch EXCEPT ![t] = Append(batch[t], new)]
      /\ batch'[t] = Append(batch[t], new)
      /\ Len(batch[t]) \in Nat
  <2>1. batch \in [Threads -> Seq(Items)]
    BY DEF TypeOK
  <2> QED
    BY <1>4, <2>1
<1>6. TypeOK'
  <2>1. batch' \in [Threads -> Seq(Items)]
    BY <1>4, <1>5 DEF TypeOK
  <2>2. item' \in [Threads -> Raws]
    BY DEF TypeOK, NoRecord, Raws
  <2>3. next_record_no' \in Nat
    BY <1>1
  <2>4. pc' \in [Threads -> Labels]
    BY DEF TypeOK, Labels
  <2> QED
    BY <2>1, <2>2, <2>3, <2>4 DEF TypeOK
<1>7. LockHeld'
  BY DEF LockHeld, TypeOK
<1>8. CursorOK'
  <2>1. \A u \in Threads : pc'[u] # "number"
    BY <1>1 DEF LockHeld, TypeOK
  <2>2. next_record_no' = stream + 1
    BY <1>1
  <2> QED
    BY <1>3, <2>1, <2>2 DEF CursorOK
<1>9. ASSUME NEW u \in Threads
      PROVE  BatchOK(u)' /\ RowsExact(u)'
  <2>1. CASE u = t
    <3>1. ASSUME NEW raw \in Raws, SplitOff(raw) \/ raw = <<current_path, stream>>
          PROVE  SplitOff(raw)'
      BY <1>1, <1>3, <3>1 DEF SplitOff
    <3>2. ASSUME NEW i \in 1..Len(batch'[t])
          PROVE  /\ SplitOff(batch[t][i].raw)'
                 /\ (batch[t][i].path_idx + 1 = batch[t][i].raw[1])'
                 /\ (batch[t][i].record_no = batch[t][i].raw[2])'
      <4>1. CASE i \in 1..Len(batch[t])
        <5>1. batch'[t][i] = batch[t][i]
          BY <1>4, <1>5, <4>1
        <5> QED
          BY <3>1, <4>1, <5>1, BatchItem DEF BatchOK
      <4>2. CASE i = Len(batch[t]) + 1
        <5>1. batch'[t][i] = new
          BY <1>4, <1>5, <4>2
        <5> QED
          BY <1>4, <3>1, <5>1
      <4> QED
        BY <1>4, <1>5, <4>1, <4>2
    <3>3. /\ batch_pos'[t] \in 0..Len(batch'[t])
          /\ pc'[t] = "fill"
      <4>1. Len(batch'[t]) = Len(batch[t]) + 1
        BY <1>4, <1>5
      <4>2. batch_pos[t] \in 0..Len(batch[t])
        BY DEF BatchOK
      <4>3. pc'[t] = "fill"
        BY DEF TypeOK
      <4> QED
        BY <1>5, <4>1, <4>2, <4>3
    <3> QED
      BY <2>1, <3>2, <3>3, RowsFrame DEF BatchOK
  <2>2. CASE u # t
    BY <2>2, BatchFrame, RowsFrame DEF TypeOK
  <2> QED
    BY <2>1, <2>2
<1> QED
  BY <1>6, <1>7, <1>8, <1>9

\* A thread takes the next record of its batch, or asks for another batch.
LEMMA NextRawStep ==
  ASSUME IndInv, NEW t \in Threads, NextRaw(t)
  PROVE  IndInv'
<1>1. CASE batch_pos[t] >= Len(batch[t]) /\ ~RefillsItself
  <2>1. "emit" \in Labels \ {"fill", "number", "parse", "classify"}
    BY DEF Labels
  <2>2. batch_pos[t] \in Nat /\ Len(batch[t]) \in Nat /\ failed \in BOOLEAN
    BY DEF IndInv, TypeOK
  <2> QED
    BY <1>1, <2>1, <2>2, MoveStep DEF NextRaw, engineVars
<1>2. CASE batch_pos[t] >= Len(batch[t]) /\ RefillsItself
  <2>1. batch_pos[t] \in Nat /\ Len(batch[t]) \in Nat
    BY DEF IndInv, TypeOK
  <2> QED
    BY <1>2, <2>1, ClaimStep DEF NextRaw
<1>3. CASE batch_pos[t] < Len(batch[t])
  <2> USE DEF IndInv, Goto, globalVars, engineVars
  <2>1. batch_pos[t] \in Nat /\ Len(batch[t]) \in Nat
    BY DEF TypeOK
  <2>2. /\ batch_pos' = [batch_pos EXCEPT ![t] = @ + 1]
        /\ pc[t] = "scan" /\ pc' = [pc EXCEPT ![t] = "parse"]
        /\ UNCHANGED <<paths, bind, io_lock, globalVars, counters, batch,
                       item, pending, engineVars>>
    BY <1>3, <2>1 DEF NextRaw
  <2>3. TypeOK'
    <3>1. pc' \in [Threads -> Labels]
      BY <2>2 DEF TypeOK, Labels
    <3>2. batch_pos' \in [Threads -> Nat]
      BY <2>2 DEF TypeOK
    <3> QED
      BY <2>2, <3>1, <3>2 DEF TypeOK
  <2>4. LockHeld' /\ CursorOK'
    BY <2>2 DEF TypeOK, LockHeld, CursorOK
  <2>5. ASSUME NEW u \in Threads
        PROVE  BatchOK(u)' /\ RowsExact(u)'
    <3>1. CASE u = t
      <4>a. batch_pos \in [Threads -> Nat]
        BY DEF TypeOK
      <4>b. batch_pos'[t] = batch_pos[t] + 1
        BY ONLY <2>2, <4>a, t \in Threads
      <4>1. batch_pos'[t] \in 1..Len(batch[t])
        BY ONLY <1>3, <2>1, <4>b
      <4>c. ASSUME NEW i \in 1..Len(batch'[t])
            PROVE  /\ SplitOff(batch[t][i].raw)'
                   /\ batch'[t][i].path_idx + 1 = batch'[t][i].raw[1]
                   /\ batch'[t][i].record_no = batch'[t][i].raw[2]
        <5>1. batch' = batch /\ BatchOK(t)
          BY <2>2
        <5>2. /\ SplitOff(batch[t][i].raw)
              /\ batch[t][i].path_idx + 1 = batch[t][i].raw[1]
              /\ batch[t][i].record_no = batch[t][i].raw[2]
          BY ONLY <5>1, i \in 1..Len(batch'[t]) DEF BatchOK
        <5>3. SplitOff(batch[t][i].raw)'
          BY ONLY <2>2, <5>2 DEF SplitOff, globalVars
        <5> QED
          BY ONLY <5>1, <5>2, <5>3
      <4>d. batch_pos'[t] \in 0..Len(batch'[t]) /\ batch_pos'[t] # 0
        BY ONLY <2>1, <2>2, <4>1
      <4>2. BatchOK(t)'
        BY ONLY <4>c, <4>d DEF BatchOK
      <4> QED
        BY <2>2, <3>1, <4>2, RowsFrame
    <3>2. CASE u # t
      BY <2>2, <3>2, BatchFrame, RowsFrame DEF TypeOK
    <3> QED
      BY <3>1, <3>2
  <2> QED
    BY <2>3, <2>4, <2>5
<1> QED
  <2>1. batch_pos[t] \in Nat /\ Len(batch[t]) \in Nat
    BY DEF IndInv, TypeOK
  <2> QED
    BY <1>1, <1>2, <1>3, <2>1

\* The thread is done with its record: rows of that record may be appended.
LEMMA RecordStep ==
  ASSUME IndInv, NEW t \in Threads, pc[t] \in {"parse", "classify"},
         NEW label \in {"scan", "threw", "classify"}, Goto(t, label),
         \/ UNCHANGED pending
         \/ pending' = [pending EXCEPT ![t] = @ \o RowsOf(t)],
         counters' \in [records_parsed : Nat, marc8_records : Nat,
                       utf8_records : Nat, decode_errors : Nat],
         UNCHANGED <<paths, bind, io_lock, globalVars, batch, batch_pos,
                     item, claims, claim_no, output>>,
         failed' \in BOOLEAN
  PROVE  IndInv'
<1> USE DEF IndInv, Goto, globalVars
<1>1. /\ pending \in [Threads -> Seq(Rows)]
      /\ pending'[t] = pending[t] \/ pending'[t] = pending[t] \o RowsOf(t)
      /\ pending' \in [Threads -> Seq(Rows)]
  <2>1. pending \in [Threads -> Seq(Rows)]
    BY DEF TypeOK
  <2>2. pending[t] \o RowsOf(t) \in Seq(Rows)
    BY <2>1, RowsOfCurrent
  <2>3. CASE UNCHANGED pending
    BY <2>1, <2>3
  <2>4. CASE pending' = [pending EXCEPT ![t] = @ \o RowsOf(t)]
    BY <2>1, <2>2, <2>4
  <2> QED
    BY <2>3, <2>4
<1>2. TypeOK'
  <2>1. pc' \in [Threads -> Labels]
    BY DEF TypeOK, Labels, Stopped
  <2> QED
    BY <1>1, <2>1 DEF TypeOK
<1>3. LockHeld' /\ CursorOK'
  BY DEF TypeOK, LockHeld, CursorOK
<1>4. ASSUME NEW u \in Threads
      PROVE  BatchOK(u)' /\ RowsExact(u)'
  <2>1. CASE u = t
    <3>1. BatchOK(t)'
      BY DEF TypeOK, BatchOK, SplitOff
    <3>2. ASSUME NEW i \in 1..Len(pending'[t])
          PROVE  Exact(pending'[t][i])
      <4>1. CASE pending'[t] = pending[t]
        BY <3>2, <4>1 DEF RowsExact
      <4>2. CASE pending'[t] = pending[t] \o RowsOf(t)
        <5> DEFINE old == pending[t]
                   new == RowsOf(t)
        <5>1. old \in Seq(Rows) /\ new \in Seq(Rows)
          BY <1>1, RowsOfCurrent
        <5>2. /\ \A j \in 1..Len(old) : Exact(old[j])
              /\ \A j \in 1..Len(new) : Exact(new[j])
          BY RowsOfCurrent DEF RowsExact
        <5>3. pending'[t][i] = IF i <= Len(old) THEN old[i] ELSE new[i - Len(old)]
          BY <3>2, <4>2, <5>1
        <5>4. i \in 1..(Len(old) + Len(new)) /\ Len(old) \in Nat /\ Len(new) \in Nat
          BY <3>2, <4>2, <5>1
        <5> HIDE DEF old, new
        <5> QED
          BY <5>2, <5>3, <5>4
      <4> QED
        BY <1>1, <4>1, <4>2
    <3>3. ASSUME NEW row, Exact(row) PROVE Exact(row)'
      BY <3>3 DEF Exact
    <3> QED
      BY <2>1, <3>1, <3>2, <3>3 DEF RowsExact, Exact
  <2>2. CASE u # t
    BY <2>2, BatchFrame, RowsFrame DEF TypeOK
  <2> QED
    BY <2>1, <2>2
<1> QED
  BY <1>2, <1>3, <1>4

\* A record is parsed.
LEMMA ParseAndCountStep ==
  ASSUME IndInv, NEW t \in Threads, ParseAndCount(t)
  PROVE  IndInv'
<1>1. counters' \in [records_parsed : Nat, marc8_records : Nat,
                    utf8_records : Nat, decode_errors : Nat]
  <2>1. counters \in [records_parsed : Nat, marc8_records : Nat,
                     utf8_records : Nat, decode_errors : Nat]
    BY DEF IndInv, TypeOK
  <2> QED
    BY <2>1 DEF ParseAndCount, Counted
<1>2. failed \in BOOLEAN
  BY DEF IndInv, TypeOK
<1> QED
  BY <1>1, <1>2, RecordStep DEF ParseAndCount, engineVars

\* Its rows are pushed.
LEMMA ClassifyAndPushStep ==
  ASSUME IndInv, NEW t \in Threads, ClassifyAndPush(t)
  PROVE  IndInv'
<1>1. counters' \in [records_parsed : Nat, marc8_records : Nat,
                    utf8_records : Nat, decode_errors : Nat]
  <2>1. counters \in [records_parsed : Nat, marc8_records : Nat,
                     utf8_records : Nat, decode_errors : Nat]
    BY DEF IndInv, TypeOK
  <2> QED
    BY <2>1 DEF ClassifyAndPush, Classified
<1>2. failed \in BOOLEAN
  BY DEF IndInv, TypeOK
<1> QED
  BY <1>1, <1>2, RecordStep DEF ClassifyAndPush, engineVars

\* It does not parse.
LEMMA ParseThrowsStep ==
  ASSUME IndInv, NEW t \in Threads, ParseThrows(t)
  PROVE  IndInv'
<1>1. counters' \in [records_parsed : Nat, marc8_records : Nat,
                    utf8_records : Nat, decode_errors : Nat]
  <2>1. counters \in [records_parsed : Nat, marc8_records : Nat,
                     utf8_records : Nat, decode_errors : Nat]
    BY DEF IndInv, TypeOK
  <2> QED
    BY <2>1 DEF ParseThrows, ErrorCounted
<1>2. failed' \in BOOLEAN
  BY DEF IndInv, TypeOK, ParseThrows
<1>3. PICK label \in {"scan", "threw"} : Goto(t, label)
  BY DEF ParseThrows
<1> QED
  BY <1>1, <1>2, <1>3, RecordStep DEF ParseThrows

\* A chunk of rows is returned.
LEMMA EmitStep ==
  ASSUME IndInv, NEW t \in Threads, Emit(t)
  PROVE  IndInv'
<1> USE DEF IndInv
<1> DEFINE rows == pending[t]
           n == ChunkLen(t)
           chunk == SubSeq(rows, 1, n)
           rest == SubSeq(rows, n + 1, Len(rows))
<1>1. rows \in Seq(Rows) /\ Len(rows) \in Nat /\ n \in 0..Len(rows)
  <2>1. rows \in Seq(Rows) /\ Len(rows) \in Nat
    BY DEF TypeOK
  <2>2. VECTOR_SIZE \in Nat
    BY ScanAssumption
  <2> QED
    BY <2>1, <2>2 DEF ChunkLen
<1>2. /\ pc[t] = "emit"
      /\ output' = [output EXCEPT ![t] = @ \o chunk]
      /\ pending' = [pending EXCEPT ![t] = rest]
      /\ \/ UNCHANGED <<batch, batch_pos>>
         \/ /\ batch' = [batch EXCEPT ![t] = <<>>]
            /\ batch_pos' = [batch_pos EXCEPT ![t] = 0]
      /\ \E label \in {"ready", "done", "idle"} : pc' = [pc EXCEPT ![t] = label]
      /\ UNCHANGED <<paths, bind, io_lock, globalVars, counters, item, claims,
                     claim_no, failed>>
  BY DEF Emit, Leftover, Goto
<1>3. /\ chunk \in Seq(Rows) /\ Len(chunk) = n
      /\ \A i \in 1..n : chunk[i] = rows[i]
      /\ rest \in Seq(Rows) /\ Len(rest) = Len(rows) - n
      /\ \A i \in 1..(Len(rows) - n) : rest[i] = rows[n + i]
  <2> HIDE DEF rows, n
  <2> QED
    BY <1>1
<1> HIDE DEF rows, n, chunk, rest
<1>4. TypeOK'
  <2>1. /\ output' \in [Threads -> Seq(Rows)]
        /\ pending' \in [Threads -> Seq(Rows)]
    BY <1>2, <1>3, SMTT(30) DEF TypeOK
  <2>2. /\ batch' \in [Threads -> Seq(Items)]
        /\ batch_pos' \in [Threads -> Nat]
    <3>1. batch \in [Threads -> Seq(Items)] /\ batch_pos \in [Threads -> Nat]
      BY DEF TypeOK
    <3>2. CASE UNCHANGED <<batch, batch_pos>>
      BY <3>1, <3>2
    <3>3. CASE /\ batch' = [batch EXCEPT ![t] = <<>>]
               /\ batch_pos' = [batch_pos EXCEPT ![t] = 0]
      BY <3>1, <3>3
    <3> QED
      BY <1>2, <3>2, <3>3
  <2>3. pc' \in [Threads -> Labels]
    BY <1>2 DEF TypeOK, Labels, Stopped
  <2> QED
    BY <1>2, <2>1, <2>2, <2>3 DEF TypeOK, globalVars
<1>5. LockHeld' /\ CursorOK'
  BY <1>2 DEF TypeOK, LockHeld, CursorOK, globalVars
<1>6. ASSUME NEW u \in Threads
      PROVE  BatchOK(u)' /\ RowsExact(u)'
  <2>1. CASE u = t
    <3>1. BatchOK(t)'
      <4>1. pc'[t] \in {"ready", "done", "idle"}
        BY <1>2 DEF TypeOK
      <4>2. CASE UNCHANGED <<batch, batch_pos>>
        BY <1>2, <4>1, <4>2 DEF BatchOK, SplitOff, globalVars
      <4>3. CASE batch'[t] = <<>> /\ batch_pos'[t] = 0
        BY <4>1, <4>3 DEF BatchOK
      <4> QED
        BY <1>2, <4>2, <4>3 DEF TypeOK
    <3>2. /\ output[t] \in Seq(Rows)
          /\ output'[t] = output[t] \o chunk
          /\ pending'[t] = rest
      BY <1>2 DEF TypeOK
    <3>3. /\ \A i \in 1..Len(rows) : Exact(rows[i])
          /\ \A i \in 1..Len(output[t]) : Exact(output[t][i])
      BY DEF RowsExact, rows
    <3>4. ASSUME NEW i \in 1..Len(pending'[t]) PROVE Exact(pending'[t][i])
      <4>1. i \in 1..(Len(rows) - n) /\ n + i \in 1..Len(rows)
        BY <1>1, <1>3, <3>2
      <4>2. pending'[t][i] = rows[n + i]
        BY <1>3, <3>2, <4>1
      <4> QED
        BY <3>3, <4>1, <4>2
    <3>5. ASSUME NEW i \in 1..Len(output'[t]) PROVE Exact(output'[t][i])
      <4>1. output'[t][i] = IF i <= Len(output[t]) THEN output[t][i]
                            ELSE chunk[i - Len(output[t])]
        BY <1>3, <3>2
      <4>2. /\ i \in 1..(Len(output[t]) + Len(chunk))
            /\ Len(output[t]) \in Nat /\ Len(chunk) \in Nat
        BY <1>3, <3>2
      <4>3. \A j \in 1..Len(chunk) : Exact(chunk[j])
        <5>1. ASSUME NEW j \in 1..n PROVE j \in 1..Len(rows)
          BY <1>1
        <5> QED
          BY <1>3, <3>3, <5>1
      <4> QED
        BY <3>3, <4>1, <4>2, <4>3
    <3> QED
      BY <2>1, <3>1, <3>4, <3>5 DEF RowsExact, Exact
  <2>2. CASE u # t
    BY <1>2, <2>2, BatchFrame, RowsFrame DEF TypeOK, globalVars
  <2> QED
    BY <2>1, <2>2
<1> QED
  BY <1>4, <1>5, <1>6

\* The steps that only move a thread's program counter.
LEMMA MovesStep ==
  ASSUME IndInv, NEW t \in Threads,
         CallScan(t) \/ ScanFull(t) \/ Interrupt(t)
  PROVE  IndInv'
<1>1. {"scan", "emit", "done"} \subseteq
        Labels \ {"fill", "number", "parse", "classify"}
  BY DEF Labels, Stopped
<1>2. failed \in BOOLEAN
  BY DEF IndInv, TypeOK
<1>3. CASE CallScan(t)
  BY <1>1, <1>2, <1>3, MoveStep DEF CallScan, engineVars
<1>4. CASE ScanFull(t)
  BY <1>1, <1>2, <1>4, MoveStep DEF ScanFull, engineVars
<1>5. CASE Interrupt(t)
  BY <1>1, <1>2, <1>5, MoveStep DEF Interrupt, engineVars
<1> QED
  BY <1>3, <1>4, <1>5

-----------------------------------------------------------------------------
(* The theorems.                                                           *)

\* Every step.
LEMMA NextIndInv == IndInv /\ [Next]_vars => IndInv'
<1> SUFFICES ASSUME IndInv, [Next]_vars PROVE IndInv'
  OBVIOUS
<1>1. ASSUME NEW t \in Threads, Step(t) PROVE IndInv'
  <2>1. CASE ScanClaimBatch(t)
    BY <2>1, ClaimStep DEF ScanClaimBatch
  <2>2. CASE LockIo(t)
    BY <2>2, LockIoStep
  <2>3. CASE Fill(t)
    BY <2>3, FillExhaustedStep, FillOpenStep, FillOpenThrowsStep,
       FillNextRawStep, FillEndOfFileStep, FillNumberStep, FillReturnStep
    DEF Fill
  <2>4. CASE NextRaw(t)
    BY <2>4, NextRawStep
  <2>5. CASE ParseAndCount(t) \/ ClassifyAndPush(t) \/ ParseThrows(t)
    BY <2>5, ParseAndCountStep, ClassifyAndPushStep, ParseThrowsStep
  <2>6. CASE Emit(t)
    BY <2>6, EmitStep
  <2>7. CASE CallScan(t) \/ ScanFull(t) \/ Interrupt(t)
    BY <2>7, MovesStep
  <2> QED
    BY <1>1, <2>1, <2>2, <2>3, <2>4, <2>5, <2>6, <2>7 DEF Step
<1>2. CASE UNCHANGED vars
  <2>1. TypeOK' /\ LockHeld' /\ CursorOK'
    BY <1>2 DEF IndInv, vars, globalVars, engineVars, TypeOK, LockHeld, CursorOK
  <2>2. ASSUME NEW u \in Threads PROVE BatchOK(u)' /\ RowsExact(u)'
    BY <1>2, BatchFrame, RowsFrame DEF IndInv, vars, globalVars, engineVars
  <2> QED
    BY <2>1, <2>2 DEF IndInv
<1> QED
  BY <1>1, <1>2 DEF Next, Terminated

\* The invariant holds in every reachable state of the scan: in FillBatch and
\* out of it, the state a row is made from agrees with the stream.
THEOREM Inductive == Spec => []IndInv
<1>1. Init => IndInv
  BY InitIndInv
<1>2. IndInv /\ [Next]_vars => IndInv'
  BY NextIndInv
<1> QED
  BY <1>1, <1>2, PTL DEF Spec

\* Every variable of a scan keeps its type.
THEOREM TypeCorrect == Spec => []TypeOK
<1>1. IndInv => TypeOK
  BY DEF IndInv
<1> QED
  BY <1>1, Inductive, PTL

\* Every row a thread has handed to the engine says the file and the ordinal
\* of the very record it was made from, for any number of threads.
THEOREM OrdinalsAreExact == Spec => []OrdinalsExact
<1>1. IndInv => OrdinalsExact
  <2> SUFFICES ASSUME IndInv, NEW t \in Threads, NEW row \in Elements(output[t])
               PROVE  Exact(row)
    BY DEF OrdinalsExact
  <2>1. output[t] \in Seq(Rows)
    BY DEF IndInv, TypeOK
  <2>2. PICK i \in 1..Len(output[t]) : row = output[t][i]
    BY <2>1 DEF Elements
  <2> QED
    BY <2>2 DEF IndInv, RowsExact
<1> QED
  BY <1>1, Inductive, PTL

-----------------------------------------------------------------------------
(* The inductive invariant behind the order of the rows.                   *)

\* Where a record stands in the glob.
RawBefore(p, q) == p[1] < q[1] \/ (p[1] = q[1] /\ p[2] < q[2])

\* The record has been split off and numbered.
Numbered(raw) ==
  \/ raw[1] < current_path
  \/ raw[1] = current_path /\ (stream = NoStream \/ raw[2] < next_record_no)

\* The rows a thread has made, handed to the engine or not.
Made(t) == output[t] \o pending[t]

\* The number of the batch a thread is filling, or else has.
Filling(t) == pc[t] \in {"fill", "number"}
Claim(t) == IF Filling(t) THEN claims + 1 ELSE claim_no[t]

\* Item i of a thread's batch has not given its rows yet.
Ahead(t, i) ==
  \/ i > batch_pos[t]
  \/ i = batch_pos[t] /\ pc[t] \in {"parse", "classify"}

\* The records a thread has or had, each with the number of its batch.  What
\* a thread that stopped has left of a batch is lost.
Holds(t) ==
  (IF pc[t] \in Stopped THEN {}
   ELSE {<<Claim(t), batch[t][i].raw>> : i \in 1..Len(batch[t])}) \cup
  {<<Made(t)[i].claim, Made(t)[i].raw>> : i \in 1..Len(Made(t))}

\* A thread's batch and rows are in the order of the glob, the rows in front
\* of what the batch has yet to give.
ThreadOrdered(t) ==
  /\ \A i, j \in 1..Len(batch[t]) :
       i < j => RawBefore(batch[t][i].raw, batch[t][j].raw)
  /\ \A i, j \in 1..Len(Made(t)) :
       i < j => Before(Made(t)[i], Made(t)[j])
  /\ \A i \in 1..Len(Made(t)) : \A j \in 1..Len(batch[t]) :
       Ahead(t, j) => RawBefore(Made(t)[i].raw, batch[t][j].raw)

\* A thread knows no batch that was not claimed; what it drops is drained,
\* and when the engine claims, what it has pending is of its batch.
ThreadClaims(t) ==
  /\ claim_no[t] <= claims
  /\ \A i \in 1..Len(Made(t)) : Made(t)[i].claim <= claims
  /\ pc[t] \in {"idle", "lock"} => batch[t] = <<>>
  /\ bind.external =>
       /\ pc[t] \in {"idle", "lock", "fill", "number"} => pending[t] = <<>>
       /\ \A i \in 1..Len(pending[t]) : pending[t][i].claim = claim_no[t]

\* Records of earlier batches stand before those of later ones, no two
\* threads have records of the same batch, and all of them were numbered.
HoldsOrdered(t, u) ==
  \A e \in Holds(t), f \in Holds(u) :
    /\ e[1] < f[1] => RawBefore(e[2], f[2])
    /\ t # u => e[1] # f[1]

HoldsNumbered(t) == \A e \in Holds(t) : Numbered(e[2])

OrderInv ==
  /\ IndInv
  /\ \A t \in Threads : ThreadOrdered(t) /\ ThreadClaims(t) /\ HoldsNumbered(t)
  /\ \A t, u \in Threads : HoldsOrdered(t, u)

-----------------------------------------------------------------------------
(* What the invariant is made of.                                          *)

\* The rows a thread has made are rows.
LEMMA MadeType ==
  ASSUME TypeOK, NEW t \in Threads
  PROVE  /\ output[t] \in Seq(Rows) /\ pending[t] \in Seq(Rows)
         /\ Len(output[t]) \in Nat /\ Len(pending[t]) \in Nat
         /\ Made(t) \in Seq(Rows)
         /\ Len(Made(t)) = Len(output[t]) + Len(pending[t])
         /\ \A i \in 1..Len(output[t]) : Made(t)[i] = output[t][i]
         /\ \A i \in 1..Len(pending[t]) : Made(t)[Len(output[t]) + i] = pending[t][i]
<1> DEFINE a == output[t]
           b == pending[t]
<1>1. a \in Seq(Rows) /\ b \in Seq(Rows)
  BY DEF TypeOK
<1>2. Made(t) = a \o b
  BY DEF Made
<1> HIDE DEF a, b
<1>3. /\ a \o b \in Seq(Rows)
      /\ Len(a) \in Nat /\ Len(b) \in Nat
      /\ Len(a \o b) = Len(a) + Len(b)
      /\ \A i \in 1..Len(a) : (a \o b)[i] = a[i]
      /\ \A i \in 1..Len(b) : (a \o b)[Len(a) + i] = b[i]
  BY <1>1, Joined
<1>4. /\ Made(t) \in Seq(Rows)
      /\ Len(Made(t)) = Len(a) + Len(b)
      /\ \A i \in 1..Len(a) : Made(t)[i] = a[i]
      /\ \A i \in 1..Len(b) : Made(t)[Len(a) + i] = b[i]
  BY <1>2, <1>3
<1> QED
  BY <1>1, <1>3, <1>4 DEF a, b

\* Rows are records with their record, row and batch.
LEMMA RowType ==
  ASSUME NEW row \in Rows
  PROVE  row.raw \in Raws /\ row.row \in Nat /\ row.claim \in Nat
BY DEF Rows

\* What a row made by a thread consists of.
LEMMA MadeRow ==
  ASSUME TypeOK, NEW t \in Threads, NEW i \in 1..Len(Made(t))
  PROVE  /\ Made(t)[i] \in Rows
         /\ Made(t)[i].raw \in Raws /\ Made(t)[i].row \in Nat /\ Made(t)[i].claim \in Nat
<1>1. Made(t) \in Seq(Rows)
  BY MadeType
<1>2. Made(t)[i] \in Rows
  <2> DEFINE c == Made(t)
  <2>1. c \in Seq(Rows) /\ i \in 1..Len(c)
    BY <1>1
  <2> HIDE DEF c
  <2>2. c[i] \in Rows
    BY <2>1
  <2> QED
    BY <2>2 DEF c
<1> QED
  BY <1>2, RowType

\* What is held is a batch number and a record.
LEMMA HoldsType ==
  ASSUME TypeOK, NEW t \in Threads, NEW e \in Holds(t)
  PROVE  e[1] \in Nat /\ e[2] \in Raws
<1>1. Claim(t) \in Nat
  BY DEF TypeOK, Claim
<1>2. CASE e \in {<<Claim(t), batch[t][i].raw>> : i \in 1..Len(batch[t])}
  BY <1>1, <1>2, BatchItem
<1>3. CASE e \in {<<Made(t)[i].claim, Made(t)[i].raw>> : i \in 1..Len(Made(t))}
  <2>1. PICK i \in 1..Len(Made(t)) : e = <<Made(t)[i].claim, Made(t)[i].raw>>
    BY <1>3
  <2>2. Made(t)[i] \in Rows
    BY MadeRow
  <2> QED
    BY <2>1, <2>2, RowType
<1> QED
  BY <1>2, <1>3 DEF Holds

\* RawBefore is transitive and goes one way.
LEMMA RawOrder ==
  ASSUME NEW p \in Raws, NEW q \in Raws, NEW r \in Raws
  PROVE  /\ RawBefore(p, q) /\ RawBefore(q, r) => RawBefore(p, r)
         /\ ~(RawBefore(p, q) /\ RawBefore(q, p))
         /\ ~RawBefore(p, p)
BY DEF RawBefore, Raws

\* Before says the same of rows.
LEMMA RowOrder ==
  ASSUME NEW r, NEW s
  PROVE  Before(r, s) <=> RawBefore(r.raw, s.raw) \/ (r.raw = s.raw /\ r.row < s.row)
BY DEF Before, RawBefore

\* A step of t leaves the other threads alone.
OthersKeep(t) ==
  \A u \in Threads \ {t} :
    /\ pc'[u] = pc[u]
    /\ batch'[u] = batch[u] /\ batch_pos'[u] = batch_pos[u]
    /\ pending'[u] = pending[u] /\ output'[u] = output[u]
    /\ claim_no'[u] = claim_no[u]

\* Only the thread that fills a batch counts a claim.
ClaimsKeep(t) ==
  \/ claims' = claims
  \/ claims' = claims + 1 /\ Filling(t)

NumberedKeep == \A raw \in Raws : Numbered(raw) => Numbered(raw)'

\* What the other threads have of the invariant, they keep.
LEMMA OthersOrdered ==
  ASSUME OrderInv, NEW t \in Threads, OthersKeep(t), ClaimsKeep(t), bind' = bind,
         NEW u \in Threads \ {t}
  PROVE  /\ Made(u)' = Made(u)
         /\ Holds(u)' = Holds(u)
         /\ ThreadOrdered(u)'
         /\ ThreadClaims(u)'
<1>1. /\ pc'[u] = pc[u]
      /\ batch'[u] = batch[u] /\ batch_pos'[u] = batch_pos[u]
      /\ pending'[u] = pending[u] /\ output'[u] = output[u]
      /\ claim_no'[u] = claim_no[u]
  BY DEF OthersKeep
<1>2. Made(u)' = Made(u)
  BY <1>1 DEF Made
<1>3. Filling(u) => claims' = claims
  <2>1. ~(Filling(u) /\ Filling(t))
    BY DEF OrderInv, IndInv, LockHeld, Filling
  <2> QED
    BY <2>1 DEF ClaimsKeep
<1>4. Claim(u)' = Claim(u)
  BY <1>1, <1>3 DEF Claim, Filling
<1>5. Holds(u)' = Holds(u)
  BY <1>1, <1>2, <1>4 DEF Holds
<1>6. ThreadOrdered(u)'
  <2>1. \A j : Ahead(u, j)' <=> Ahead(u, j)
    BY <1>1 DEF Ahead
  <2>2. ThreadOrdered(u)
    BY DEF OrderInv
  <2> QED
    BY <1>1, <1>2, <2>1, <2>2 DEF ThreadOrdered, RawBefore, Before
<1>7. ThreadClaims(u)'
  <2>1. claims \in Nat /\ claims' \in Nat /\ claims <= claims'
    <3>1. claims \in Nat
      BY DEF OrderInv, IndInv, TypeOK
    <3>2. claims' = claims \/ claims' = claims + 1
      BY DEF ClaimsKeep
    <3> QED
      BY <3>1, <3>2
  <2>2. ThreadClaims(u)
    BY DEF OrderInv
  <2>3. claim_no'[u] <= claims'
    <3>1. claim_no[u] \in Nat /\ claim_no[u] <= claims
      BY <2>2 DEF OrderInv, IndInv, TypeOK, ThreadClaims
    <3> QED
      BY <1>1, <2>1, <3>1
  <2>4. \A i \in 1..Len(Made(u)) : Made(u)[i].claim <= claims'
    <3> SUFFICES ASSUME NEW i \in 1..Len(Made(u)) PROVE Made(u)[i].claim <= claims'
      OBVIOUS
    <3>1. Made(u)[i].claim \in Nat
      BY MadeRow DEF OrderInv, IndInv
    <3>2. Made(u)[i].claim <= claims
      BY <2>2 DEF ThreadClaims
    <3> QED
      BY <2>1, <3>1, <3>2
  <2> QED
    BY <1>1, <1>2, <2>2, <2>3, <2>4 DEF ThreadClaims
<1> QED
  BY <1>2, <1>5, <1>6, <1>7

\* A step that gives a thread nothing new to hold keeps the order.
LEMMA OrderStep ==
  ASSUME OrderInv, IndInv', NEW t \in Threads,
         OthersKeep(t), ClaimsKeep(t), bind' = bind, NumberedKeep,
         Holds(t)' \subseteq Holds(t),
         ThreadOrdered(t)', ThreadClaims(t)'
  PROVE  OrderInv'
<1>1. ASSUME NEW u \in Threads
      PROVE  Holds(u)' \subseteq Holds(u) /\ ThreadOrdered(u)' /\ ThreadClaims(u)'
  <2>1. CASE u = t
    BY <2>1
  <2>2. CASE u # t
    BY <2>2, OthersOrdered
  <2> QED
    BY <2>1, <2>2
<1>2. ASSUME NEW u \in Threads PROVE HoldsNumbered(u)'
  <2>1. \A e \in Holds(u) : Numbered(e[2])'
    <3> SUFFICES ASSUME NEW e \in Holds(u) PROVE Numbered(e[2])'
      OBVIOUS
    <3>1. e[2] \in Raws /\ Numbered(e[2])
      BY HoldsType DEF OrderInv, IndInv, HoldsNumbered
    <3> QED
      BY <3>1 DEF NumberedKeep
  <2> QED
    BY <1>1, <2>1 DEF HoldsNumbered
<1>3. ASSUME NEW u \in Threads, NEW v \in Threads PROVE HoldsOrdered(u, v)'
  <2>1. HoldsOrdered(u, v)
    BY DEF OrderInv
  <2> QED
    BY <1>1, <2>1 DEF HoldsOrdered, RawBefore
<1> QED
  BY <1>1, <1>2, <1>3 DEF OrderInv

\* When the engine claims, what a thread has pending is of its batch.
PendingFits(t) ==
  bind.external =>
    /\ pc[t] \in {"idle", "lock", "fill", "number"} => pending[t] = <<>>
    /\ \A i \in 1..Len(pending[t]) : pending[t][i].claim = claim_no[t]

\* A step that makes no row and adds nothing to the batch keeps the order.
LEMMA QuietStep ==
  ASSUME OrderInv, IndInv', NEW t \in Threads,
         OthersKeep(t), ClaimsKeep(t), bind' = bind, NumberedKeep,
         Made(t)' = Made(t),
         \/ batch'[t] = <<>>
         \/ /\ batch'[t] = batch[t]
            /\ pc'[t] \in Stopped \/ (pc[t] \notin Stopped /\ Claim(t)' = Claim(t))
            /\ \A j \in 1..Len(batch[t]) : Ahead(t, j)' => Ahead(t, j),
         claim_no'[t] <= claims',
         pc'[t] \in {"idle", "lock"} => batch'[t] = <<>>,
         PendingFits(t)'
  PROVE  OrderInv'
<1>1. Holds(t)' \subseteq Holds(t)
  <2>1. CASE batch'[t] = <<>>
    BY <2>1 DEF Holds
  <2>2. CASE pc'[t] \in Stopped
    BY <2>2 DEF Holds
  <2>3. CASE batch'[t] = batch[t] /\ pc[t] \notin Stopped /\ Claim(t)' = Claim(t)
    BY <2>3 DEF Holds
  <2> QED
    BY <2>1, <2>2, <2>3
<1>2. ThreadOrdered(t)'
  <2>1. ThreadOrdered(t)
    BY DEF OrderInv
  <2>2. CASE batch'[t] = <<>>
    BY <2>1, <2>2 DEF ThreadOrdered, RawBefore, Before
  <2>3. CASE batch'[t] = batch[t] /\ \A j \in 1..Len(batch[t]) : Ahead(t, j)' => Ahead(t, j)
    BY <2>1, <2>3 DEF ThreadOrdered, RawBefore, Before
  <2> QED
    BY <2>2, <2>3
<1>3. ThreadClaims(t)'
  <2>1. \A i \in 1..Len(Made(t)) : Made(t)[i].claim <= claims'
    <3> SUFFICES ASSUME NEW i \in 1..Len(Made(t)) PROVE Made(t)[i].claim <= claims'
      OBVIOUS
    <3>1. Made(t)[i].claim \in Nat /\ claims \in Nat
      BY MadeRow DEF OrderInv, IndInv, TypeOK
    <3>2. Made(t)[i].claim <= claims
      BY DEF OrderInv, ThreadClaims
    <3>3. claims' = claims \/ claims' = claims + 1
      BY DEF ClaimsKeep
    <3> QED
      BY <3>1, <3>2, <3>3
  <2> QED
    BY <2>1 DEF ThreadClaims, PendingFits
<1> QED
  BY <1>1, <1>2, <1>3, OrderStep

-----------------------------------------------------------------------------
(* The steps that make no row.                                             *)

\* Nothing is numbered.
LEMMA CursorKept ==
  ASSUME UNCHANGED <<current_path, stream, next_record_no>>
  PROVE  NumberedKeep
BY DEF NumberedKeep, Numbered

\* What the steps below have in common: t moves, the others do not.
LEMMA Local ==
  ASSUME TypeOK, NEW t \in Threads, NEW label, Goto(t, label),
         UNCHANGED <<batch, batch_pos, pending, output, claim_no>>
  PROVE  OthersKeep(t) /\ pc'[t] = label /\ Made(t)' = Made(t)
BY DEF OthersKeep, Goto, Made, TypeOK

\* A thread moves on between its records and batches.
LEMMA QuietMove ==
  ASSUME OrderInv, IndInv', NEW t \in Threads,
         NEW label \in Labels \ {"fill", "number", "parse", "classify", "idle", "lock"},
         Goto(t, label), label \in Stopped \/ ~Filling(t), pc[t] \notin Stopped,
         bind.external /\ Filling(t) => pending[t] = <<>>,
         UNCHANGED <<bind, current_path, stream, next_record_no, claims,
                     batch, batch_pos, pending, output, claim_no>>
  PROVE  OrderInv'
<1>1. OthersKeep(t) /\ pc'[t] = label /\ Made(t)' = Made(t) /\ TypeOK
  BY Local DEF OrderInv, IndInv
<1>2. /\ label \in Stopped \/ Claim(t)' = Claim(t)
      /\ \A j \in 1..Len(batch[t]) : Ahead(t, j)' => Ahead(t, j)
  BY <1>1 DEF Claim, Filling, Ahead
<1>3. ThreadClaims(t)
  BY DEF OrderInv
<1>4. claim_no'[t] <= claims' /\ PendingFits(t)'
  BY <1>1, <1>3 DEF ThreadClaims, PendingFits
<1> QED
  BY <1>1, <1>2, <1>4, CursorKept, QuietStep DEF ClaimsKeep

\* A batch is given up when nothing of it is pending.
LEMMA OrderClaim ==
  ASSUME OrderInv, IndInv', NEW t \in Threads, ClaimBatch(t), ~Filling(t),
         bind.external => pending[t] = <<>>,
         UNCHANGED <<bind, current_path, stream, next_record_no, claims,
                     pending, output, claim_no>>
  PROVE  OrderInv'
<1>1. OthersKeep(t) /\ pc'[t] = "lock" /\ Made(t)' = Made(t) /\ batch'[t] = <<>>
  BY DEF OrderInv, IndInv, TypeOK, ClaimBatch, Goto, OthersKeep, Made
<1>2. claim_no'[t] <= claims'
  BY DEF OrderInv, ThreadClaims
<1>3. PendingFits(t)'
  BY <1>1 DEF PendingFits
<1> QED
  BY <1>1, <1>2, <1>3, CursorKept, QuietStep DEF ClaimsKeep

\* A thread gets the lock.
LEMMA OrderLockIo ==
  ASSUME OrderInv, IndInv', NEW t \in Threads, LockIo(t)
  PROVE  OrderInv'
<1>1. pc[t] = "lock" /\ Goto(t, "fill") /\ UNCHANGED <<batch, batch_pos, pending, output, claim_no>>
      /\ UNCHANGED <<current_path, stream, next_record_no, bind, claims>>
  BY DEF LockIo, globalVars, engineVars
<1>2. OthersKeep(t) /\ pc'[t] = "fill" /\ Made(t)' = Made(t)
  BY <1>1, Local DEF OrderInv, IndInv
<1>3. ThreadClaims(t)
  BY DEF OrderInv
<1>4. claim_no'[t] <= claims' /\ PendingFits(t)' /\ batch'[t] = <<>>
  BY <1>1, <1>2, <1>3 DEF ThreadClaims, PendingFits
<1> QED
  BY <1>1, <1>2, <1>4, CursorKept, QuietStep DEF ClaimsKeep

\* A step inside FillBatch that gives the batch no item.
LEMMA QuietFill ==
  ASSUME OrderInv, IndInv', NEW t \in Threads, NEW label \in {"fill", "number"},
         Filling(t), pc[t] \notin Stopped, Goto(t, label), NumberedKeep,
         UNCHANGED <<bind, claims, batch, batch_pos, pending, output, claim_no>>
  PROVE  OrderInv'
<1>1. OthersKeep(t) /\ pc'[t] = label /\ Made(t)' = Made(t) /\ TypeOK
  BY Local DEF OrderInv, IndInv
<1>2. Claim(t)' = Claim(t) /\ \A j \in 1..Len(batch[t]) : Ahead(t, j)' => Ahead(t, j)
  BY <1>1 DEF Claim, Filling, Ahead
<1>3. ThreadClaims(t)
  BY DEF OrderInv
<1>4. claim_no'[t] <= claims' /\ PendingFits(t)'
  BY <1>1, <1>3 DEF ThreadClaims, PendingFits, Filling
<1> QED
  BY <1>1, <1>2, <1>4, QuietStep DEF ClaimsKeep

\* The steps of FillBatch that add nothing to a batch.
LEMMA OrderFillQuiet ==
  ASSUME OrderInv, IndInv', NEW t \in Threads,
         FillExhausted(t) \/ FillOpen(t) \/ FillNextRaw(t) \/ FillEndOfFile(t)
  PROVE  OrderInv'
<1>1. pc[t] = "fill" /\ Filling(t) /\ pc[t] \notin Stopped /\ pc = [pc EXCEPT ![t] = "fill"]
  BY DEF FillExhausted, FillOpen, FillNextRaw, FillEndOfFile, Filling, Stopped, OrderInv, IndInv, TypeOK
<1>2. UNCHANGED <<bind, claims, batch, batch_pos, pending, output, claim_no>>
  BY DEF FillExhausted, FillOpen, FillNextRaw, FillEndOfFile, engineVars
<1>3. PICK label \in {"fill", "number"} : Goto(t, label)
  BY <1>1 DEF FillExhausted, FillOpen, FillNextRaw, FillEndOfFile, Goto
<1>4. current_path \in Nat /\ next_record_no \in Nat
  BY DEF OrderInv, IndInv, TypeOK
<1>5. NumberedKeep
  <2>1. CASE FillExhausted(t)
    BY <2>1, CursorKept DEF FillExhausted
  <2>2. CASE FillOpen(t)
    BY <2>2, <1>4 DEF FillOpen, NumberedKeep, Numbered, Raws
  <2>3. CASE FillNextRaw(t)
    BY <2>3, <1>4 DEF FillNextRaw, NumberedKeep, Numbered, NoStream, OrderInv, IndInv, TypeOK
  <2>4. CASE FillEndOfFile(t)
    BY <2>4 DEF FillEndOfFile, NumberedKeep, Numbered
  <2> QED
    BY <2>1, <2>2, <2>3, <2>4
<1> QED
  BY <1>1, <1>2, <1>3, <1>5, QuietFill

\* A file cannot be opened.
LEMMA OrderFillOpenThrows ==
  ASSUME OrderInv, IndInv', NEW t \in Threads, FillOpenThrows(t)
  PROVE  OrderInv'
<1>1. /\ pc[t] = "fill" /\ Goto(t, "threw")
      /\ UNCHANGED <<batch, batch_pos, pending, output, claim_no>>
      /\ UNCHANGED <<current_path, stream, next_record_no, bind, claims>>
  BY DEF FillOpenThrows, globalVars
<1>2. "threw" \in Labels \ {"fill", "number", "parse", "classify", "idle", "lock"}
      /\ "threw" \in Stopped /\ pc[t] \notin Stopped
  BY <1>1 DEF Labels, Stopped
<1>3. bind.external => pending[t] = <<>>
  BY <1>1 DEF OrderInv, ThreadClaims
<1> QED
  BY <1>1, <1>2, <1>3, QuietMove

\* FillBatch returns: the batch gets the number it was filled under.
LEMMA OrderFillReturn ==
  ASSUME OrderInv, IndInv', NEW t \in Threads, FillReturn(t)
  PROVE  OrderInv'
<1>1. /\ pc[t] = "fill" /\ Filling(t) /\ pc[t] \notin Stopped
      /\ UNCHANGED <<batch, batch_pos, pending, output>>
      /\ UNCHANGED <<current_path, stream, next_record_no, bind>>
      /\ claims \in Nat /\ claim_no \in [Threads -> Nat] /\ TypeOK
      /\ batch[t] \in Seq(Items)
  BY DEF FillReturn, Filling, Stopped, globalVars, OrderInv, IndInv, TypeOK
<1>2. PICK label \in {"done", "emit", "ready", "scan"} : Goto(t, label)
  BY DEF FillReturn
<1>3. pc'[t] = label /\ pc'[t] \notin {"fill", "number", "parse", "classify", "idle", "lock"}
  BY <1>1, <1>2 DEF Goto, TypeOK
<1>4. Made(t)' = Made(t)
  BY <1>1 DEF Made
<1>5. \/ batch[t] = <<>> /\ claims' = claims /\ claim_no' = claim_no
      \/ claims' = claims + 1 /\ claim_no' = [claim_no EXCEPT ![t] = claims + 1]
  BY DEF FillReturn
<1>6. OthersKeep(t)
  BY <1>1, <1>2, <1>5 DEF OthersKeep, Goto, TypeOK
<1>7. /\ ClaimsKeep(t)
      /\ batch[t] # <<>> => Claim(t)' = Claim(t)
  BY <1>1, <1>3, <1>5 DEF ClaimsKeep, Claim, Filling
<1>8. ThreadClaims(t)
  BY DEF OrderInv
<1>9. claim_no'[t] <= claims'
  BY <1>1, <1>5, <1>8 DEF ThreadClaims
<1>10. PendingFits(t)'
  <2>1. bind.external => pending[t] = <<>>
    BY <1>1, <1>8 DEF ThreadClaims
  <2> QED
    BY <1>1, <2>1 DEF PendingFits
<1>11. \A j \in 1..Len(batch[t]) : Ahead(t, j)' => Ahead(t, j)
  BY <1>1, <1>3 DEF Ahead
<1> QED
  BY <1>1, <1>3, <1>4, <1>6, <1>7, <1>9, <1>10, <1>11, CursorKept, QuietStep

\* The thread goes on with its batch, or gives it up.
LEMMA OrderNextRaw ==
  ASSUME OrderInv, IndInv', NEW t \in Threads, NextRaw(t)
  PROVE  OrderInv'
<1>1. /\ pc[t] = "scan" /\ ~Filling(t) /\ pc[t] \notin Stopped
      /\ UNCHANGED <<pending, output, claim_no, claims>>
      /\ UNCHANGED <<current_path, stream, next_record_no, bind>>
      /\ batch_pos[t] \in Nat /\ Len(batch[t]) \in Nat /\ TypeOK
  <2>1. /\ pc[t] = "scan" /\ UNCHANGED <<pending, output, claim_no, claims>>
        /\ UNCHANGED <<current_path, stream, next_record_no, bind>>
    BY DEF NextRaw, globalVars, engineVars
  <2>2. TypeOK
    BY DEF OrderInv, IndInv
  <2>3. batch_pos[t] \in Nat /\ Len(batch[t]) \in Nat
    BY <2>2 DEF TypeOK
  <2> QED
    BY <2>1, <2>2, <2>3 DEF Filling, Stopped
<1>2. CASE batch_pos[t] < Len(batch[t])
  <2>1. batch_pos' = [batch_pos EXCEPT ![t] = @ + 1] /\ Goto(t, "parse") /\ UNCHANGED batch
    BY <1>1, <1>2 DEF NextRaw
  <2>2. pc'[t] = "parse" /\ batch_pos'[t] = batch_pos[t] + 1
    BY <1>1, <2>1 DEF Goto, TypeOK
  <2>3. OthersKeep(t)
    BY <1>1, <2>1 DEF OthersKeep, Goto, TypeOK
  <2>4. Claim(t)' = Claim(t) /\ Made(t)' = Made(t)
    BY <1>1, <2>2 DEF Claim, Filling, Made
  <2>5. \A j \in 1..Len(batch[t]) : Ahead(t, j)' => Ahead(t, j)
    BY <1>1, <2>2 DEF Ahead
  <2>6. ThreadClaims(t)
    BY DEF OrderInv
  <2>7. claim_no'[t] <= claims' /\ PendingFits(t)'
    BY <1>1, <2>2, <2>6 DEF ThreadClaims, PendingFits
  <2>8. batch'[t] = batch[t] /\ pc'[t] \notin {"idle", "lock"}
    BY <2>1, <2>2
  <2> QED
    BY <1>1, <2>3, <2>4, <2>5, <2>7, <2>8, CursorKept, QuietStep DEF ClaimsKeep
<1>3. CASE batch_pos[t] >= Len(batch[t]) /\ ~RefillsItself
  <2>1. Goto(t, "emit") /\ UNCHANGED <<batch, batch_pos>>
    BY <1>1, <1>3 DEF NextRaw
  <2>2. "emit" \in Labels \ {"fill", "number", "parse", "classify", "idle", "lock"}
    BY DEF Labels
  <2> QED
    BY <1>1, <2>1, <2>2, QuietMove
<1>4. CASE batch_pos[t] >= Len(batch[t]) /\ RefillsItself
  <2>1. ClaimBatch(t) /\ ~bind.external
    BY <1>1, <1>4 DEF NextRaw, RefillsItself
  <2> QED
    BY <1>1, <2>1, OrderClaim
<1> QED
  BY <1>1, <1>2, <1>3, <1>4

\* The steps that change nothing the order is about.
LEMMA OrderMoves ==
  ASSUME OrderInv, IndInv', NEW t \in Threads,
         CallScan(t) \/ ScanFull(t) \/ Interrupt(t) \/ ParseAndCount(t)
  PROVE  OrderInv'
<1>1. UNCHANGED <<bind, current_path, stream, next_record_no, claims,
                  batch, batch_pos, pending, output, claim_no>>
  BY DEF CallScan, ScanFull, Interrupt, ParseAndCount, globalVars, engineVars
<1>2. pc[t] \notin Stopped /\ ~Filling(t)
  BY DEF CallScan, ScanFull, Interrupt, ParseAndCount, Stopped, Filling
<1>3. CASE CallScan(t) \/ ScanFull(t) \/ Interrupt(t)
  <2>1. {"scan", "emit", "done"} \subseteq Labels \ {"fill", "number", "parse", "classify", "idle", "lock"}
    BY DEF Labels, Stopped
  <2>2. PICK label \in {"scan", "emit", "done"} : Goto(t, label)
    BY <1>3 DEF CallScan, ScanFull, Interrupt
  <2> QED
    BY <1>1, <1>2, <2>1, <2>2, QuietMove
<1>4. CASE ParseAndCount(t)
  <2>1. pc[t] = "parse" /\ Goto(t, "classify")
    BY <1>4 DEF ParseAndCount
  <2>2. OthersKeep(t) /\ pc'[t] = "classify" /\ Made(t)' = Made(t)
    BY <1>1, <2>1, Local DEF OrderInv, IndInv
  <2>3. Claim(t)' = Claim(t) /\ \A j \in 1..Len(batch[t]) : Ahead(t, j)' => Ahead(t, j)
    BY <1>1, <2>1, <2>2 DEF Claim, Filling, Ahead
  <2>4. ThreadClaims(t)
    BY DEF OrderInv
  <2>5. claim_no'[t] <= claims' /\ PendingFits(t)'
    BY <1>1, <2>2, <2>4 DEF ThreadClaims, PendingFits
  <2> QED
    BY <1>1, <1>2, <2>2, <2>3, <2>5, CursorKept, QuietStep DEF ClaimsKeep
<1> QED
  BY <1>3, <1>4

\* The chunk goes out: rows go from pending to output, in their order.
LEMMA OrderEmit ==
  ASSUME OrderInv, IndInv', NEW t \in Threads, Emit(t)
  PROVE  OrderInv'
<1> DEFINE rows == pending[t]
           out == output[t]
           n == ChunkLen(t)
           chunk == SubSeq(rows, 1, n)
           rest == SubSeq(rows, n + 1, Len(rows))
<1>1. TypeOK /\ pending \in [Threads -> Seq(Rows)] /\ output \in [Threads -> Seq(Rows)]
      /\ pc \in [Threads -> Labels] /\ batch \in [Threads -> Seq(Items)] /\ batch_pos \in [Threads -> Nat]
  BY DEF OrderInv, IndInv, TypeOK
<1>2. rows \in Seq(Rows) /\ out \in Seq(Rows) /\ Len(rows) \in Nat /\ n \in 0..Len(rows)
  <2>1. VECTOR_SIZE \in Nat
    BY ScanAssumption
  <2> QED
    BY <1>1, <2>1 DEF ChunkLen
<1>3. /\ pc[t] = "emit"
      /\ output' = [output EXCEPT ![t] = out \o chunk]
      /\ pending' = [pending EXCEPT ![t] = rest]
      /\ \/ UNCHANGED <<batch, batch_pos>> /\ \E label \in {"ready", "done"} : Goto(t, label)
         \/ /\ batch' = [batch EXCEPT ![t] = <<>>]
            /\ batch_pos' = [batch_pos EXCEPT ![t] = 0]
            /\ Goto(t, "idle")
            /\ n = 0
      /\ UNCHANGED <<bind, claims, claim_no, current_path, stream, next_record_no>>
  BY DEF Emit, Leftover, globalVars
<1> HIDE DEF n
<1>4. /\ chunk \in Seq(Rows) /\ rest \in Seq(Rows)
      /\ chunk \o rest = rows
      /\ Len(rest) = Len(rows) - n /\ \A i \in 1..Len(rest) : rest[i] = rows[n + i]
  <2> HIDE DEF rows
  <2> QED
    BY <1>2, Parted, ZenonT(30)
<1> HIDE DEF rows, out, chunk, rest
<1>5. /\ pending'[t] = rest /\ output'[t] = out \o chunk /\ pc'[t] \in {"ready", "done", "idle"}
      /\ batch'[t] = <<>> \/ batch'[t] = batch[t]
      /\ pc'[t] = "idle" => n = 0 /\ batch'[t] = <<>>
      /\ (batch'[t] = batch[t] /\ batch_pos'[t] = batch_pos[t]) \/ batch'[t] = <<>>
  BY <1>1, <1>3 DEF Goto
<1>6. OthersKeep(t)
  BY <1>1, <1>3 DEF OthersKeep, Goto
<1>7. Made(t)' = Made(t)
  <2>1. (out \o chunk) \o rest = out \o (chunk \o rest)
    <3>1. out \in Seq(Rows) /\ chunk \in Seq(Rows) /\ rest \in Seq(Rows)
      BY <1>2, <1>4
    <3> QED
      BY <3>1, ConcatAssociative
  <2> QED
    BY <1>4, <1>5, <2>1 DEF Made, rows, out
<1>8. /\ claim_no'[t] <= claims'
      /\ bind.external => \A i \in 1..Len(rows) : rows[i].claim = claim_no[t]
  BY <1>3 DEF OrderInv, ThreadClaims, rows
<1>9. PendingFits(t)'
  <2>1. ASSUME bind.external, NEW i \in 1..Len(rest) PROVE rest[i].claim = claim_no[t]
    <3>1. n + i \in 1..Len(rows)
      BY <1>2, <1>4
    <3> QED
      BY <1>4, <1>8, <2>1, <3>1
  <2>2. ASSUME pc'[t] = "idle" PROVE rest = <<>>
    <3>1. Len(rows) = 0
      <4>1. n = 0 /\ n = IF Len(rows) < VECTOR_SIZE THEN Len(rows) ELSE VECTOR_SIZE
        BY <1>5, <2>2 DEF n, ChunkLen, rows
      <4>2. VECTOR_SIZE \in Nat \ {0}
        BY ScanAssumption
      <4> QED
        BY <4>1, <4>2
    <3>2. Len(rest) = 0
      <4>1. Len(rest) = Len(rows) - n /\ n = 0
        BY <1>4, <1>5, <2>2
      <4> QED
        BY <3>1, <4>1
    <3> QED
      BY <1>4, <3>2
  <2> QED
    BY <1>3, <1>5, <2>1, <2>2 DEF PendingFits
<1>10. /\ pc[t] \notin Stopped /\ Claim(t)' = Claim(t)
       /\ batch'[t] = <<>> \/ \A j \in 1..Len(batch[t]) : Ahead(t, j)' => Ahead(t, j)
       /\ pc'[t] \in {"idle", "lock"} => batch'[t] = <<>>
  BY <1>3, <1>5 DEF Stopped, Claim, Filling, Ahead
<1> QED
  BY <1>3, <1>5, <1>6, <1>7, <1>8, <1>9, <1>10, CursorKept, QuietStep DEF ClaimsKeep

-----------------------------------------------------------------------------
(* The steps that make rows, and the one that gives a batch an item.       *)

\* The rows of the record a thread is at.
LEMMA RowsAre ==
  ASSUME IndInv, NEW t \in Threads, pc[t] \in {"parse", "classify"}
  PROVE  /\ RowsOf(t) \in Seq(Rows) /\ Len(RowsOf(t)) \in Nat
         /\ Len(RowsOf(t)) = RowCount(RecordOf(Current(t).raw))
         /\ \A k \in 1..Len(RowsOf(t)) :
              /\ RowsOf(t)[k].raw = Current(t).raw /\ RowsOf(t)[k].row = k
              /\ RowsOf(t)[k].claim = claim_no[t]
<1> DEFINE n == RowCount(RecordOf(Current(t).raw))
<1>1. n \in Nat
  BY CurrentItem DEF RowCount, RecordKinds
<1>2. RowsOf(t) \in Seq(Rows) /\ Len(RowsOf(t)) \in Nat
  BY RowsOfCurrent
<1>3. DOMAIN RowsOf(t) = 1..n
  BY DEF RowsOf
<1>4. Len(RowsOf(t)) = n
  <2> DEFINE rows == RowsOf(t)
  <2> HIDE DEF n, rows
  <2>1. rows \in Seq(Rows) /\ DOMAIN rows = 1..n
    BY <1>2, <1>3 DEF rows
  <2>2. Len(rows) = n
    BY <1>1, <2>1
  <2> QED
    BY <2>2 DEF rows
<1>5. ASSUME NEW k \in 1..n
      PROVE  /\ RowsOf(t)[k].raw = Current(t).raw /\ RowsOf(t)[k].row = k
             /\ RowsOf(t)[k].claim = claim_no[t]
  BY <1>5 DEF RowsOf
<1> QED
  BY <1>2, <1>4, <1>5

\* A thread's rows are followed by those of the record it is at.
LEMMA OrderPush ==
  ASSUME OrderInv, IndInv', NEW t \in Threads, pc[t] \in {"parse", "classify"},
         NEW label \in {"scan", "threw"}, Goto(t, label),
         pending' = [pending EXCEPT ![t] = @ \o RowsOf(t)],
         UNCHANGED <<bind, current_path, stream, next_record_no, claims,
                     batch, batch_pos, output, claim_no>>
  PROVE  OrderInv'
<1> DEFINE new == RowsOf(t)
           m == Made(t)
           n == Len(m)
           now == batch_pos[t]
<1>1. /\ IndInv /\ TypeOK /\ ThreadOrdered(t) /\ ThreadClaims(t)
      /\ pc \in [Threads -> Labels] /\ pending \in [Threads -> Seq(Rows)]
      /\ output[t] \in Seq(Rows) /\ pending[t] \in Seq(Rows)
      /\ m \in Seq(Rows) /\ n \in Nat
      /\ batch[t] \in Seq(Items) /\ Len(batch[t]) \in Nat
      /\ now \in 1..Len(batch[t]) /\ Current(t) = batch[t][now]
      /\ claim_no[t] \in Nat /\ claims \in Nat
  <2>1. IndInv /\ TypeOK /\ ThreadOrdered(t) /\ ThreadClaims(t)
    BY DEF OrderInv, IndInv
  <2>2. output[t] \in Seq(Rows) /\ pending[t] \in Seq(Rows) /\ m \in Seq(Rows)
    BY <2>1, MadeType
  <2>3. n \in Nat
    <3> HIDE DEF m
    <3> QED
      BY <2>2
  <2>4. now \in 0..Len(batch[t]) /\ now # 0
    BY <2>1 DEF IndInv, BatchOK
  <2>5. /\ pc \in [Threads -> Labels] /\ pending \in [Threads -> Seq(Rows)]
        /\ batch[t] \in Seq(Items) /\ Len(batch[t]) \in Nat
        /\ claim_no[t] \in Nat /\ claims \in Nat
    BY <2>1, SMTT(30) DEF TypeOK
  <2>6. now \in 1..Len(batch[t])
    BY <2>4, <2>5
  <2> HIDE DEF m, n
  <2> QED
    BY <2>1, <2>2, <2>3, <2>5, <2>6 DEF Current
<1>2. /\ new \in Seq(Rows) /\ Len(new) \in Nat
      /\ \A k \in 1..Len(new) :
           new[k].raw = batch[t][now].raw /\ new[k].row = k /\ new[k].claim = claim_no[t]
  BY <1>1, RowsAre
<1> HIDE DEF new, m
<1>3. pc'[t] = label /\ pending'[t] = pending[t] \o new /\ OthersKeep(t)
  BY <1>1 DEF OthersKeep, Goto, new
<1>4. /\ Made(t)' = m \o new
      /\ Len(Made(t)') = n + Len(new)
      /\ \A i \in 1..n : Made(t)'[i] = m[i]
      /\ \A i \in 1..Len(new) : Made(t)'[n + i] = new[i]
  <2>1. Made(t)' = output[t] \o (pending[t] \o new)
    BY <1>3 DEF Made
  <2>2. (output[t] \o pending[t]) \o new = output[t] \o (pending[t] \o new)
    <3> DEFINE o == output[t]
               p == pending[t]
    <3>1. o \in Seq(Rows) /\ p \in Seq(Rows) /\ new \in Seq(Rows)
      BY <1>1, <1>2
    <3> HIDE DEF o, p
    <3>2. (o \o p) \o new = o \o (p \o new)
      BY <3>1, ConcatAssociative
    <3> QED
      BY <3>2 DEF o, p
  <2>3. Made(t)' = m \o new
    BY <2>1, <2>2 DEF m, Made
  <2>4. /\ Len(m \o new) = n + Len(new)
        /\ \A i \in 1..n : (m \o new)[i] = m[i]
        /\ \A i \in 1..Len(new) : (m \o new)[n + i] = new[i]
    BY <1>1, <1>2, Joined
  <2> QED
    BY <2>3, <2>4
<1> DEFINE made == Made(t)'
<1> HIDE DEF n, now, made
<1>5. \A i \in 1..Len(made) : i \in 1..n \/ \E k \in 1..Len(new) : i = n + k
  <2> SUFFICES ASSUME NEW i \in 1..Len(made), i \notin 1..n
               PROVE  \E k \in 1..Len(new) : i = n + k
    OBVIOUS
  <2>1. Len(made) = n + Len(new)
    BY <1>4 DEF made
  <2>2. i - n \in 1..Len(new) /\ i = n + (i - n)
    BY <1>1, <1>2, <2>1 DEF n
  <2> QED
    BY <2>2
<1>6. Holds(t)' \subseteq Holds(t)
  <2>1. pc[t] \notin Stopped /\ Claim(t) = claim_no[t] /\ (~Filling(t))'
    BY <1>3 DEF Stopped, Claim, Filling
  <2>2. Claim(t)' = claim_no[t]
    BY <2>1 DEF Claim
  <2>3. ASSUME NEW i \in 1..Len(made) PROVE <<made[i].claim, made[i].raw>> \in Holds(t)
    <3>1. CASE i \in 1..n
      <4>1. made[i] = m[i]
        BY <1>4, <3>1 DEF made
      <4> QED
        BY <3>1, <4>1 DEF Holds, m, n
    <3>2. CASE \E k \in 1..Len(new) : i = n + k
      <4>1. made[i].claim = claim_no[t] /\ made[i].raw = batch[t][now].raw
        BY <1>2, <1>4, <3>2 DEF made
      <4> QED
        BY <1>1, <2>1, <4>1 DEF Holds
    <3> QED
      BY <1>5, <3>1, <3>2
  <2> QED
    BY <2>1, <2>2, <2>3 DEF Holds, made
<1>7. ThreadOrdered(t)'
  <2>1. \A j \in 1..Len(batch[t]) : Ahead(t, j)' => Ahead(t, j) /\ j > now
    BY <1>3 DEF Ahead, now
  <2>2. Ahead(t, now)
    BY DEF Ahead, now
  <2>3. ASSUME NEW i \in 1..Len(made), NEW j \in 1..Len(made), i < j
        PROVE  Before(made[i], made[j])
    <3>1. CASE i \in 1..n /\ j \in 1..n
      BY <1>1, <1>4, <2>3, <3>1 DEF ThreadOrdered, made, m, n
    <3>2. ASSUME NEW k \in 1..Len(new), i \in 1..n, j = n + k
          PROVE  Before(made[i], made[j])
      <4>1. made[i] = m[i] /\ made[j].raw = batch[t][now].raw
        BY <1>2, <1>4, <3>2 DEF made
      <4>2. RawBefore(m[i].raw, batch[t][now].raw)
        BY <1>1, <2>2, <3>2 DEF ThreadOrdered, m, n
      <4> QED
        BY <4>1, <4>2, RowOrder
    <3>3. ASSUME NEW k \in 1..Len(new), NEW l \in 1..Len(new), i = n + k, j = n + l
          PROVE  Before(made[i], made[j])
      <4>1. /\ made[i].raw = batch[t][now].raw /\ made[i].row = k
            /\ made[j].raw = batch[t][now].raw /\ made[j].row = l
        <5>1. made[n + k] = new[k] /\ made[n + l] = new[l]
          BY <1>4 DEF made
        <5>2. new[k].raw = batch[t][now].raw /\ new[k].row = k
          BY <1>2
        <5>3. new[l].raw = batch[t][now].raw /\ new[l].row = l
          BY <1>2
        <5> QED
          BY ONLY <3>3, <5>1, <5>2, <5>3
      <4>2. k < l
        BY <1>1, <1>2, <2>3, <3>3 DEF n
      <4> QED
        BY <4>1, <4>2, RowOrder
    <3>4. ~(i \notin 1..n /\ j \in 1..n)
      BY <1>1, <2>3 DEF n
    <3> QED
      BY <1>5, <3>1, <3>2, <3>3, <3>4
  <2>4. ASSUME NEW i \in 1..Len(made), NEW j \in 1..Len(batch[t]), Ahead(t, j)'
        PROVE  RawBefore(made[i].raw, batch[t][j].raw)
    <3>1. CASE i \in 1..n
      BY <1>1, <1>4, <2>1, <2>4, <3>1 DEF ThreadOrdered, made, m, n
    <3>2. CASE \E k \in 1..Len(new) : i = n + k
      <4>0. PICK k \in 1..Len(new) : i = n + k
        BY <3>2
      <4>1. made[i].raw = batch[t][now].raw
        BY <1>2, <1>4, <4>0, SMTT(30) DEF made
      <4>2. now < j
        BY <2>1, <2>4, <1>1
      <4> QED
        BY <1>1, <4>1, <4>2 DEF ThreadOrdered
    <3> QED
      BY <1>5, <3>1, <3>2
  <2>5. \A i, j \in 1..Len(batch[t]) : i < j => RawBefore(batch[t][i].raw, batch[t][j].raw)
    BY <1>1 DEF ThreadOrdered
  <2> QED
    BY <2>3, <2>4, <2>5 DEF ThreadOrdered, made, RawBefore, Before
<1>8. ThreadClaims(t)'
  <2>1. \A i \in 1..Len(made) : made[i].claim <= claims
    <3> SUFFICES ASSUME NEW i \in 1..Len(made) PROVE made[i].claim <= claims
      OBVIOUS
    <3>1. CASE i \in 1..n
      BY <1>1, <1>4, <3>1 DEF ThreadClaims, made, m, n
    <3>2. CASE \E k \in 1..Len(new) : i = n + k
      <4>1. PICK k \in 1..Len(new) : i = n + k
        BY <3>2
      <4>2. \A l \in 1..Len(new) : made[n + l] = new[l]
        BY <1>4 DEF made
      <4>3. made[i] = new[k]
        BY ONLY <4>1, <4>2
      <4>4. new[k].claim = claim_no[t]
        BY <1>2
      <4>5. claim_no[t] <= claims
        BY <1>1 DEF ThreadClaims
      <4> QED
        BY ONLY <4>3, <4>4, <4>5
    <3> QED
      BY <1>5, <3>1, <3>2
  <2>2. ASSUME bind.external
        PROVE  \A i \in 1..Len(pending'[t]) : pending'[t][i].claim = claim_no[t]
    <3> DEFINE p == pending[t]
               q == pending'[t]
    <3>1. /\ p \in Seq(Rows) /\ Len(p) \in Nat /\ q = p \o new
          /\ \A i \in 1..Len(p) : p[i].claim = claim_no[t]
      <4>1. pending[t] \in Seq(Rows) /\ Len(pending[t]) \in Nat
        BY <1>1
      <4>2. pending'[t] = pending[t] \o new
        BY <1>3
      <4>3. \A i \in 1..Len(pending[t]) : pending[t][i].claim = claim_no[t]
        BY <1>1, <2>2 DEF ThreadClaims
      <4> QED
        BY <4>1, <4>2, <4>3 DEF p, q
    <3> HIDE DEF p, q
    <3>2. /\ Len(q) = Len(p) + Len(new)
          /\ \A i \in 1..Len(p) : q[i] = p[i]
          /\ \A i \in 1..Len(new) : q[Len(p) + i] = new[i]
      BY <1>2, <3>1, Joined
    <3>3. ASSUME NEW i \in 1..Len(q) PROVE q[i].claim = claim_no[t]
      <4>1. CASE i \in 1..Len(p)
        BY <3>1, <3>2, <4>1
      <4>2. CASE i \notin 1..Len(p)
        <5>1. i - Len(p) \in 1..Len(new) /\ Len(p) + (i - Len(p)) = i
          BY <1>2, <3>1, <3>2, <4>2
        <5>2. q[Len(p) + (i - Len(p))] = new[i - Len(p)]
          BY <3>2, <5>1
        <5>3. new[i - Len(p)].claim = claim_no[t]
          BY <1>2, <5>1
        <5> QED
          BY <5>1, <5>2, <5>3
      <4> QED
        BY <4>1, <4>2
    <3> QED
      BY <3>3 DEF q
  <2> QED
    BY <1>1, <1>3, <2>1, <2>2 DEF ThreadClaims, made
<1> QED
  BY <1>3, <1>6, <1>7, <1>8, CursorKept, OrderStep DEF ClaimsKeep

\* What the threads hold, by the number of its batch.
LEMMA HoldsClaims ==
  ASSUME OrderInv, NEW u \in Threads, NEW e \in Holds(u)
  PROVE  /\ claims \in Nat /\ e[1] \in Nat /\ e[1] <= claims + 1
         /\ ~Filling(u) => e[1] <= claims
<1>1. TypeOK /\ ThreadClaims(u) /\ claims \in Nat /\ claim_no[u] \in Nat
  BY DEF OrderInv, IndInv, TypeOK
<1>2. e[1] \in Nat
  BY <1>1, HoldsType
<1>3. CASE e[1] = Claim(u)
  BY <1>1, <1>3 DEF Claim, ThreadClaims
<1>4. CASE e \in {<<Made(u)[i].claim, Made(u)[i].raw>> : i \in 1..Len(Made(u))}
  <2>1. e[1] <= claims
    BY <1>1, <1>4 DEF ThreadClaims
  <2> QED
    BY <1>1, <1>2, <2>1
<1> QED
  BY <1>1, <1>2, <1>3, <1>4 DEF Holds

\* The batch gets the record that was split off last.
LEMMA OrderFillNumber ==
  ASSUME OrderInv, IndInv', NEW t \in Threads, FillNumber(t)
  PROVE  OrderInv'
<1> DEFINE raw == <<current_path, stream>>
           old == batch[t]
           n == Len(batch[t])
           item0 == [raw |-> item[t], record_no |-> next_record_no, path_idx |-> current_path - 1]
<1>1. /\ IndInv /\ TypeOK /\ ThreadOrdered(t) /\ ThreadClaims(t)
      /\ pc \in [Threads -> Labels] /\ batch \in [Threads -> Seq(Items)] /\ n \in Nat
      /\ current_path \in Nat /\ claims \in Nat
      /\ pc[t] = "number" /\ Filling(t) /\ pc[t] \notin Stopped
  <2>1. IndInv /\ TypeOK /\ ThreadOrdered(t) /\ ThreadClaims(t)
    BY DEF OrderInv, IndInv
  <2>2. pc[t] = "number"
    BY DEF FillNumber
  <2>3. /\ pc \in [Threads -> Labels] /\ batch \in [Threads -> Seq(Items)] /\ n \in Nat
        /\ claims \in Nat
    BY <2>1, SMTT(30) DEF TypeOK
  <2>4. current_path \in Nat
    BY <2>1, Glob DEF TypeOK
  <2> QED
    BY <2>1, <2>2, <2>3, <2>4 DEF Filling, Stopped
<1>2. stream \in Nat \ {0} /\ next_record_no = stream /\ item[t] = raw /\ stream # NoStream
  BY <1>1 DEF IndInv, CursorOK, NoStream
<1>3. /\ batch' = [batch EXCEPT ![t] = Append(old, item0)]
      /\ next_record_no' = next_record_no + 1
      /\ Goto(t, "fill")
      /\ UNCHANGED <<bind, current_path, stream, claims, batch_pos, pending, output, claim_no>>
  BY DEF FillNumber, engineVars
<1> HIDE DEF item0
<1>4. item0.raw = raw
  BY <1>2 DEF item0
<1>5. /\ batch'[t] = Append(old, item0) /\ pc'[t] = "fill" /\ OthersKeep(t)
      /\ Made(t)' = Made(t) /\ Claim(t) = claims + 1 /\ Claim(t)' = claims + 1
  BY <1>1, <1>3 DEF OthersKeep, Goto, Made, Claim, Filling
<1>6. /\ Len(batch'[t]) = n + 1
      /\ \A i \in 1..n : batch'[t][i] = batch[t][i]
      /\ batch'[t][n + 1].raw = raw
      /\ \A i \in 1..(n + 1) : i \in 1..n \/ i = n + 1
  <2>1. old \in Seq(Items)
    BY <1>1
  <2>2. /\ Len(Append(old, item0)) = Len(old) + 1
        /\ \A i \in 1..Len(old) : Append(old, item0)[i] = old[i]
        /\ Append(old, item0)[Len(old) + 1] = item0
    BY <2>1
  <2> QED
    BY <1>1, <1>4, <1>5, <2>2
<1> HIDE DEF raw, old, n
<1>7. ASSUME NEW u \in Threads, NEW e \in Holds(u) PROVE RawBefore(e[2], raw)
  <2>1. Numbered(e[2]) /\ e[2] \in Raws
    BY <1>1, HoldsType DEF OrderInv, HoldsNumbered
  <2> QED
    BY <1>2, <2>1 DEF Numbered, RawBefore, raw
<1>8. NumberedKeep /\ Numbered(raw)'
  <2>1. NumberedKeep
    BY <1>1, <1>2, <1>3 DEF NumberedKeep, Numbered, Raws
  <2>2. Numbered(raw)'
    BY <1>1, <1>2, <1>3 DEF Numbered, raw
  <2> QED
    BY <2>1, <2>2
<1>9. Holds(t)' \subseteq Holds(t) \cup {<<claims + 1, raw>>}
  BY <1>1, <1>5, <1>6 DEF Holds, n
<1>10. ThreadOrdered(t)'
  <2>1. \A i \in 1..n : RawBefore(batch[t][i].raw, raw)
    <3> SUFFICES ASSUME NEW i \in 1..n PROVE RawBefore(batch[t][i].raw, raw)
      OBVIOUS
    <3>1. <<Claim(t), batch[t][i].raw>> \in Holds(t)
      BY <1>1 DEF Holds, n
    <3> QED
      BY <3>1, <1>7
  <2>2. \A i \in 1..Len(Made(t)) : RawBefore(Made(t)[i].raw, raw)
    <3> SUFFICES ASSUME NEW i \in 1..Len(Made(t)) PROVE RawBefore(Made(t)[i].raw, raw)
      OBVIOUS
    <3>1. <<Made(t)[i].claim, Made(t)[i].raw>> \in Holds(t)
      BY DEF Holds
    <3> QED
      BY <3>1, <1>7
  <2>3. \A j \in 1..n : Ahead(t, j)' => Ahead(t, j)
    BY <1>3, <1>5 DEF Ahead
  <2>4. /\ \A i, j \in 1..n : i < j => RawBefore(batch[t][i].raw, batch[t][j].raw)
        /\ \A i, j \in 1..Len(Made(t)) : i < j => Before(Made(t)[i], Made(t)[j])
        /\ \A i \in 1..Len(Made(t)) : \A j \in 1..n :
             Ahead(t, j) => RawBefore(Made(t)[i].raw, batch[t][j].raw)
    BY <1>1 DEF ThreadOrdered, n
  <2>5. ASSUME NEW i \in 1..(n + 1), NEW j \in 1..(n + 1), i < j
        PROVE  RawBefore(batch'[t][i].raw, batch'[t][j].raw)
    <3>1. i \in 1..n
      BY <1>1, <2>5 DEF n
    <3>2. CASE j \in 1..n
      BY <1>6, <2>4, <2>5, <3>1, <3>2
    <3>3. CASE j = n + 1
      BY <1>6, <2>1, <3>1, <3>3
    <3> QED
      BY <1>6, <3>2, <3>3
  <2>6. ASSUME NEW i \in 1..Len(Made(t)), NEW j \in 1..(n + 1), Ahead(t, j)'
        PROVE  RawBefore(Made(t)[i].raw, batch'[t][j].raw)
    <3>1. CASE j \in 1..n
      BY <1>6, <2>3, <2>4, <2>6, <3>1
    <3>2. CASE j = n + 1
      BY <1>6, <2>2, <3>2
    <3> QED
      BY <1>6, <3>1, <3>2
  <2> QED
    BY <1>5, <1>6, <2>4, <2>5, <2>6, SMTT(30) DEF ThreadOrdered, RawBefore, Before
<1>11. ThreadClaims(t)'
  BY <1>1, <1>3, <1>5 DEF ThreadClaims
<1>12. \A u \in Threads \ {t} : Holds(u)' = Holds(u) /\ ThreadOrdered(u)' /\ ThreadClaims(u)'
  BY <1>3, <1>5, OthersOrdered DEF ClaimsKeep
<1>13. ASSUME NEW u \in Threads PROVE HoldsNumbered(u)'
  <2>1. \A e \in Holds(u) : Numbered(e[2])'
    <3> SUFFICES ASSUME NEW e \in Holds(u) PROVE Numbered(e[2])'
      OBVIOUS
    <3>1. e[2] \in Raws /\ Numbered(e[2])
      BY <1>1, HoldsType DEF OrderInv, HoldsNumbered
    <3> QED
      BY <3>1, <1>8 DEF NumberedKeep
  <2>2. CASE u = t
    <3>1. ASSUME NEW e \in Holds(t)' PROVE Numbered(e[2])'
      <4>1. e \in Holds(t) \/ e = <<claims + 1, raw>>
        BY <1>9
      <4>2. CASE e \in Holds(t)
        BY <2>1, <2>2, <4>2
      <4>3. CASE e = <<claims + 1, raw>>
        <5>1. e[2] = raw
          BY <4>3
        <5> QED
          BY <5>1, <1>1, <1>2, <1>3 DEF Numbered, raw
      <4> QED
        BY <4>1, <4>2, <4>3
    <3> QED
      BY <2>2, <3>1 DEF HoldsNumbered
  <2>3. CASE u # t
    BY <1>12, <2>1, <2>3 DEF HoldsNumbered
  <2> QED
    BY <2>2, <2>3
<1>14. ASSUME NEW u \in Threads, NEW v \in Threads PROVE HoldsOrdered(u, v)'
  <2> SUFFICES ASSUME NEW e \in Holds(u)', NEW f \in Holds(v)'
               PROVE  /\ e[1] < f[1] => RawBefore(e[2], f[2])
                      /\ u # v => e[1] # f[1]
    BY DEF HoldsOrdered, RawBefore
  <2> DEFINE new == <<claims + 1, raw>>
  <2>1. new[1] = claims + 1 /\ new[2] = raw
    OBVIOUS
  <2> HIDE DEF new
  <2>2. e \in Holds(u) \/ (u = t /\ e = new)
    BY <1>9, <1>12 DEF new
  <2>3. f \in Holds(v) \/ (v = t /\ f = new)
    BY <1>9, <1>12 DEF new
  <2>4. \A w \in Threads \ {t} : ~Filling(w)
    BY <1>1 DEF IndInv, LockHeld, Filling
  <2>5. CASE e \in Holds(u) /\ f \in Holds(v)
    BY <2>5 DEF OrderInv, HoldsOrdered
  <2>6. CASE e \in Holds(u) /\ v = t /\ f = new
    <3>1. RawBefore(e[2], f[2])
      BY <1>7, <2>1, <2>6
    <3>2. u # v => e[1] \in Nat /\ e[1] <= claims
      BY <2>4, <2>6, HoldsClaims
    <3>3. u # v => e[1] # f[1]
      BY <1>1, <2>1, <2>6, <3>2
    <3> QED
      BY <3>1, <3>3
  <2>7. CASE u = t /\ e = new /\ f \in Holds(v)
    <3>1. f[1] \in Nat /\ f[1] <= claims + 1 /\ (u # v => f[1] <= claims)
      BY <2>4, <2>7, HoldsClaims
    <3> QED
      BY <1>1, <2>1, <2>7, <3>1
  <2>8. CASE u = t /\ e = new /\ v = t /\ f = new
    BY <1>1, <2>1, <2>8
  <2> QED
    BY <2>2, <2>3, <2>5, <2>6, <2>7, <2>8
<1> QED
  BY <1>10, <1>11, <1>12, <1>13, <1>14 DEF OrderInv

-----------------------------------------------------------------------------
(* The invariant.                                                          *)

\* At first there is nothing to be out of order.
LEMMA OrderInit == Init => OrderInv
<1> SUFFICES ASSUME Init PROVE OrderInv
  OBVIOUS
<1>1. IndInv
  BY InitIndInv
<1>2. ASSUME NEW t \in Threads
      PROVE  /\ batch[t] = <<>> /\ pending[t] = <<>> /\ output[t] = <<>>
             /\ claim_no[t] = 0 /\ claims = 0
  BY DEF Init
<1>3. \A t \in Threads : Made(t) = <<>>
  BY <1>2 DEF Made
<1>4. \A t \in Threads : Holds(t) = {}
  BY <1>2, <1>3 DEF Holds
<1>5. \A t \in Threads : ThreadOrdered(t) /\ ThreadClaims(t) /\ HoldsNumbered(t)
  BY <1>2, <1>3, <1>4 DEF ThreadOrdered, ThreadClaims, HoldsNumbered
<1> QED
  BY <1>1, <1>4, <1>5 DEF OrderInv, HoldsOrdered

\* Every step keeps the order.
LEMMA OrderNext ==
  ASSUME OrderInv, [Next]_vars
  PROVE  OrderInv'
<1>1. IndInv'
  BY NextIndInv DEF OrderInv
<1>2. ASSUME NEW t \in Threads, Step(t) PROVE OrderInv'
  <2>1. CASE ScanClaimBatch(t)
    <3>1. pc[t] = "idle" /\ ClaimBatch(t) /\ ~Filling(t)
          /\ UNCHANGED <<bind, current_path, stream, next_record_no, claims, pending, output, claim_no>>
      BY <2>1 DEF ScanClaimBatch, Filling, globalVars, engineVars
    <3>2. bind.external => pending[t] = <<>>
      BY <3>1 DEF OrderInv, ThreadClaims
    <3> QED
      BY <1>1, <3>1, <3>2, OrderClaim
  <2>2. CASE LockIo(t)
    BY <1>1, <2>2, OrderLockIo
  <2>3. CASE Fill(t)
    BY <1>1, <2>3, OrderFillQuiet, OrderFillOpenThrows, OrderFillNumber, OrderFillReturn DEF Fill
  <2>4. CASE NextRaw(t)
    BY <1>1, <2>4, OrderNextRaw
  <2>5. CASE ClassifyAndPush(t) \/ ParseThrows(t)
    <3>1. PICK label \in {"scan", "threw"} : Goto(t, label)
      BY <2>5 DEF ClassifyAndPush, ParseThrows
    <3>2. /\ pc[t] \in {"parse", "classify"}
          /\ pending' = [pending EXCEPT ![t] = @ \o RowsOf(t)]
          /\ UNCHANGED <<bind, current_path, stream, next_record_no, claims,
                         batch, batch_pos, output, claim_no>>
      BY <2>5 DEF ClassifyAndPush, ParseThrows, globalVars, engineVars
    <3> QED
      BY <1>1, <3>1, <3>2, OrderPush
  <2>6. CASE Emit(t)
    BY <1>1, <2>6, OrderEmit
  <2>7. CASE CallScan(t) \/ ScanFull(t) \/ Interrupt(t) \/ ParseAndCount(t)
    BY <1>1, <2>7, OrderMoves
  <2> QED
    BY <1>2, <2>1, <2>2, <2>3, <2>4, <2>5, <2>6, <2>7 DEF Step
<1>3. CASE UNCHANGED vars
  <2>1. UNCHANGED <<current_path, stream, next_record_no, pc, batch, batch_pos, pending, output,
                    claims, claim_no, bind>>
    BY <1>3 DEF vars, globalVars, engineVars
  <2>2. \A t \in Threads : /\ Made(t)' = Made(t)
                           /\ \A j : Ahead(t, j)' <=> Ahead(t, j)
                           /\ Claim(t)' = Claim(t)
    BY <2>1 DEF Made, Ahead, Claim, Filling
  <2>3. \A t \in Threads : Holds(t)' = Holds(t)
    BY <2>1, <2>2 DEF Holds
  <2>4. \A t \in Threads : ThreadOrdered(t)' /\ ThreadClaims(t)' /\ HoldsNumbered(t)'
    <3>1. ASSUME NEW t \in Threads PROVE ThreadOrdered(t)'
      <4>1. /\ Made(t)' = Made(t) /\ batch'[t] = batch[t]
            /\ \A j : Ahead(t, j)' <=> Ahead(t, j)
        BY <2>1, <2>2
      <4>2. ThreadOrdered(t)
        BY DEF OrderInv
      <4> QED
        BY <4>1, <4>2 DEF ThreadOrdered, RawBefore, Before
    <3>2. \A t \in Threads : ThreadClaims(t)'
      BY <2>1, <2>2 DEF OrderInv, ThreadClaims
    <3>3. \A t \in Threads : HoldsNumbered(t)'
      BY <2>1, <2>3 DEF OrderInv, HoldsNumbered, Numbered
    <3> QED
      BY <3>1, <3>2, <3>3
  <2>5. \A t, u \in Threads : HoldsOrdered(t, u)'
    BY <2>3 DEF OrderInv, HoldsOrdered, RawBefore
  <2> QED
    BY <1>1, <2>4, <2>5 DEF OrderInv
<1> QED
  BY <1>2, <1>3 DEF Next, Terminated

\* However the threads interleave, a thread's batch and rows stay in the
\* order of the glob, and so do the batches of all threads.
THEOREM OrderInductive == Spec => []OrderInv
<1>1. Init => OrderInv
  BY OrderInit
<1>2. OrderInv /\ [Next]_vars => OrderInv'
  BY OrderNext
<1> QED
  BY <1>1, <1>2, PTL DEF Spec

\* The rows a thread returns are the first of those it has made.
LEMMA OutputIsMade ==
  ASSUME TypeOK, NEW t \in Threads, NEW i \in 1..Len(output[t])
  PROVE  i \in 1..Len(Made(t)) /\ Made(t)[i] = output[t][i]
<1>1. /\ Len(output[t]) \in Nat /\ Len(pending[t]) \in Nat
      /\ Len(Made(t)) = Len(output[t]) + Len(pending[t])
      /\ Made(t)[i] = output[t][i]
  BY MadeType
<1> DEFINE x == Len(output[t])
           y == Len(pending[t])
           z == Len(Made(t))
<1> HIDE DEF x, y, z
<1>2. x \in Nat /\ y \in Nat /\ z = x + y /\ i \in 1..x
  BY <1>1 DEF x, y, z
<1>3. i \in 1..z
  BY <1>2
<1> QED
  BY <1>1, <1>3 DEF z

\* Whatever the others do, one thread returns its rows in the order of the
\* glob: batches are claimed in order and drained in order.
THEOREM OutputInOrder == Spec => []ThreadOutputInOrder
<1>1. OrderInv => ThreadOutputInOrder
  <2> SUFFICES ASSUME OrderInv, NEW t \in Threads,
                      NEW i \in DOMAIN output[t], NEW j \in DOMAIN output[t], i < j
               PROVE  Before(output[t][i], output[t][j])
    BY DEF ThreadOutputInOrder
  <2>1. TypeOK /\ ThreadOrdered(t)
    BY DEF OrderInv, IndInv
  <2>2. i \in 1..Len(output[t]) /\ j \in 1..Len(output[t])
    <3>1. output[t] \in Seq(Rows)
      BY <2>1 DEF TypeOK
    <3> QED
      BY <3>1
  <2>3. /\ i \in 1..Len(Made(t)) /\ Made(t)[i] = output[t][i]
        /\ j \in 1..Len(Made(t)) /\ Made(t)[j] = output[t][j]
    BY <2>1, <2>2, OutputIsMade
  <2>4. Before(Made(t)[i], Made(t)[j])
    BY <2>1, <2>3 DEF ThreadOrdered
  <2> QED
    BY <2>3, <2>4
<1> QED
  BY <1>1, OrderInductive, PTL

\* The order in which the batches were claimed is the order of the input,
\* over all threads (marc_extension.cpp:317-322).
THEOREM OrderRestored == Spec => []BatchesRestoreOrder
<1>1. OrderInv => BatchesRestoreOrder
  <2> SUFFICES ASSUME OrderInv, NEW t \in Threads, NEW u \in Threads,
                      NEW r \in Elements(output[t]), NEW s \in Elements(output[u]),
                      r.claim < s.claim
               PROVE  Before(r, s)
    BY DEF BatchesRestoreOrder
  <2>1. TypeOK
    BY DEF OrderInv, IndInv
  <2>2. ASSUME NEW v \in Threads, NEW q \in Elements(output[v])
        PROVE  <<q.claim, q.raw>> \in Holds(v)
    <3>0. output[v] \in Seq(Rows)
      BY <2>1 DEF TypeOK
    <3>1. PICK i \in 1..Len(output[v]) : q = output[v][i]
      BY <3>0 DEF Elements
    <3>2. i \in 1..Len(Made(v)) /\ Made(v)[i] = q
      BY <2>1, <3>1, OutputIsMade
    <3> QED
      BY <3>2 DEF Holds
  <2>3. <<r.claim, r.raw>> \in Holds(t) /\ <<s.claim, s.raw>> \in Holds(u)
    BY <2>2
  <2>4. RawBefore(r.raw, s.raw)
    <3>1. HoldsOrdered(t, u)
      BY DEF OrderInv
    <3> DEFINE e == <<r.claim, r.raw>>
               f == <<s.claim, s.raw>>
    <3>2. e[1] < f[1] => RawBefore(e[2], f[2])
      <4> HIDE DEF e, f
      <4> QED
        BY <2>3, <3>1 DEF HoldsOrdered, e, f
    <3> QED
      BY <3>2
  <2> QED
    BY <2>4, RowOrder
<1> QED
  BY <1>1, OrderInductive, PTL

\* A chunk of a thread whose batches the engine claims holds rows of the batch
\* it was last handed and of no other (marc_extension.cpp:272-276).
THEOREM ChunksOfOneBatch == Spec => ChunksStayInTheirBatch
<1> DEFINE A == \A t \in Threads :
                  bind.external =>
                    \A i \in (Len(output[t]) + 1)..Len(output'[t]) :
                      output'[t][i].claim = claim_no[t]
<1>1. OrderInv /\ [Next]_vars => [A]_output
  <2> SUFFICES ASSUME OrderInv, [Next]_vars, output' # output,
                      NEW u \in Threads, bind.external,
                      NEW i \in (Len(output[u]) + 1)..Len(output'[u])
               PROVE  output'[u][i].claim = claim_no[u]
    OBVIOUS
  <2>1. PICK t \in Threads : Emit(t)
    BY DEF Next, Terminated, Step, Fill, ScanClaimBatch, LockIo, FillExhausted, FillOpen,
           FillOpenThrows, FillNextRaw, FillEndOfFile, FillNumber, FillReturn, CallScan,
           ScanFull, NextRaw, ParseAndCount, ClassifyAndPush, ParseThrows, Interrupt,
           vars, engineVars
  <2> DEFINE rows == pending[t]
             n == ChunkLen(t)
             chunk == SubSeq(rows, 1, n)
             out == output[t]
  <2>2. /\ output' = [output EXCEPT ![t] = out \o chunk]
        /\ output \in [Threads -> Seq(Rows)] /\ out \in Seq(Rows) /\ rows \in Seq(Rows)
    BY <2>1 DEF Emit, OrderInv, IndInv, TypeOK
  <2>3. n \in 0..Len(rows)
    <3>1. VECTOR_SIZE \in Nat
      BY ScanAssumption
    <3> QED
      BY <2>2, <3>1 DEF ChunkLen
  <2> HIDE DEF rows, n, out
  <2>4. chunk \in Seq(Rows) /\ Len(chunk) = n /\ \A k \in 1..n : chunk[k] = rows[k]
    <3>1. rows \in Seq(Rows) /\ n \in 0..Len(rows)
      BY <2>2, <2>3
    <3> QED
      BY <3>1, Parted
  <2> HIDE DEF chunk
  <2>5. u = t
    <3>1. ASSUME u # t PROVE FALSE
      <4>1. output'[u] = output[u] /\ Len(output[u]) \in Nat
        BY <2>2, <3>1
      <4> QED
        BY <4>1
    <3> QED
      BY <3>1
  <2>6. output'[t] = out \o chunk
    BY <2>2
  <2>7. i - Len(out) \in 1..n /\ i = Len(out) + (i - Len(out)) /\ output'[t][i] = chunk[i - Len(out)]
    <3>1. /\ Len(out) \in Nat /\ Len(chunk) = n /\ n \in Nat
          /\ Len(out \o chunk) = Len(out) + Len(chunk)
          /\ \A k \in 1..Len(chunk) : (out \o chunk)[Len(out) + k] = chunk[k]
      <4>1. out \in Seq(Rows) /\ chunk \in Seq(Rows) /\ Len(chunk) = n
        BY <2>2, <2>4
      <4>2. n \in Nat
        BY <2>2, <2>3
      <4>3. /\ Len(out) \in Nat
            /\ Len(out \o chunk) = Len(out) + Len(chunk)
            /\ \A k \in 1..Len(chunk) : (out \o chunk)[Len(out) + k] = chunk[k]
        <5>1. out \in Seq(Rows) /\ chunk \in Seq(Rows)
          BY <4>1
        <5> QED
          BY ONLY <5>1, Joined
      <4> QED
        BY <4>1, <4>2, <4>3
    <3>2. i \in (Len(out) + 1)..(Len(out) + n)
      BY <2>5, <2>6, <3>1 DEF out
    <3>3. i - Len(out) \in 1..n /\ i = Len(out) + (i - Len(out))
      BY <3>1, <3>2
    <3>4. (out \o chunk)[Len(out) + (i - Len(out))] = chunk[i - Len(out)]
      BY <3>1, <3>3
    <3> QED
      BY <2>6, <3>3, <3>4
  <2>8. i - Len(out) \in 1..Len(rows) /\ output'[t][i] = rows[i - Len(out)]
    <3>1. Len(rows) \in Nat /\ \A k \in 1..n : k \in 1..Len(rows)
      BY <2>2, <2>3
    <3> QED
      BY <2>4, <2>7, <3>1
  <2>9. rows[i - Len(out)].claim = claim_no[t]
    BY <2>8 DEF OrderInv, ThreadClaims, rows
  <2> QED
    BY <2>5, <2>8, <2>9
<1>2. OrderInv /\ [Next]_vars => [A]_output
  BY <1>1
<1>3. Spec => [][A]_output
  BY <1>2, OrderInductive, PTL DEF Spec
<1> QED
  BY <1>3 DEF ChunksStayInTheirBatch

-----------------------------------------------------------------------------
(* The counters while the scan runs.                                       *)
\* The threads between CountRecord's two increments.
Classifying == {t \in Threads : pc[t] = "classify"}

\* The records counted and those classified.
Skew == counters.records_parsed =
          counters.utf8_records + counters.marc8_records + Cardinality(Classifying)

\* The threads that are between the two increments come and go one at a time.
LEMMA SkewNext ==
  ASSUME TypeOK, IsFiniteSet(Classifying), Skew, [Next]_vars
  PROVE  IsFiniteSet(Classifying)' /\ Skew'
<1>1. /\ pc \in [Threads -> Labels]
      /\ counters \in [records_parsed : Nat, marc8_records : Nat,
                       utf8_records : Nat, decode_errors : Nat]
  BY DEF TypeOK
<1>2. Cardinality(Classifying) \in Nat
  BY FS_CardinalityType
<1>3. ASSUME Classifying' = Classifying,
             counters'.records_parsed = counters.records_parsed,
             counters'.utf8_records = counters.utf8_records,
             counters'.marc8_records = counters.marc8_records
      PROVE  IsFiniteSet(Classifying)' /\ Skew'
  BY <1>3 DEF Skew
<1>4. ASSUME NEW t \in Threads, Step(t) PROVE IsFiniteSet(Classifying)' /\ Skew'
  <2>1. CASE ParseAndCount(t)
    <3>1. pc[t] = "parse" /\ pc' = [pc EXCEPT ![t] = "classify"]
          /\ counters' = [counters EXCEPT !.records_parsed = @ + 1]
      BY <2>1 DEF ParseAndCount, Goto, Counted
    <3>2. Classifying' = Classifying \cup {t} /\ t \notin Classifying
      BY <1>1, <3>1 DEF Classifying
    <3>3. IsFiniteSet(Classifying') /\ Cardinality(Classifying') = Cardinality(Classifying) + 1
      BY <3>2, FS_AddElement
    <3>4. /\ counters'.records_parsed = counters.records_parsed + 1
          /\ counters'.utf8_records = counters.utf8_records
          /\ counters'.marc8_records = counters.marc8_records
      BY <1>1, <3>1
    <3>5. counters.records_parsed \in Nat /\ counters.utf8_records \in Nat /\ counters.marc8_records \in Nat
      BY <1>1
    <3> QED
      BY <1>2, <3>3, <3>4, <3>5 DEF Skew
  <2>2. CASE ClassifyAndPush(t)
    <3>1. pc[t] = "classify" /\ pc' = [pc EXCEPT ![t] = "scan"]
          /\ \E rec : counters' = Classified(rec)
      BY <2>2 DEF ClassifyAndPush, Goto
    <3>2. Classifying' = Classifying \ {t} /\ t \in Classifying
      BY <1>1, <3>1 DEF Classifying
    <3>3. IsFiniteSet(Classifying') /\ Cardinality(Classifying') = Cardinality(Classifying) - 1
      BY <3>2, FS_RemoveElement
    <3>4. /\ counters'.records_parsed = counters.records_parsed
          /\ \/ /\ counters'.utf8_records = counters.utf8_records + 1
                /\ counters'.marc8_records = counters.marc8_records
             \/ /\ counters'.utf8_records = counters.utf8_records
                /\ counters'.marc8_records = counters.marc8_records + 1
      BY <1>1, <3>1 DEF Classified
    <3>5. counters.records_parsed \in Nat /\ counters.utf8_records \in Nat /\ counters.marc8_records \in Nat
      BY <1>1
    <3> QED
      BY <1>2, <3>3, <3>4, <3>5 DEF Skew
  <2>3. CASE ParseThrows(t)
    <3>1. pc[t] = "parse" /\ counters' = [counters EXCEPT !.decode_errors = @ + 1]
          /\ \E label \in {"scan", "threw"} : pc' = [pc EXCEPT ![t] = label]
      BY <2>3 DEF ParseThrows, Goto, ErrorCounted
    <3>2. Classifying' = Classifying
      BY <1>1, <3>1 DEF Classifying
    <3>3. /\ counters'.records_parsed = counters.records_parsed
          /\ counters'.utf8_records = counters.utf8_records
          /\ counters'.marc8_records = counters.marc8_records
      BY <1>1, <3>1
    <3> QED
      BY <1>3, <3>2, <3>3
  <2>4. CASE ~(ParseAndCount(t) \/ ClassifyAndPush(t) \/ ParseThrows(t))
    <3>1. counters' = counters
      BY <1>4, <2>4 DEF Step, Fill, ScanClaimBatch, LockIo, FillExhausted, FillOpen,
             FillOpenThrows, FillNextRaw, FillEndOfFile, FillNumber, FillReturn, CallScan,
             ScanFull, NextRaw, Emit, Interrupt
    <3>2. pc[t] # "classify" /\ (pc' = pc \/ \E label \in Labels \ {"classify"} : pc' = [pc EXCEPT ![t] = label])
      <4> USE <1>4, <2>4 DEF Goto, Labels, Stopped
      <4>1. CASE ScanClaimBatch(t) \/ LockIo(t) \/ CallScan(t) \/ ScanFull(t) \/ Interrupt(t)
        BY <4>1 DEF ScanClaimBatch, LockIo, CallScan, ScanFull, Interrupt, ClaimBatch
      <4>2. CASE Fill(t)
        BY <4>2 DEF Fill, FillExhausted, FillOpen, FillOpenThrows, FillNextRaw, FillEndOfFile,
               FillNumber, FillReturn
      <4>3. CASE NextRaw(t)
        BY <4>3 DEF NextRaw, ClaimBatch
      <4>4. CASE Emit(t)
        BY <4>4 DEF Emit
      <4> QED
        BY <4>1, <4>2, <4>3, <4>4 DEF Step
    <3>3. Classifying' = Classifying
      BY <1>1, <3>2 DEF Classifying
    <3> QED
      BY <1>3, <3>1, <3>3
  <2> QED
    BY <2>1, <2>2, <2>3, <2>4
<1>5. CASE UNCHANGED vars
  <2>1. Classifying' = Classifying /\ counters' = counters
    BY <1>5 DEF vars, Classifying
  <2> QED
    BY <1>3, <2>1
<1> QED
  BY <1>4, <1>5 DEF Next, Terminated

\* At any moment the records counted exceed the records classified by exactly
\* the threads between CountRecord's two increments.
LEMMA SkewCounted == Spec => [](IsFiniteSet(Classifying) /\ Skew)
<1>1. Init => IsFiniteSet(Classifying) /\ Skew
  <2> SUFFICES ASSUME Init PROVE IsFiniteSet(Classifying) /\ Skew
    OBVIOUS
  <2>1. Classifying = {}
    BY DEF Init, Classifying
  <2>2. counters.records_parsed = 0 /\ counters.utf8_records = 0 /\ counters.marc8_records = 0
    BY DEF Init
  <2> QED
    BY <2>1, <2>2, FS_EmptySet DEF Skew
<1>2. TypeOK /\ (IsFiniteSet(Classifying) /\ Skew) /\ [Next]_vars
        => (IsFiniteSet(Classifying) /\ Skew)'
  BY SkewNext
<1> QED
  BY <1>1, <1>2, TypeCorrect, PTL DEF Spec

-----------------------------------------------------------------------------
(***************************************************************************)
(* Every record is accounted for, and the scan implements RecordScan.      *)
(***************************************************************************)

-----------------------------------------------------------------------------
(* The inductive invariant.                                                *)

\* How far a thread is: a thread that ends has found the input exhausted and
\* nothing left to hand out; one about to end its batch has drained it.
EndOK(t) ==
  /\ pc[t] = "classify" => RecordOf(Current(t).raw).ok
  /\ pc[t] = "threw" => failed
  /\ pc[t] = "done" /\ ~failed => exhausted /\ batch[t] = <<>> /\ pending[t] = <<>>
  /\ pc[t] = "emit" /\ pending[t] = <<>> => batch_pos[t] >= Len(batch[t])
  /\ pc[t] = "emit" /\ pending[t] = <<>> /\ ~bind.external => batch[t] = <<>> /\ exhausted

\* The files behind the cursor could be opened, and the input is exhausted
\* behind the last of them.
CursorEnd ==
  /\ \A f \in 1..current_path : paths[f].opens
  /\ exhausted => stream = NoStream /\ current_path = Len(paths)

EndInv == CursorEnd /\ \A t \in Threads : EndOK(t)

\* The records that have yet to give rows: those not numbered, and those of
\* the batches.
Waiting(t) == {batch[t][i].raw : i \in {j \in 1..Len(batch[t]) : Ahead(t, j)}}
Unread == {raw \in AllRecords : ~Numbered(raw)}
Left == Unread \cup UNION {Waiting(t) : t \in Threads}

\* The records that have given their rows, and those that were parsed.
Settled == AllRecords \ Left
Parsed == Settled \cup {Current(t).raw : t \in Classifying}

Accepted(S) == {raw \in S : RecordOf(raw).ok}
Rejected(S) == {raw \in S : ~RecordOf(raw).ok}
SaidUtf8(S) == {raw \in S : RecordOf(raw).ok /\ RecordOf(raw).leader9 # "blank"}

\* While no error ended the scan, the counters are about exactly these.
CountInv ==
  ~failed =>
    /\ IsFiniteSet(Parsed)
    /\ counters.records_parsed = Cardinality(Accepted(Parsed))
    /\ counters.decode_errors = Cardinality(Rejected(Parsed))
    /\ counters.utf8_records = Cardinality(SaidUtf8(Settled))

Owed(row) == row.raw \in AllRecords /\ row.row \in 1..RowCount(RecordOf(row.raw))

\* Row k of a record is among those a thread has made.
MadeSomewhere(raw, k) ==
  \E t \in Threads : \E i \in 1..Len(Made(t)) : Made(t)[i].raw = raw /\ Made(t)[i].row = k

\* A settled record was accepted or could be skipped, and its rows are made.
SettledOK(raw) ==
  /\ RecordOf(raw).ok \/ SkipsErrors
  /\ \A k \in 1..RowCount(RecordOf(raw)) : MadeSomewhere(raw, k)

\* Every row that was made is owed, and every row that a settled record owes
\* was made.
RowsInv ==
  /\ \A t \in Threads : \A i \in 1..Len(Made(t)) : Owed(Made(t)[i])
  /\ ~failed => \A raw \in Settled : SettledOK(raw)

\* What the engine was handed, one by one.
EmittedSet == UNION {{<<t, i>> : i \in DOMAIN output[t]} : t \in Threads}

ScanInv ==
  /\ OrderInv
  /\ EndInv
  /\ CountInv
  /\ RowsInv
  /\ IsFiniteSet(EmittedSet)

-----------------------------------------------------------------------------
(* What every step leaves alone.                                           *)

\* A step of t leaves the call, the glob and the other threads alone, and
\* neither an error nor the end of the input is ever taken back.
StepKeeps(t) ==
  /\ OthersKeep(t) /\ pc[t] \notin Stopped
  /\ paths' = paths /\ bind' = bind
  /\ failed => failed'
  /\ exhausted => exhausted'

\* Every step of a thread is of that kind.
LEMMA StepFrame ==
  ASSUME TypeOK, NEW t \in Threads, Step(t)
  PROVE  StepKeeps(t)
<1>1. /\ pc \in [Threads -> Labels] /\ batch \in [Threads -> Seq(Items)]
      /\ batch_pos \in [Threads -> Nat] /\ pending \in [Threads -> Seq(Rows)]
      /\ output \in [Threads -> Seq(Rows)] /\ claim_no \in [Threads -> Nat]
  BY DEF TypeOK
<1> USE DEF StepKeeps, OthersKeep, Goto, Stopped
<1>2. CASE ScanClaimBatch(t) \/ LockIo(t) \/ CallScan(t) \/ ScanFull(t) \/ Interrupt(t)
  BY <1>1, <1>2 DEF ScanClaimBatch, ClaimBatch, LockIo, CallScan, ScanFull, Interrupt,
     globalVars, engineVars
<1>3. CASE FillExhausted(t) \/ FillOpen(t) \/ FillOpenThrows(t) \/ FillNextRaw(t)
  BY <1>1, <1>3 DEF FillExhausted, FillOpen, FillOpenThrows, FillNextRaw, globalVars, engineVars
<1>4. CASE FillEndOfFile(t) \/ FillNumber(t)
  BY <1>1, <1>4 DEF FillEndOfFile, FillNumber, globalVars, engineVars
<1>5. CASE FillReturn(t)
  BY <1>1, <1>5 DEF FillReturn, globalVars, engineVars
<1>6. CASE NextRaw(t)
  BY <1>1, <1>6 DEF NextRaw, ClaimBatch, globalVars, engineVars
<1>7. CASE ParseAndCount(t) \/ ClassifyAndPush(t) \/ ParseThrows(t)
  BY <1>1, <1>7 DEF ParseAndCount, ClassifyAndPush, ParseThrows, globalVars, engineVars
<1>8. CASE Emit(t)
  BY <1>1, <1>8 DEF Emit, globalVars, engineVars
<1> QED
  BY <1>2, <1>3, <1>4, <1>5, <1>6, <1>7, <1>8 DEF Step, Fill

-----------------------------------------------------------------------------
(* How threads end.                                                        *)

\* What a thread that does not move knows of its end stays true.
LEMMA EndFrame ==
  ASSUME NEW t \in Threads, StepKeeps(t), NEW u \in Threads \ {t}, EndOK(u)
  PROVE  EndOK(u)'
BY DEF StepKeeps, OthersKeep, EndOK, Current, RecordOf

\* The cursor only moves behind a file that could be opened.
LEMMA CursorEndStep ==
  ASSUME IndInv, CursorEnd, NEW t \in Threads, Step(t)
  PROVE  CursorEnd'
<1>1. current_path \in Nat /\ Len(paths) \in Nat /\ paths' = paths
  <2>1. StepKeeps(t) /\ current_path \in 0..Len(paths) /\ Len(paths) \in Nat
    BY StepFrame, Glob DEF IndInv, TypeOK
  <2> QED
    BY <2>1 DEF StepKeeps
<1>2. CASE FillExhausted(t)
  <2>1. current_path \in 0..Len(paths)
    BY DEF IndInv, TypeOK
  <2> QED
    BY <1>1, <1>2, <2>1 DEF FillExhausted, CursorEnd
<1>3. CASE FillOpen(t)
  <2>1. /\ ~exhausted /\ exhausted' = exhausted
        /\ current_path' = current_path + 1 /\ paths[current_path + 1].opens
    BY <1>3 DEF FillOpen, WantsMore
  <2>2. \A f \in 1..current_path' : f \in 1..current_path \/ f = current_path + 1
    BY <1>1, <2>1
  <2> QED
    BY <1>1, <2>1, <2>2 DEF CursorEnd
<1>4. CASE FillNextRaw(t) \/ FillEndOfFile(t)
  BY <1>1, <1>4 DEF FillNextRaw, FillEndOfFile, WantsMore, CursorEnd
<1>5. CASE ~(FillExhausted(t) \/ FillOpen(t) \/ FillNextRaw(t) \/ FillEndOfFile(t))
  <2>1. UNCHANGED <<current_path, stream, exhausted>>
    BY <1>5 DEF Step, Fill, ScanClaimBatch, LockIo, FillOpenThrows, FillNumber, FillReturn,
       CallScan, ScanFull, NextRaw, ParseAndCount, ClassifyAndPush, ParseThrows, Emit,
       Interrupt, globalVars
  <2> QED
    BY <1>1, <2>1 DEF CursorEnd
<1> QED
  BY <1>2, <1>3, <1>4, <1>5

\* A thread ends only when the input is exhausted and it has nothing left.
LEMMA EndStep ==
  ASSUME OrderInv, NEW t \in Threads, EndOK(t), Step(t)
  PROVE  EndOK(t)'
<1>1. /\ TypeOK /\ StepKeeps(t)
      /\ pc \in [Threads -> Labels] /\ batch \in [Threads -> Seq(Items)]
      /\ batch_pos \in [Threads -> Nat] /\ pending \in [Threads -> Seq(Rows)]
      /\ exhausted \in BOOLEAN /\ failed \in BOOLEAN
      /\ VECTOR_SIZE \in Nat \ {0} /\ BATCH \in Nat \ {0}
  <2>1. TypeOK
    BY DEF OrderInv, IndInv
  <2> QED
    BY <2>1, StepFrame, ScanAssumption DEF TypeOK
<1> USE DEF Goto
<1>2. CASE ScanClaimBatch(t) \/ LockIo(t) \/ CallScan(t)
  <2>1. pc'[t] \in {"lock", "fill", "scan"}
    BY <1>1, <1>2 DEF ScanClaimBatch, ClaimBatch, LockIo, CallScan
  <2> QED
    BY <2>1 DEF EndOK
<1>3. CASE ScanFull(t)
  <2>1. pc'[t] = "emit" /\ pending' = pending /\ Len(pending[t]) >= VECTOR_SIZE
    BY <1>1, <1>3 DEF ScanFull
  <2>2. Len(pending[t]) # 0
    BY <1>1, <2>1
  <2>3. pending'[t] # <<>>
    BY <2>1, <2>2
  <2> QED
    BY <2>1, <2>3 DEF EndOK
<1>4. CASE Interrupt(t)
  <2>1. pc'[t] = "done" /\ failed'
    BY <1>1, <1>4 DEF Interrupt, engineVars
  <2> QED
    BY <2>1 DEF EndOK
<1>5. CASE FillOpenThrows(t)
  <2>1. pc'[t] = "threw" /\ failed'
    BY <1>1, <1>5 DEF FillOpenThrows
  <2> QED
    BY <2>1 DEF EndOK
<1>6. CASE Fill(t) /\ ~FillOpenThrows(t) /\ ~FillReturn(t)
  <2>1. pc'[t] \in {"fill", "number"}
    BY <1>1, <1>6 DEF Fill, FillExhausted, FillOpen, FillNextRaw, FillEndOfFile, FillNumber
  <2> QED
    BY <2>1 DEF EndOK
<1>7. CASE FillReturn(t)
  <2>1. /\ pc[t] = "fill" /\ ~WantsMore(t)
        /\ UNCHANGED <<bind, exhausted, batch, batch_pos, pending>>
        /\ \/ batch[t] = <<>> /\ pc'[t] = IF bind.external THEN "done" ELSE "emit"
           \/ pc'[t] \in {"ready", "scan"}
    BY <1>1, <1>7 DEF FillReturn, globalVars
  <2>2. CASE pc'[t] \in {"ready", "scan"}
    BY <2>2 DEF EndOK
  <2>3. CASE batch[t] = <<>> /\ pc'[t] = IF bind.external THEN "done" ELSE "emit"
    <3>1. Len(batch[t]) = 0 /\ batch_pos[t] \in Nat
      BY <1>1, <2>3
    <3>2. exhausted
      BY <1>1, <2>1, <3>1 DEF WantsMore
    <3>3. bind.external => pending[t] = <<>>
      BY <2>1 DEF OrderInv, ThreadClaims
    <3>4. batch_pos'[t] >= Len(batch'[t]) /\ exhausted' /\ batch'[t] = <<>>
      BY <2>1, <2>3, <3>1, <3>2
    <3>5. CASE bind.external
      BY <2>1, <2>3, <3>3, <3>4, <3>5 DEF EndOK
    <3>6. CASE ~bind.external
      BY <2>1, <2>3, <3>4, <3>6 DEF EndOK
    <3> QED
      BY <3>5, <3>6
  <2> QED
    BY <2>1, <2>2, <2>3
<1>8. CASE NextRaw(t)
  <2>1. \/ pc'[t] \in {"parse", "lock"}
        \/ /\ pc'[t] = "emit" /\ ~RefillsItself /\ batch_pos[t] >= Len(batch[t])
           /\ UNCHANGED <<batch, batch_pos, bind>>
    BY <1>1, <1>8 DEF NextRaw, ClaimBatch
  <2> QED
    BY <2>1 DEF EndOK, RefillsItself
<1>9. CASE ParseAndCount(t)
  <2>1. /\ pc'[t] = "classify" /\ RecordOf(Current(t).raw).ok
        /\ UNCHANGED <<paths, batch, batch_pos>>
    BY <1>1, <1>9 DEF ParseAndCount
  <2> QED
    BY <2>1 DEF EndOK, Current, RecordOf
<1>10. CASE ClassifyAndPush(t)
  <2>1. pc'[t] = "scan"
    BY <1>1, <1>10 DEF ClassifyAndPush
  <2> QED
    BY <2>1 DEF EndOK
<1>11. CASE ParseThrows(t)
  <2>1. pc'[t] = "scan" \/ (pc'[t] = "threw" /\ failed')
    BY <1>1, <1>11 DEF ParseThrows
  <2> QED
    BY <2>1 DEF EndOK
<1>12. CASE Emit(t)
  <2>1. \/ pc'[t] \in {"ready", "idle"}
        \/ /\ ChunkLen(t) = 0 /\ ~bind.external /\ pc'[t] = "done"
           /\ UNCHANGED <<batch, batch_pos>>
    BY <1>1, <1>12 DEF Emit
  <2>2. CASE pc'[t] \in {"ready", "idle"}
    BY <2>2 DEF EndOK
  <2>3. CASE ChunkLen(t) = 0 /\ ~bind.external /\ pc'[t] = "done" /\ UNCHANGED <<batch, batch_pos>>
    <3>1. pending[t] = <<>>
      <4>1. Len(pending[t]) = 0
        BY <1>1, <2>3 DEF ChunkLen
      <4> QED
        BY <1>1, <4>1
    <3>2. pc[t] = "emit" /\ exhausted' = exhausted /\ pending' = [pending EXCEPT ![t] = Leftover(t)]
      BY <1>12 DEF Emit, globalVars
    <3>3. batch[t] = <<>> /\ exhausted
      BY <2>3, <3>1, <3>2 DEF EndOK
    <3>4. pending'[t] = <<>>
      <4>1. pending'[t] = Leftover(t)
        BY <1>1, <3>2
      <4>2. Leftover(t) = SubSeq(<<>>, 1, 0)
        BY <2>3, <3>1 DEF Leftover
      <4> QED
        BY <4>1, <4>2
    <3> QED
      BY <2>3, <3>2, <3>3, <3>4 DEF EndOK
  <2> QED
    BY <2>1, <2>2, <2>3
<1> QED
  BY <1>2, <1>3, <1>4, <1>5, <1>6, <1>7, <1>8, <1>9, <1>10, <1>11, <1>12 DEF Step

\* Every step keeps EndInv.
LEMMA EndNext ==
  ASSUME OrderInv, EndInv, NEW t \in Threads, Step(t)
  PROVE  EndInv'
<1>1. IndInv /\ TypeOK /\ StepKeeps(t)
  BY StepFrame DEF OrderInv, IndInv
<1>2. CursorEnd'
  BY <1>1, CursorEndStep DEF EndInv
<1>3. ASSUME NEW u \in Threads PROVE EndOK(u)'
  <2>1. CASE u = t
    BY <2>1, EndStep DEF EndInv
  <2>2. CASE u # t
    BY <1>1, <2>2, EndFrame DEF EndInv
  <2> QED
    BY <2>1, <2>2
<1> QED
  BY <1>2, <1>3 DEF EndInv

-----------------------------------------------------------------------------
(* The records that are waiting.                                           *)

\* What does not change while the call and the glob are the same.
LEMMA GlobFrame ==
  ASSUME paths' = paths, bind' = bind
  PROVE  /\ AllRecords' = AllRecords
         /\ SkipsErrors' = SkipsErrors
         /\ \A raw : RecordOf(raw)' = RecordOf(raw)
         /\ \A raw : RowCount(RecordOf(raw))' = RowCount(RecordOf(raw))
         /\ \A S : /\ Accepted(S)' = Accepted(S') /\ Rejected(S)' = Rejected(S')
                   /\ SaidUtf8(S)' = SaidUtf8(S')
BY DEF AllRecords, SkipsErrors, RecordOf, RowCount, Accepted, Rejected, SaidUtf8

\* What the other threads hold, they keep.
LEMMA WaitingOthers ==
  ASSUME NEW t \in Threads, StepKeeps(t), NEW u \in Threads \ {t}
  PROVE  /\ Waiting(u)' = Waiting(u)
         /\ Current(u)' = Current(u)
         /\ Made(u)' = Made(u)
         /\ pc'[u] = pc[u]
<1>1. /\ pc'[u] = pc[u] /\ batch'[u] = batch[u] /\ batch_pos'[u] = batch_pos[u]
      /\ pending'[u] = pending[u] /\ output'[u] = output[u]
  BY DEF StepKeeps, OthersKeep
<1>2. \A j : Ahead(u, j)' <=> Ahead(u, j)
  BY <1>1 DEF Ahead
<1> QED
  BY <1>1, <1>2 DEF Waiting, Current, Made

\* A batch whose items are as much ahead as before has the same records waiting.
LEMMA WaitingSame ==
  ASSUME NEW t \in Threads, batch'[t] = batch[t],
         \A j \in 1..Len(batch[t]) : Ahead(t, j)' <=> Ahead(t, j)
  PROVE  Waiting(t)' = Waiting(t)
BY DEF Waiting

\* Nothing of a drained batch is waiting.
LEMMA WaitingNone ==
  ASSUME TypeOK, NEW t \in Threads, batch_pos[t] >= Len(batch[t]),
         pc[t] \notin {"parse", "classify"}
  PROVE  Waiting(t) = {}
<1>1. batch_pos[t] \in Nat /\ Len(batch[t]) \in Nat
  BY DEF TypeOK
<1>2. \A j \in 1..Len(batch[t]) : ~Ahead(t, j)
  BY <1>1 DEF Ahead
<1> QED
  BY <1>2 DEF Waiting

\* A thread without a batch has no records waiting.
LEMMA WaitingDropped ==
  ASSUME NEW t \in Threads, batch'[t] = <<>>
  PROVE  Waiting(t)' = {}
BY DEF Waiting

\* The records left, when one thread's part of them is known.
LEMMA LeftSplit ==
  ASSUME NEW t \in Threads
  PROVE  Left = Unread \cup Waiting(t) \cup UNION {Waiting(u) : u \in Threads \ {t}}
BY DEF Left

\* The records left before and after a step differ in the unread ones and in
\* those of the thread that took it.
LEMMA LeftOthers ==
  ASSUME NEW t \in Threads, StepKeeps(t)
  PROVE  /\ Left = Unread \cup Waiting(t) \cup UNION {Waiting(u) : u \in Threads \ {t}}
         /\ Left' = Unread' \cup Waiting(t)' \cup UNION {Waiting(u) : u \in Threads \ {t}}
<1>1. \A u \in Threads \ {t} : Waiting(u)' = Waiting(u)
  BY WaitingOthers
<1>2. Left' = Unread' \cup Waiting(t)' \cup UNION {Waiting(u)' : u \in Threads \ {t}}
  BY DEF Left
<1>3. UNION {Waiting(u)' : u \in Threads \ {t}} = UNION {Waiting(u) : u \in Threads \ {t}}
  BY <1>1
<1> QED
  BY <1>2, <1>3, LeftSplit

\* The threads between CountRecord's two increments and their records.
Between == {Current(t).raw : t \in Classifying}

\* A step away from the two increments leaves the threads between them alone.
LEMMA BetweenSame ==
  ASSUME NEW t \in Threads, StepKeeps(t), pc[t] # "classify", pc'[t] # "classify"
  PROVE  Between' = Between
<1>1. \A u \in Threads \ {t} : Current(u)' = Current(u) /\ pc'[u] = pc[u]
  BY WaitingOthers
<1>2. Classifying' = Classifying /\ t \notin Classifying /\ Classifying \subseteq Threads
  BY <1>1 DEF Classifying
<1>3. \A u \in Classifying : Current(u)' = Current(u)
  BY <1>1, <1>2
<1> QED
  BY <1>2, <1>3 DEF Between

\* A step that settles no record, counts none and makes no row.
LEMMA Unsettling ==
  ASSUME CountInv, RowsInv, NEW t \in Threads, StepKeeps(t),
         failed' \/ (Left' = Left /\ Between' = Between /\ counters' = counters),
         Made(t)' = Made(t)
  PROVE  CountInv' /\ RowsInv'
<1>1. paths' = paths /\ bind' = bind /\ (failed => failed')
  BY DEF StepKeeps
<1>2. \A u \in Threads : Made(u)' = Made(u)
  BY WaitingOthers
<1>3. \A u \in Threads : \A i \in 1..Len(Made(u)) : Owed(Made(u)[i])'
  BY <1>1, <1>2, GlobFrame DEF RowsInv, Owed
<1>4. CASE failed'
  BY <1>2, <1>3, <1>4 DEF CountInv, RowsInv, Owed
<1>5. CASE ~failed' /\ Left' = Left /\ Between' = Between /\ counters' = counters
  <2>1. ~failed /\ Settled' = Settled
    BY <1>1, <1>5, GlobFrame DEF Settled
  <2>2. Parsed' = Parsed
    BY <1>5, <2>1 DEF Parsed, Between
  <2>3. /\ Accepted(Parsed)' = Accepted(Parsed) /\ Rejected(Parsed)' = Rejected(Parsed)
        /\ SaidUtf8(Settled)' = SaidUtf8(Settled)
    BY <1>1, <2>1, <2>2 DEF Accepted, Rejected, SaidUtf8, RecordOf
  <2>4. CountInv'
    BY <1>5, <2>1, <2>2, <2>3 DEF CountInv
  <2>5. \A raw : SettledOK(raw)' <=> SettledOK(raw)
    BY <1>1, <1>2, GlobFrame DEF SettledOK, MadeSomewhere
  <2> QED
    BY <1>2, <1>3, <2>1, <2>4, <2>5 DEF RowsInv, Owed
<1> QED
  BY <1>4, <1>5

-----------------------------------------------------------------------------
(* The steps that settle no record.                                        *)

\* The records of the glob, each under its file and its ordinal.
LEMMA InGlob ==
  ASSUME paths \in Inputs, NEW raw
  PROVE  raw \in AllRecords <=>
           /\ raw \in Raws
           /\ raw[1] \in 1..Len(paths)
           /\ raw[2] \in 1..Len(paths[raw[1]].recs)
<1>1. /\ DOMAIN paths = 1..Len(paths) /\ Len(paths) \in Nat
      /\ \A f \in 1..Len(paths) : /\ DOMAIN paths[f].recs = 1..Len(paths[f].recs)
                                  /\ Len(paths[f].recs) \in Nat
  BY Glob
<1>2. raw \in AllRecords <=>
        \E f \in 1..Len(paths) : \E i \in 1..Len(paths[f].recs) : raw = <<f, i>>
  <2>1. raw \in AllRecords <=>
          \E f \in DOMAIN paths : raw \in {<<f, i>> : i \in DOMAIN paths[f].recs}
    BY DEF AllRecords
  <2> QED
    BY <1>1, <2>1
<1>3. ASSUME NEW f \in 1..Len(paths), NEW i \in 1..Len(paths[f].recs), raw = <<f, i>>
      PROVE  raw \in Raws /\ raw[1] = f /\ raw[2] = i
  BY <1>1, <1>3 DEF Raws
<1>4. ASSUME raw \in Raws PROVE raw = <<raw[1], raw[2]>>
  BY <1>4 DEF Raws
<1> QED
  BY <1>2, <1>3, <1>4

\* What is unread depends on the cursor only.
LEMMA UnreadSame ==
  ASSUME UNCHANGED <<paths, current_path, stream, next_record_no>>
  PROVE  Unread' = Unread
BY DEF Unread, Numbered, AllRecords

\* A step outside FillBatch that parses nothing.
LEMMA QuietScan ==
  ASSUME ScanInv, NEW t \in Threads,
         ScanClaimBatch(t) \/ LockIo(t) \/ CallScan(t) \/ ScanFull(t) \/ NextRaw(t)
           \/ Interrupt(t)
  PROVE  CountInv' /\ RowsInv' /\ output' = output
<1>1. /\ TypeOK /\ StepKeeps(t) /\ CountInv /\ RowsInv
      /\ pc \in [Threads -> Labels] /\ batch_pos \in [Threads -> Nat]
      /\ batch \in [Threads -> Seq(Items)] /\ Len(batch[t]) \in Nat /\ paths' = paths
  <2>1. TypeOK /\ StepKeeps(t)
    BY StepFrame DEF ScanInv, OrderInv, IndInv, Step
  <2>2. CountInv /\ RowsInv /\ paths' = paths
    BY <2>1 DEF ScanInv, StepKeeps
  <2>3. /\ pc \in [Threads -> Labels] /\ batch_pos \in [Threads -> Nat]
        /\ batch \in [Threads -> Seq(Items)]
    BY <2>1 DEF TypeOK
  <2>4. Len(batch[t]) \in Nat
    BY <2>3
  <2> QED
    BY <2>1, <2>2, <2>3, <2>4
<1>2. UNCHANGED <<current_path, stream, next_record_no, counters, pending, output>>
  BY DEF ScanClaimBatch, LockIo, CallScan, ScanFull, NextRaw, Interrupt, globalVars, engineVars
<1>3. Made(t)' = Made(t) /\ Unread' = Unread
  BY <1>1, <1>2, UnreadSame DEF Made
<1>4. pc[t] # "classify" /\ pc'[t] # "classify"
  BY <1>1 DEF ScanClaimBatch, LockIo, CallScan, ScanFull, NextRaw, Interrupt, ClaimBatch, Goto
<1>5. Waiting(t)' = Waiting(t)
  <2>1. CASE ScanClaimBatch(t) \/ (NextRaw(t) /\ ClaimBatch(t) /\ batch_pos[t] >= Len(batch[t]))
    <3>1. batch'[t] = <<>>
      BY <1>1, <2>1 DEF ScanClaimBatch, ClaimBatch
    <3>2. pc[t] \notin {"parse", "classify"}
      BY <2>1 DEF ScanClaimBatch, NextRaw
    <3>3. batch_pos[t] >= Len(batch[t])
      <4>1. CASE ScanClaimBatch(t)
        <5>1. batch[t] = <<>>
          BY <4>1 DEF ScanClaimBatch, ScanInv, OrderInv, ThreadClaims
        <5> QED
          BY <1>1, <5>1
      <4> QED
        BY <2>1, <4>1
    <3> QED
      BY <1>1, <3>1, <3>2, <3>3, WaitingNone, WaitingDropped
  <2>2. CASE NextRaw(t) /\ batch_pos'[t] = batch_pos[t] + 1 /\ Goto(t, "parse") /\ batch' = batch
    <3>1. pc[t] = "scan" /\ pc'[t] = "parse" /\ batch_pos[t] \in Nat
      BY <1>1, <2>2 DEF NextRaw, Goto
    <3>2. \A j \in 1..Len(batch[t]) : Ahead(t, j)' <=> Ahead(t, j)
      BY <1>1, <2>2, <3>1 DEF Ahead
    <3> QED
      BY <2>2, <3>2, WaitingSame
  <2>3. CASE /\ batch' = batch /\ batch_pos' = batch_pos
             /\ pc[t] \notin {"parse", "classify"} /\ pc'[t] \notin {"parse", "classify"}
    <3>1. \A j \in 1..Len(batch[t]) : Ahead(t, j)' <=> Ahead(t, j)
      BY <2>3 DEF Ahead
    <3> QED
      BY <2>3, <3>1, WaitingSame
  <2>4. CASE NextRaw(t)
    <3>1. \/ ClaimBatch(t) /\ batch_pos[t] >= Len(batch[t])
          \/ batch_pos'[t] = batch_pos[t] + 1 /\ Goto(t, "parse") /\ batch' = batch
          \/ /\ batch' = batch /\ batch_pos' = batch_pos
             /\ pc[t] \notin {"parse", "classify"} /\ pc'[t] \notin {"parse", "classify"}
      BY <1>1, <2>4 DEF NextRaw, Goto
    <3> QED
      BY <2>1, <2>2, <2>3, <2>4, <3>1
  <2>5. CASE LockIo(t) \/ CallScan(t) \/ ScanFull(t) \/ Interrupt(t)
    BY <1>1, <2>3, <2>5 DEF LockIo, CallScan, ScanFull, Interrupt, Goto
  <2> QED
    BY <2>1, <2>4, <2>5
<1>6. Left' = Left
  BY <1>1, <1>3, <1>5, LeftOthers
<1>7. Between' = Between
  BY <1>1, <1>4, BetweenSame
<1> QED
  BY <1>1, <1>2, <1>3, <1>6, <1>7, Unsettling

\* A step inside FillBatch: a record is either unread or in the batch.
LEMMA QuietFillBatch ==
  ASSUME ScanInv, NEW t \in Threads, Fill(t)
  PROVE  CountInv' /\ RowsInv' /\ output' = output
<1>1. /\ TypeOK /\ StepKeeps(t) /\ CountInv /\ RowsInv /\ CursorOK /\ BatchOK(t) /\ LockHeld
      /\ pc \in [Threads -> Labels] /\ batch_pos \in [Threads -> Nat]
      /\ batch \in [Threads -> Seq(Items)] /\ Len(batch[t]) \in Nat /\ paths' = paths
      /\ current_path \in Nat /\ next_record_no \in Nat /\ paths \in Inputs
  <2>1. /\ TypeOK /\ CountInv /\ RowsInv /\ CursorOK /\ BatchOK(t) /\ LockHeld
    BY DEF ScanInv, OrderInv, IndInv
  <2>2. StepKeeps(t) /\ paths' = paths
    BY <2>1, StepFrame DEF Step, StepKeeps
  <2>3. /\ pc \in [Threads -> Labels] /\ batch_pos \in [Threads -> Nat]
        /\ batch \in [Threads -> Seq(Items)]
        /\ current_path \in 0..Len(paths) /\ next_record_no \in Nat /\ paths \in Inputs
    BY <2>1 DEF TypeOK
  <2>4. Len(paths) \in Nat
    BY <2>3, Glob
  <2>5. current_path \in Nat
    BY <2>3, <2>4
  <2>6. Len(batch[t]) \in Nat
    BY <2>3
  <2> QED
    BY <2>1, <2>2, <2>3, <2>5, <2>6
<1>2. /\ UNCHANGED <<counters, pending, output, batch_pos>>
      /\ pc[t] \in {"fill", "number"}
      /\ pc'[t] \notin {"parse", "classify"}
  BY <1>1 DEF Fill, FillExhausted, FillOpen, FillOpenThrows, FillNextRaw, FillEndOfFile,
     FillNumber, FillReturn, globalVars, engineVars, Goto
<1>3. Made(t)' = Made(t)
  BY <1>2 DEF Made
<1>4. Between' = Between
  BY <1>1, <1>2, BetweenSame
<1>5. ASSUME batch' = batch PROVE Waiting(t)' = Waiting(t)
  <2>1. \A j \in 1..Len(batch[t]) : Ahead(t, j)' <=> Ahead(t, j)
    BY <1>2 DEF Ahead
  <2> QED
    BY <1>5, <2>1, WaitingSame
<1>6. ASSUME batch' = batch, \A raw \in AllRecords : Numbered(raw)' <=> Numbered(raw)
      PROVE  Left' = Left
  <2>1. AllRecords' = AllRecords
    BY <1>1 DEF AllRecords
  <2>2. Unread' = Unread
    BY <1>6, <2>1 DEF Unread
  <2> QED
    BY <1>1, <1>5, <1>6, <2>2, LeftOthers
<1>7. CASE FillExhausted(t) \/ FillReturn(t)
  <2>1. batch' = batch /\ UNCHANGED <<current_path, stream, next_record_no>>
    BY <1>7 DEF FillExhausted, FillReturn, globalVars
  <2>2. Left' = Left
    BY <1>6, <2>1 DEF Numbered
  <2> QED
    BY <1>1, <1>2, <1>3, <1>4, <2>2, Unsettling
<1>8. CASE FillOpenThrows(t)
  <2>1. failed'
    BY <1>8 DEF FillOpenThrows
  <2> QED
    BY <1>1, <1>2, <1>3, <2>1, Unsettling
<1>9. CASE FillOpen(t) \/ FillNextRaw(t) \/ FillEndOfFile(t)
  <2>1. batch' = batch
    BY <1>9 DEF FillOpen, FillNextRaw, FillEndOfFile
  <2>2. ASSUME NEW raw \in AllRecords PROVE Numbered(raw)' <=> Numbered(raw)
    <3>1. raw[1] \in Nat /\ raw[2] \in Nat \ {0} /\ raw[2] <= Len(paths[raw[1]].recs)
          /\ Len(paths[raw[1]].recs) \in Nat
      BY <1>1, InGlob, Glob
    <3>2. CASE FillOpen(t)
      BY <1>1, <3>1, <3>2 DEF FillOpen, Numbered, NoStream
    <3>3. CASE FillNextRaw(t)
      <4>1. stream # NoStream /\ stream' # NoStream
            /\ UNCHANGED <<current_path, next_record_no>>
        BY <1>1, <3>3 DEF FillNextRaw, NoStream, TypeOK
      <4> QED
        BY <4>1 DEF Numbered
    <3>4. CASE FillEndOfFile(t)
      <4>1. /\ stream # NoStream /\ stream' = NoStream /\ pc[t] = "fill"
            /\ stream >= Len(paths[current_path].recs)
            /\ UNCHANGED <<current_path, next_record_no>>
        BY <3>4 DEF FillEndOfFile
      <4>2. stream \in Nat /\ next_record_no = stream + 1
        BY <1>1, <4>1 DEF LockHeld, CursorOK, TypeOK
      <4>3. raw[1] = current_path => raw[2] < next_record_no
        BY <1>1, <3>1, <4>1, <4>2
      <4> QED
        BY <4>1, <4>3 DEF Numbered
    <3> QED
      BY <1>9, <3>2, <3>3, <3>4
  <2>3. Left' = Left
    BY <1>6, <2>1, <2>2
  <2> QED
    BY <1>1, <1>2, <1>3, <1>4, <2>3, Unsettling
<1>10. CASE FillNumber(t)
  <2> DEFINE new == [raw |-> item[t], record_no |-> next_record_no,
                     path_idx |-> current_path - 1]
             b == batch[t]
             n == Len(batch[t])
  <2>1. /\ batch'[t] = Append(b, new) /\ next_record_no' = next_record_no + 1
        /\ UNCHANGED <<current_path, stream>> /\ pc[t] = "number" /\ pc'[t] = "fill"
    BY <1>1, <1>10 DEF FillNumber, Goto
  <2>2. item[t] = <<current_path, next_record_no>> /\ stream = next_record_no
        /\ stream # NoStream /\ current_path \in 1..Len(paths)
        /\ stream \in 1..Len(paths[current_path].recs)
    <3>1. item[t] = <<current_path, stream>> /\ stream \in Nat \ {0} /\ stream = next_record_no
      BY <1>1, <2>1 DEF CursorOK
    <3>2. stream # NoStream
      BY <3>1 DEF NoStream
    <3>3. current_path \in 1..Len(paths) /\ stream \in 0..Len(paths[current_path].recs)
      BY <1>1, <3>2 DEF CursorOK
    <3> QED
      BY <3>1, <3>2, <3>3
  <2>3. item[t] \in AllRecords
    <3>1. item[t] \in Raws /\ item[t][1] = current_path /\ item[t][2] = stream
      BY <1>1, <2>2 DEF Raws
    <3> QED
      BY <1>1, <2>2, <3>1, InGlob
  <2>4. Unread = Unread' \cup {item[t]}
    <3>1. AllRecords' = AllRecords
      BY <1>1 DEF AllRecords
    <3>2. ASSUME NEW raw \in AllRecords
          PROVE  ~Numbered(raw) <=> (~Numbered(raw)' \/ raw = item[t])
      <4>1. raw \in Raws
        BY <1>1, InGlob
      <4>2. raw = item[t] <=> raw[1] = current_path /\ raw[2] = next_record_no
        BY <1>1, <2>2, <4>1 DEF Raws
      <4>3. raw[1] \in Nat /\ raw[2] \in Nat
        BY <4>1 DEF Raws
      <4> QED
        BY <1>1, <2>1, <2>2, <4>2, <4>3 DEF Numbered
    <3> QED
      BY <2>3, <3>1, <3>2 DEF Unread
  <2>5. Waiting(t)' = Waiting(t) \cup {item[t]}
    <3>1. /\ b \in Seq(Items) /\ n \in Nat
          /\ Len(Append(b, new)) = n + 1
          /\ \A j \in 1..n : Append(b, new)[j] = b[j]
          /\ Append(b, new)[n + 1] = new
      BY <1>1
    <3>2. batch_pos'[t] = batch_pos[t] /\ batch_pos[t] \in 0..n
      BY <1>1, <1>2 DEF BatchOK
    <3> DEFINE a == Append(b, new)
    <3>3. \A j : Ahead(t, j)' <=> j > batch_pos[t]
      BY <2>1, <3>2 DEF Ahead
    <3>4. \A j : Ahead(t, j) <=> j > batch_pos[t]
      BY <2>1 DEF Ahead
    <3>5. Waiting(t) = {b[i].raw : i \in {j \in 1..n : j > batch_pos[t]}}
      BY <3>4 DEF Waiting
    <3>6. Waiting(t)' = {a[i].raw : i \in {j \in 1..(n + 1) : j > batch_pos[t]}}
      BY <2>1, <3>1, <3>3 DEF Waiting
    <3>7. {j \in 1..(n + 1) : j > batch_pos[t]} = {j \in 1..n : j > batch_pos[t]} \cup {n + 1}
      BY <3>1, <3>2
    <3>8. a[n + 1].raw = item[t]
      BY <3>1
    <3> HIDE DEF a, b, n
    <3>9. \A i \in {j \in 1..n : j > batch_pos[t]} : a[i].raw = b[i].raw
      BY <3>1 DEF a
    <3> QED
      BY <3>5, <3>6, <3>7, <3>8, <3>9
  <2>6. Left' = Left
    BY <1>1, <2>4, <2>5, LeftOthers
  <2> QED
    BY <1>1, <1>2, <1>3, <1>4, <2>6, Unsettling
<1> QED
  BY <1>7, <1>8, <1>9, <1>10 DEF Fill

-----------------------------------------------------------------------------
(* Finite sets.                                                            *)

-----------------------------------------------------------------------------
(* The chunk that goes out.                                                *)

Chunk(t) == SubSeq(pending[t], 1, ChunkLen(t))

\* The rows of a chunk move from the pending ones to those returned.
LEMMA EmitRows ==
  ASSUME TypeOK, NEW t \in Threads, Emit(t)
  PROVE  /\ output[t] \in Seq(Rows) /\ Len(output[t]) \in Nat
         /\ ChunkLen(t) \in Nat /\ ChunkLen(t) <= Len(pending[t])
         /\ Chunk(t) \in Seq(Rows) /\ Len(Chunk(t)) = ChunkLen(t)
         /\ \A i \in 1..ChunkLen(t) : Chunk(t)[i] = pending[t][i]
         /\ output' = [output EXCEPT ![t] = output[t] \o Chunk(t)]
         /\ output'[t] = output[t] \o Chunk(t)
         /\ Made(t)' = Made(t)
<1> DEFINE rows == pending[t]
           out == output[t]
           n == ChunkLen(t)
           chunk == SubSeq(rows, 1, n)
           rest == SubSeq(rows, n + 1, Len(rows))
<1>1. pending \in [Threads -> Seq(Rows)] /\ output \in [Threads -> Seq(Rows)]
  BY DEF TypeOK
<1>2. rows \in Seq(Rows) /\ out \in Seq(Rows)
  BY <1>1
<1>3. n \in 0..Len(rows) /\ n \in Nat /\ n <= Len(rows) /\ Len(out) \in Nat
  BY <1>2, ScanAssumption DEF ChunkLen
<1>4. /\ output' = [output EXCEPT ![t] = out \o chunk]
      /\ pending' = [pending EXCEPT ![t] = rest]
  BY DEF Emit, Leftover
<1>5. output'[t] = out \o chunk /\ pending'[t] = rest
  BY <1>1, <1>4
<1> HIDE DEF n, rows, out
<1>6. /\ chunk \in Seq(Rows) /\ Len(chunk) = n /\ \A i \in 1..n : chunk[i] = rows[i]
      /\ rest \in Seq(Rows) /\ chunk \o rest = rows
  BY <1>2, <1>3, Parted
<1> HIDE DEF chunk, rest
<1>7. (out \o chunk) \o rest = out \o (chunk \o rest)
  <2>1. out \in Seq(Rows) /\ chunk \in Seq(Rows) /\ rest \in Seq(Rows)
    BY <1>2, <1>6
  <2> QED
    BY <2>1, ConcatAssociative
<1>8. Made(t)' = Made(t)
  BY <1>5, <1>6, <1>7 DEF Made, out, rows
<1> QED
  BY <1>2, <1>3, <1>4, <1>5, <1>6, <1>8 DEF Chunk, n, rows, out, chunk

\* The engine is handed as many rows more as the chunk is long.
LEMMA EmitGrows ==
  ASSUME TypeOK, IsFiniteSet(EmittedSet), NEW t \in Threads, Emit(t)
  PROVE  /\ IsFiniteSet(EmittedSet)'
         /\ Cardinality(EmittedSet') = Cardinality(EmittedSet) + ChunkLen(t)
<1> DEFINE out == output[t]
           n == ChunkLen(t)
           L == Len(out)
           f == [i \in 1..n |-> <<t, L + i>>]
<1>1. /\ n \in Nat /\ L \in Nat /\ out \in Seq(Rows) /\ Chunk(t) \in Seq(Rows)
      /\ Len(Chunk(t)) = n
      /\ output' = [output EXCEPT ![t] = out \o Chunk(t)]
      /\ output \in [Threads -> Seq(Rows)]
  BY EmitRows DEF TypeOK
<1> HIDE DEF n, L, out
<1>2. DOMAIN output'[t] = 1..(L + n) /\ DOMAIN out = 1..L
  <2>1. Len(out \o Chunk(t)) = L + n /\ out \o Chunk(t) \in Seq(Rows)
    BY <1>1, Joined DEF L
  <2>2. DOMAIN (out \o Chunk(t)) = 1..(L + n)
    BY <2>1
  <2> QED
    BY <1>1, <2>2 DEF L
<1>3. EmittedSet' = EmittedSet \cup {f[i] : i \in 1..n}
  <2>1. \A u \in Threads \ {t} : output'[u] = output[u]
    BY <1>1
  <2>2. {<<t, i>> : i \in DOMAIN output'[t]} = {<<t, i>> : i \in DOMAIN output[t]} \cup {f[i] : i \in 1..n}
    <3>1. \A k \in 1..(L + n) : k \in 1..L \/ \E i \in 1..n : k = L + i
      <4> SUFFICES ASSUME NEW k \in 1..(L + n), k \notin 1..L PROVE \E i \in 1..n : k = L + i
        OBVIOUS
      <4>1. k - L \in 1..n /\ k = L + (k - L)
        BY <1>1
      <4> QED
        BY <4>1
    <3>2. \A i \in 1..n : L + i \in 1..(L + n)
      BY <1>1
    <3>3. \A k \in 1..L : k \in 1..(L + n)
      BY <1>1
    <3> QED
      BY <1>2, <3>1, <3>2, <3>3 DEF out
  <2> HIDE DEF f
  <2>3. EmittedSet' = {<<t, i>> : i \in DOMAIN output'[t]} \cup
                      UNION {{<<u, i>> : i \in DOMAIN output'[u]} : u \in Threads \ {t}}
    BY DEF EmittedSet
  <2>4. EmittedSet = {<<t, i>> : i \in DOMAIN output[t]} \cup
                     UNION {{<<u, i>> : i \in DOMAIN output[u]} : u \in Threads \ {t}}
    BY DEF EmittedSet
  <2>5. UNION {{<<u, i>> : i \in DOMAIN output'[u]} : u \in Threads \ {t}}
          = UNION {{<<u, i>> : i \in DOMAIN output[u]} : u \in Threads \ {t}}
    BY <2>1
  <2> QED
    BY <2>2, <2>3, <2>4, <2>5
<1>4. \A i \in 1..n : f[i] \notin EmittedSet
  <2> SUFFICES ASSUME NEW i \in 1..n, NEW u \in Threads, NEW k \in DOMAIN output[u],
                      f[i] = <<u, k>>
               PROVE  FALSE
    BY DEF EmittedSet
  <2>1. u = t /\ k = L + i
    OBVIOUS
  <2>2. k \in 1..L
    BY <1>2, <2>1 DEF out
  <2> QED
    BY <1>1, <2>1, <2>2
<1> DEFINE T == {<<t, L + i>> : i \in 1..n}
<1>5. f \in Bijection(1..n, T)
  <2>1. f \in [1..n -> T] /\ \A i \in 1..n : f[i] = <<t, L + i>>
    OBVIOUS
  <2> HIDE DEF f
  <2>2. \A y \in T : \E i \in 1..n : f[i] = y
    BY <2>1
  <2>3. \A i, j \in 1..n : f[i] = f[j] => i = j
    BY <1>1, <2>1
  <2> QED
    BY <2>1, <2>2, <2>3, Fun_IsBij
<1>6. EmittedSet \cap T = {} /\ EmittedSet' = EmittedSet \cup T
  BY <1>3, <1>4
<1> HIDE DEF f, T
<1>7. \A S : IsFiniteSet(S) /\ S \cap T = {} =>
         IsFiniteSet(S \cup T) /\ Cardinality(S \cup T) = Cardinality(S) + n
  BY <1>1, <1>5, Grown, ZenonT(30)
<1> QED
  BY <1>6, <1>7 DEF n

\* Handing out a chunk settles no record.
LEMMA QuietEmit ==
  ASSUME ScanInv, NEW t \in Threads, Emit(t)
  PROVE  CountInv' /\ RowsInv'
<1>1. /\ TypeOK /\ StepKeeps(t) /\ CountInv /\ RowsInv /\ EndOK(t) /\ paths' = paths
      /\ pc \in [Threads -> Labels] /\ pending[t] \in Seq(Rows)
      /\ batch \in [Threads -> Seq(Items)]
  <2>1. TypeOK /\ StepKeeps(t)
    BY StepFrame DEF ScanInv, OrderInv, IndInv, Step
  <2>2. CountInv /\ RowsInv /\ EndOK(t) /\ paths' = paths
    BY <2>1 DEF ScanInv, StepKeeps, EndInv
  <2>3. pc \in [Threads -> Labels] /\ pending[t] \in Seq(Rows) /\ batch \in [Threads -> Seq(Items)]
    BY <2>1 DEF TypeOK
  <2> QED
    BY <2>1, <2>2, <2>3
<1>2. /\ pc[t] = "emit" /\ pc'[t] \in {"ready", "done", "idle"}
      /\ UNCHANGED <<current_path, stream, next_record_no, counters>>
  BY <1>1 DEF Emit, Goto, globalVars
<1>3. Made(t)' = Made(t)
  BY <1>1, EmitRows
<1>4. Waiting(t)' = Waiting(t)
  <2>1. CASE batch' = batch /\ batch_pos' = batch_pos
    <3>1. \A j \in 1..Len(batch[t]) : Ahead(t, j)' <=> Ahead(t, j)
      BY <1>2, <2>1 DEF Ahead
    <3> QED
      BY <2>1, <3>1, WaitingSame
  <2>2. CASE ChunkLen(t) = 0 /\ batch' = [batch EXCEPT ![t] = <<>>]
    <3>1. VECTOR_SIZE # 0 /\ Len(pending[t]) \in Nat
      BY <1>1, ScanAssumption
    <3>2. Len(pending[t]) = 0
      BY <2>2, <3>1 DEF ChunkLen
    <3>3. pending[t] = <<>>
      BY <1>1, <3>2
    <3>4. batch_pos[t] >= Len(batch[t])
      BY <1>1, <1>2, <3>3 DEF EndOK
    <3>5. batch'[t] = <<>>
      BY <1>1, <2>2
    <3> QED
      BY <1>1, <1>2, <3>4, <3>5, WaitingNone, WaitingDropped
  <2> QED
    BY <2>1, <2>2 DEF Emit
<1>5. Unread' = Unread
  BY <1>1, <1>2, UnreadSame
<1>6. Left' = Left
  BY <1>1, <1>4, <1>5, LeftOthers
<1>7. Between' = Between
  BY <1>1, <1>2, BetweenSame
<1> QED
  BY <1>1, <1>2, <1>3, <1>6, <1>7, Unsettling

-----------------------------------------------------------------------------
(* The steps that settle a record.                                         *)

\* No two threads have the same record in their batches.
LEMMA OneHolder ==
  ASSUME OrderInv, NEW t \in Threads, NEW u \in Threads \ {t},
         pc[t] \notin Stopped, pc[u] \notin Stopped,
         NEW i \in 1..Len(batch[t]), NEW j \in 1..Len(batch[u])
  PROVE  batch[t][i].raw # batch[u][j].raw
<1> DEFINE p == batch[t][i].raw
           q == batch[u][j].raw
           e == <<Claim(t), p>>
           f == <<Claim(u), q>>
<1>1. e \in Holds(t) /\ f \in Holds(u)
  BY DEF Holds
<1>2. TypeOK
  BY DEF OrderInv, IndInv
<1>3. e[1] \in Nat /\ p \in Raws /\ f[1] \in Nat /\ q \in Raws
  BY <1>1, <1>2, HoldsType, BatchItem
<1>4. HoldsOrdered(t, u) /\ HoldsOrdered(u, t)
  BY DEF OrderInv
<1>5. e[1] # f[1] /\ (e[1] < f[1] => RawBefore(p, q)) /\ (f[1] < e[1] => RawBefore(q, p))
  <2>1. e[2] = p /\ f[2] = q
    OBVIOUS
  <2> HIDE DEF e, f, p, q
  <2> QED
    BY <1>1, <1>4, <2>1 DEF HoldsOrdered
<1> HIDE DEF e, f, p, q
<1>6. RawBefore(p, q) \/ RawBefore(q, p)
  BY <1>3, <1>5
<1>7. p # q
  BY <1>3, <1>6, RawOrder
<1> QED
  BY <1>7 DEF p, q

\* The record a thread parses is one of its batch, waiting and numbered.
LEMMA CurrentWaits ==
  ASSUME OrderInv, NEW t \in Threads, pc[t] \in {"parse", "classify"}
  PROVE  /\ batch[t] \in Seq(Items) /\ Len(batch[t]) \in Nat
         /\ batch_pos[t] \in 1..Len(batch[t])
         /\ Current(t).raw = batch[t][batch_pos[t]].raw
         /\ Current(t).raw \in AllRecords /\ Current(t).raw \in Raws
         /\ Current(t).raw \in Waiting(t)
         /\ Numbered(Current(t).raw)
         /\ pc[t] \notin Stopped
<1> DEFINE now == batch_pos[t]
           raw == Current(t).raw
<1>1. /\ IndInv /\ TypeOK /\ BatchOK(t) /\ HoldsNumbered(t) /\ pc[t] \notin Stopped
      /\ paths \in Inputs /\ current_path \in 0..Len(paths)
  BY DEF OrderInv, IndInv, Stopped, TypeOK
<1>2. batch[t] \in Seq(Items)
  BY <1>1 DEF TypeOK
<1>3. Len(batch[t]) \in Nat
  BY <1>2
<1>4. now \in 1..Len(batch[t])
  BY <1>1, <1>3 DEF BatchOK
<1>5. raw = batch[t][now].raw
  BY DEF Current
<1>6. SplitOff(raw) /\ raw \in Raws
  BY <1>1, <1>4, <1>5, BatchItem DEF BatchOK
<1>7. raw \in AllRecords
  <2>1. Len(paths) \in Nat
    BY <1>1, Glob
  <2>2. raw[1] \in 1..Len(paths) /\ raw[2] \in 1..Len(paths[raw[1]].recs)
    BY <1>1, <1>6, <2>1 DEF SplitOff
  <2> QED
    BY <1>1, <1>6, <2>2, InGlob
<1>8. raw \in Waiting(t)
  BY <1>4, <1>5 DEF Waiting, Ahead
<1>9. Numbered(raw)
  <2>1. <<Claim(t), raw>> \in Holds(t)
    BY <1>1, <1>4, <1>5 DEF Holds
  <2> DEFINE e == <<Claim(t), raw>>
  <2>2. e[2] = raw
    OBVIOUS
  <2> HIDE DEF e
  <2> QED
    BY <1>1, <2>1, <2>2 DEF HoldsNumbered, e
<1> QED
  BY <1>1, <1>2, <1>3, <1>4, <1>5, <1>6, <1>7, <1>8, <1>9

\* No other thread has the record, unless an error ended the scan.
LEMMA NotElsewhere ==
  ASSUME OrderInv, EndInv, ~failed, NEW t \in Threads, pc[t] \in {"parse", "classify"},
         NEW u \in Threads \ {t}
  PROVE  /\ Current(t).raw \notin Waiting(u)
         /\ u \in Classifying => Current(t).raw # Current(u).raw
<1>1. /\ batch_pos[t] \in 1..Len(batch[t]) /\ pc[t] \notin Stopped
      /\ Current(t).raw = batch[t][batch_pos[t]].raw
  BY CurrentWaits
<1>2. CASE pc[u] \in Stopped
  <2>1. EndOK(u)
    BY DEF EndInv
  <2>2. batch[u] = <<>> /\ u \notin Classifying
    BY <1>2, <2>1 DEF EndOK, Stopped, Classifying
  <2>3. Waiting(u) = {}
    BY <2>2 DEF Waiting
  <2> QED
    BY <2>2, <2>3
<1>3. CASE pc[u] \notin Stopped
  <2>1. \A j \in 1..Len(batch[u]) : Current(t).raw # batch[u][j].raw
    BY <1>1, <1>3, OneHolder
  <2>2. u \in Classifying => batch_pos[u] \in 1..Len(batch[u]) /\ Current(u).raw = batch[u][batch_pos[u]].raw
    BY CurrentWaits DEF Classifying
  <2> QED
    BY <2>1, <2>2 DEF Waiting
<1> QED
  BY <1>2, <1>3

\* The record a thread parses has been neither settled nor parsed.
LEMMA CurrentIsNew ==
  ASSUME OrderInv, EndInv, ~failed, NEW t \in Threads, pc[t] \in {"parse", "classify"}
  PROVE  /\ Current(t).raw \in Left /\ Current(t).raw \notin Settled
         /\ pc[t] = "parse" => Current(t).raw \notin Parsed
<1>1. Current(t).raw \in Left
  BY CurrentWaits DEF Left
<1>2. Current(t).raw \notin Settled
  BY <1>1 DEF Settled
<1>3. pc[t] = "parse" => \A u \in Classifying : Current(t).raw # Current(u).raw
  BY NotElsewhere DEF Classifying
<1> QED
  BY <1>1, <1>2, <1>3 DEF Parsed

\* What the steps below have in common: t is done with the record it is at.
Settles(t) ==
  /\ pc[t] \in {"parse", "classify"} /\ pc'[t] \notin {"parse", "classify"}
  /\ UNCHANGED <<current_path, stream, next_record_no, batch, batch_pos>>

\* A record whose rows are made, or that is skipped, is not left any more.
LEMMA LeftSettles ==
  ASSUME OrderInv, EndInv, ~failed, NEW t \in Threads, StepKeeps(t), Settles(t)
  PROVE  /\ Left' = Left \ {Current(t).raw}
         /\ Settled' = Settled \cup {Current(t).raw}
<1> DEFINE raw == Current(t).raw
           b == batch[t]
           now == batch_pos[t]
<1>1. /\ pc[t] \in {"parse", "classify"} /\ pc'[t] \notin {"parse", "classify"}
      /\ paths' = paths /\ UNCHANGED <<current_path, stream, next_record_no, batch, batch_pos>>
  BY DEF Settles, StepKeeps
<1>2. /\ b \in Seq(Items) /\ Len(b) \in Nat /\ now \in 1..Len(b)
      /\ raw = b[now].raw /\ raw \in AllRecords /\ raw \in Waiting(t) /\ Numbered(raw)
  BY <1>1, CurrentWaits
<1>3. raw \notin Unread /\ Unread' = Unread
  BY <1>1, <1>2, UnreadSame DEF Unread
<1>4. \A u \in Threads \ {t} : raw \notin Waiting(u)
  BY <1>1, NotElsewhere
<1>5. Waiting(t)' = Waiting(t) \ {raw}
  <2>1. \A j : Ahead(t, j)' <=> j > now
    BY <1>1 DEF Ahead
  <2>2. Waiting(t)' = {b[i].raw : i \in {j \in 1..Len(b) : j > now}}
    BY <1>1, <2>1 DEF Waiting
  <2>3. Waiting(t) = {b[i].raw : i \in {j \in 1..Len(b) : j > now \/ j = now}}
    BY <1>1 DEF Waiting, Ahead
  <2>4. ASSUME NEW j \in 1..Len(b), j > now PROVE b[j].raw # raw
    <3>1. ThreadOrdered(t) /\ TypeOK
      BY DEF OrderInv, IndInv
    <3>2. RawBefore(b[now].raw, b[j].raw)
      BY <1>2, <2>4, <3>1 DEF ThreadOrdered
    <3>3. b[now].raw \in Raws /\ b[j].raw \in Raws
      BY <1>2, <3>1, BatchItem
    <3> QED
      BY <1>2, <3>2, <3>3, RawOrder
  <2> HIDE DEF b, now, raw
  <2>5. {b[i].raw : i \in {j \in 1..Len(b) : j > now \/ j = now}}
          = {b[i].raw : i \in {j \in 1..Len(b) : j > now}} \cup {raw}
    BY <1>2
  <2>6. raw \notin {b[i].raw : i \in {j \in 1..Len(b) : j > now}}
    BY <2>4
  <2> QED
    BY <2>2, <2>3, <2>5, <2>6
<1> HIDE DEF raw, b, now
<1>6. Left' = Left \ {raw}
  <2> DEFINE O == UNION {Waiting(u) : u \in Threads \ {t}}
  <2>1. raw \notin O
    BY <1>4
  <2>2. Left = Unread \cup Waiting(t) \cup O /\ Left' = Unread' \cup Waiting(t)' \cup O
    BY LeftOthers
  <2> HIDE DEF O
  <2> QED
    BY <1>3, <1>5, <2>1, <2>2
<1>7. AllRecords' = AllRecords
  BY <1>1 DEF AllRecords
<1>8. Settled' = Settled \cup {raw}
  BY <1>2, <1>6, <1>7 DEF Settled
<1> QED
  BY <1>6, <1>8 DEF raw

\* No record is settled and no row made.
LEMMA RowsKept ==
  ASSUME RowsInv, NEW t \in Threads, StepKeeps(t), Made(t)' = Made(t),
         Settled' = Settled
  PROVE  RowsInv'
<1>1. paths' = paths /\ bind' = bind /\ (failed => failed')
  BY DEF StepKeeps
<1>2. \A u \in Threads : Made(u)' = Made(u)
  BY WaitingOthers
<1>3. \A row : Owed(row)' <=> Owed(row)
  BY <1>1, GlobFrame DEF Owed
<1>4. \A raw : SettledOK(raw)' <=> SettledOK(raw)
  BY <1>1, <1>2, GlobFrame DEF SettledOK, MadeSomewhere
<1> QED
  BY <1>1, <1>2, <1>3, <1>4 DEF RowsInv, Owed

\* A record that is accepted is parsed and counted.
LEMMA ParseCounts ==
  ASSUME ScanInv, NEW t \in Threads, ParseAndCount(t)
  PROVE  CountInv' /\ RowsInv' /\ output' = output
<1> DEFINE raw == Current(t).raw
<1>1. TypeOK /\ OrderInv /\ EndInv /\ CountInv /\ RowsInv /\ StepKeeps(t)
  BY StepFrame DEF ScanInv, OrderInv, IndInv, Step
<1>2. /\ pc[t] = "parse" /\ pc'[t] = "classify" /\ failed' = failed /\ paths' = paths
      /\ RecordOf(raw).ok /\ counters' = Counted
      /\ UNCHANGED <<current_path, stream, next_record_no, batch, batch_pos, pending, output>>
  BY <1>1 DEF ParseAndCount, Goto, TypeOK, globalVars, engineVars
<1>3. Made(t)' = Made(t)
  BY <1>2 DEF Made
<1>4. Left' = Left /\ Settled' = Settled
  <2>1. \A j \in 1..Len(batch[t]) : Ahead(t, j)' <=> Ahead(t, j)
    BY <1>2 DEF Ahead
  <2>2. Waiting(t)' = Waiting(t) /\ Unread' = Unread
    BY <1>2, <2>1, WaitingSame, UnreadSame
  <2>3. AllRecords' = AllRecords
    BY <1>2 DEF AllRecords
  <2> QED
    BY <1>1, <2>2, <2>3, LeftOthers DEF Settled
<1>5. RowsInv'
  BY <1>1, <1>3, <1>4, RowsKept
<1>6. CASE failed
  BY <1>2, <1>5, <1>6 DEF CountInv
<1>7. CASE ~failed
  <2>1. raw \notin Parsed
    BY <1>1, <1>2, <1>7, CurrentIsNew
  <2>2. Between' = Between \cup {raw}
    <3>1. \A u \in Threads \ {t} : Current(u)' = Current(u) /\ pc'[u] = pc[u]
      BY <1>1, WaitingOthers
    <3>2. Current(t)' = Current(t)
      BY <1>2 DEF Current
    <3>3. Classifying' = Classifying \cup {t} /\ Classifying \subseteq Threads
      BY <1>2, <3>1 DEF Classifying
    <3> QED
      BY <3>1, <3>2, <3>3 DEF Between
  <2>3. Parsed' = Parsed \cup {raw}
    BY <1>4, <2>2 DEF Parsed, Between
  <2> HIDE DEF raw
  <2>4. /\ Accepted(Parsed)' = Accepted(Parsed) \cup {raw} /\ raw \notin Accepted(Parsed)
        /\ Rejected(Parsed)' = Rejected(Parsed)
        /\ SaidUtf8(Settled)' = SaidUtf8(Settled)
    BY <1>2, <1>4, <2>1, <2>3 DEF Accepted, Rejected, SaidUtf8, RecordOf, raw
  <2>5. IsFiniteSet(Parsed) /\ IsFiniteSet(Accepted(Parsed))
    <3>1. IsFiniteSet(Parsed) /\ Accepted(Parsed) \in SUBSET Parsed
      BY <1>1, <1>7 DEF CountInv, Accepted
    <3> QED
      BY <3>1, FS_Subset
  <2>6. IsFiniteSet(Parsed)'
    BY <2>3, <2>5, FS_AddElement
  <2>7. Cardinality(Accepted(Parsed) \cup {raw}) = Cardinality(Accepted(Parsed)) + 1
    BY <2>4, <2>5, FS_AddElement
  <2>8. /\ counters'.records_parsed = counters.records_parsed + 1
        /\ counters'.decode_errors = counters.decode_errors
        /\ counters'.utf8_records = counters.utf8_records
    BY <1>1, <1>2 DEF TypeOK, Counted
  <2>9. /\ counters.records_parsed = Cardinality(Accepted(Parsed))
        /\ counters.decode_errors = Cardinality(Rejected(Parsed))
        /\ counters.utf8_records = Cardinality(SaidUtf8(Settled))
    BY <1>1, <1>7 DEF CountInv
  <2>10. /\ counters'.records_parsed = Cardinality(Accepted(Parsed)')
         /\ counters'.decode_errors = Cardinality(Rejected(Parsed)')
         /\ counters'.utf8_records = Cardinality(SaidUtf8(Settled)')
    BY <2>4, <2>7, <2>8, <2>9
  <2> QED
    BY <1>2, <1>5, <2>6, <2>10 DEF CountInv
<1> QED
  BY <1>6, <1>7

\* The rows of the record are added to what the thread has made.
LEMMA MadePush ==
  ASSUME IndInv, NEW t \in Threads, pc[t] \in {"parse", "classify"},
         pending' = [pending EXCEPT ![t] = @ \o RowsOf(t)], output' = output
  PROVE  /\ Len(Made(t)) \in Nat /\ Len(RowsOf(t)) \in Nat
         /\ Len(Made(t)') = Len(Made(t)) + Len(RowsOf(t))
         /\ \A i \in 1..Len(Made(t)) : Made(t)'[i] = Made(t)[i]
         /\ \A i \in 1..Len(RowsOf(t)) : Made(t)'[Len(Made(t)) + i] = RowsOf(t)[i]
<1> DEFINE new == RowsOf(t)
           m == Made(t)
<1>1. TypeOK /\ pending \in [Threads -> Seq(Rows)]
  BY DEF IndInv, TypeOK
<1>2. output[t] \in Seq(Rows) /\ pending[t] \in Seq(Rows) /\ m \in Seq(Rows) /\ new \in Seq(Rows)
  BY <1>1, MadeType, RowsAre
<1>3. pending'[t] = pending[t] \o new /\ output'[t] = output[t]
  BY <1>1
<1> HIDE DEF new
<1>4. Made(t)' = m \o new
  <2>1. output[t] \o (pending[t] \o new) = (output[t] \o pending[t]) \o new
    <3> DEFINE a == output[t]
               b == pending[t]
    <3>1. a \in Seq(Rows) /\ b \in Seq(Rows) /\ new \in Seq(Rows)
      BY <1>2
    <3> HIDE DEF a, b
    <3>2. a \o (b \o new) = (a \o b) \o new
      BY <3>1, ConcatAssociative
    <3> QED
      BY <3>2 DEF a, b
  <2> QED
    BY <1>3, <2>1 DEF Made
<1> HIDE DEF m
<1>5. /\ Len(m) \in Nat /\ Len(new) \in Nat
      /\ Len(m \o new) = Len(m) + Len(new)
      /\ \A i \in 1..Len(m) : (m \o new)[i] = m[i]
      /\ \A i \in 1..Len(new) : (m \o new)[Len(m) + i] = new[i]
  BY <1>2, Joined
<1> QED
  BY <1>4, <1>5 DEF m, new

\* All rows of the record are made, and none that is not owed.
LEMMA RowsPush ==
  ASSUME OrderInv, RowsInv, NEW t \in Threads, pc[t] \in {"parse", "classify"}, StepKeeps(t),
         pending' = [pending EXCEPT ![t] = @ \o RowsOf(t)], output' = output,
         failed' \/ (Settled' = Settled \cup {Current(t).raw}
                       /\ (RecordOf(Current(t).raw).ok \/ SkipsErrors))
  PROVE  RowsInv'
<1> DEFINE m == Made(t)
           n == Len(Made(t))
           k == Len(RowsOf(t))
<1>0. PICK raw : raw = Current(t).raw
  OBVIOUS
<1>1. /\ IndInv /\ TypeOK /\ raw \in AllRecords
      /\ paths' = paths /\ bind' = bind /\ (failed => failed')
  BY <1>0, CurrentWaits DEF OrderInv, IndInv, StepKeeps
<1>2. /\ k = RowCount(RecordOf(raw)) /\ k \in Nat
      /\ \A i \in 1..k : RowsOf(t)[i].raw = raw /\ RowsOf(t)[i].row = i
  BY <1>0, <1>1, RowsAre
<1>3. /\ n \in Nat /\ Len(Made(t)') = n + k
      /\ \A i \in 1..n : Made(t)'[i] = m[i]
      /\ \A i \in 1..k : Made(t)'[n + i] = RowsOf(t)[i]
  BY <1>1, MadePush
<1> HIDE DEF m, n, k
<1>4. ASSUME NEW i \in 1..(n + k)
      PROVE  i \in 1..n \/ (i - n \in 1..k /\ i = n + (i - n))
  BY <1>2, <1>3
<1>5. \A i \in 1..n : i \in 1..(n + k)
  BY <1>2, <1>3
<1>6. \A i \in 1..k : n + i \in 1..(n + k)
  BY <1>2, <1>3
<1>7. \A row : Owed(row)' <=> Owed(row)
  BY <1>1, GlobFrame DEF Owed
<1>8. \A u \in Threads \ {t} : Made(u)' = Made(u)
  BY WaitingOthers
<1>9. ASSUME NEW u \in Threads, NEW i \in 1..Len(Made(u)') PROVE Owed(Made(u)'[i])
  <2>1. CASE u # t
    BY <1>8, <2>1, <1>9 DEF RowsInv
  <2>2. CASE u = t
    <3>1. i \in 1..(n + k)
      BY <1>3, <2>2
    <3>2. CASE i \in 1..n
      BY <1>3, <2>2, <3>2 DEF RowsInv, m, n
    <3>3. CASE i - n \in 1..k /\ i = n + (i - n)
      <4>1. Made(t)'[i] = RowsOf(t)[i - n]
        BY <1>3, <3>3
      <4>2. Made(t)'[i].raw = raw /\ Made(t)'[i].row = i - n
        BY <1>2, <3>3, <4>1
      <4> QED
        BY <1>1, <1>2, <2>2, <3>3, <4>2 DEF Owed
    <3> QED
      BY <1>4, <3>1, <3>2, <3>3
  <2> QED
    BY <2>1, <2>2
<1>10. ASSUME NEW r, NEW j, MadeSomewhere(r, j) PROVE MadeSomewhere(r, j)'
  <2>0. PICK u \in Threads : \E i \in 1..Len(Made(u)) : Made(u)[i].raw = r /\ Made(u)[i].row = j
    BY <1>10 DEF MadeSomewhere
  <2>1. PICK i \in 1..Len(Made(u)) : Made(u)[i].raw = r /\ Made(u)[i].row = j
    BY <2>0
  <2>2. i \in 1..Len(Made(u)') /\ Made(u)'[i] = Made(u)[i]
    <3>1. CASE u # t
      BY <1>8, <2>1, <3>1
    <3>2. CASE u = t
      BY <1>3, <1>5, <2>1, <3>2 DEF m, n
    <3> QED
      BY <3>1, <3>2
  <2> QED
    BY <2>1, <2>2 DEF MadeSomewhere
<1>11. ASSUME NEW j \in 1..k PROVE MadeSomewhere(raw, j)'
  <2>1. n + j \in 1..Len(Made(t)') /\ Made(t)'[n + j] = RowsOf(t)[j]
    BY <1>3, <1>6, <1>11
  <2>2. Made(t)'[n + j].raw = raw /\ Made(t)'[n + j].row = j
    BY <1>2, <1>11, <2>1
  <2> QED
    BY <2>1, <2>2 DEF MadeSomewhere
<1>12. CASE failed'
  BY <1>7, <1>9, <1>12 DEF RowsInv, Owed
<1>13. CASE ~failed' /\ Settled' = Settled \cup {raw} /\ (RecordOf(raw).ok \/ SkipsErrors)
  <2>1. ASSUME NEW r \in Settled PROVE SettledOK(r)'
    <3>1. SettledOK(r)
      BY <1>1, <1>13 DEF RowsInv
    <3> QED
      BY <1>1, <1>10, <3>1, GlobFrame DEF SettledOK
  <2>2. SettledOK(raw)'
    <3>1. RecordOf(raw)' = RecordOf(raw) /\ RowCount(RecordOf(raw))' = k /\ SkipsErrors' = SkipsErrors
      BY <1>1, <1>2, GlobFrame
    <3> QED
      BY <1>11, <1>13, <3>1 DEF SettledOK
  <2> QED
    BY <1>7, <1>9, <1>13, <2>1, <2>2 DEF RowsInv
<1> QED
  BY <1>0, <1>12, <1>13

\* A record that was counted is classified and gives its rows.
LEMMA ClassifyCounts ==
  ASSUME ScanInv, NEW t \in Threads, ClassifyAndPush(t)
  PROVE  CountInv' /\ RowsInv' /\ output' = output
<1>0. PICK raw : raw = Current(t).raw
  OBVIOUS
<1>1. TypeOK /\ OrderInv /\ EndInv /\ CountInv /\ RowsInv /\ StepKeeps(t) /\ IndInv
  BY StepFrame DEF ScanInv, OrderInv, IndInv, Step
<1>2. /\ pc[t] = "classify" /\ pc'[t] = "scan" /\ failed' = failed /\ paths' = paths
      /\ counters' = Classified(RecordOf(raw))
      /\ pending' = [pending EXCEPT ![t] = @ \o RowsOf(t)]
      /\ UNCHANGED <<current_path, stream, next_record_no, batch, batch_pos, output>>
  BY <1>0, <1>1 DEF ClassifyAndPush, Goto, TypeOK, globalVars, engineVars
<1>3. Settles(t)
  BY <1>2 DEF Settles
<1>4. RecordOf(raw).ok
  BY <1>0, <1>1, <1>2 DEF EndInv, EndOK
<1>5. CASE failed
  <2>1. RowsInv'
    BY <1>1, <1>2, <1>5, RowsPush
  <2> QED
    BY <1>2, <1>5, <2>1 DEF CountInv
<1>6. CASE ~failed
  <2>1. Settled' = Settled \cup {raw} /\ raw \notin Settled
    BY <1>0, <1>1, <1>2, <1>3, <1>6, LeftSettles, CurrentIsNew
  <2>2. RowsInv'
    BY <1>0, <1>1, <1>2, <1>4, <2>1, RowsPush
  <2>3. Parsed' = Parsed
    <3>1. \A u \in Threads \ {t} : Current(u)' = Current(u) /\ pc'[u] = pc[u]
      BY <1>1, WaitingOthers
    <3>2. Classifying' = Classifying \ {t} /\ t \in Classifying /\ Classifying \subseteq Threads
      BY <1>2, <3>1 DEF Classifying
    <3>3. Between = Between' \cup {raw}
      BY <1>0, <3>1, <3>2 DEF Between
    <3> QED
      BY <2>1, <3>3 DEF Parsed, Between
  <2>4. /\ Accepted(Parsed)' = Accepted(Parsed) /\ Rejected(Parsed)' = Rejected(Parsed)
    BY <1>2, <2>3 DEF Accepted, Rejected, RecordOf
  <2>5. IsFiniteSet(Settled) /\ IsFiniteSet(SaidUtf8(Settled))
    <3>1. /\ IsFiniteSet(Parsed) /\ Settled \in SUBSET Parsed
          /\ SaidUtf8(Settled) \in SUBSET Settled
      BY <1>1, <1>6 DEF CountInv, Parsed, SaidUtf8
    <3> QED
      BY <3>1, FS_Subset
  <2>6. /\ counters.records_parsed = Cardinality(Accepted(Parsed))
        /\ counters.decode_errors = Cardinality(Rejected(Parsed))
        /\ counters.utf8_records = Cardinality(SaidUtf8(Settled))
        /\ IsFiniteSet(Parsed)
    BY <1>1, <1>6 DEF CountInv
  <2>7. counters \in [records_parsed : Nat, marc8_records : Nat,
                      utf8_records : Nat, decode_errors : Nat]
    BY <1>1 DEF TypeOK
  <2>8. RecordOf(raw).leader9 \in {"a", "A", "blank"}
    BY <1>0, <1>1, <1>2, CurrentItem DEF RecordKinds
  <2>9. /\ counters'.records_parsed = counters.records_parsed
        /\ counters'.decode_errors = counters.decode_errors
        /\ counters'.utf8_records = counters.utf8_records
             + (IF RecordOf(raw).leader9 = "blank" THEN 0 ELSE 1)
    BY <1>2, <2>7, <2>8 DEF Classified
  <2>10. SaidUtf8(Settled)' = SaidUtf8(Settled)
           \cup (IF RecordOf(raw).leader9 = "blank" THEN {} ELSE {raw})
         /\ raw \notin SaidUtf8(Settled)
    BY <1>2, <1>4, <2>1 DEF SaidUtf8, RecordOf
  <2>11. Cardinality(SaidUtf8(Settled)') = Cardinality(SaidUtf8(Settled))
           + (IF RecordOf(raw).leader9 = "blank" THEN 0 ELSE 1)
    <3>1. Cardinality(SaidUtf8(Settled)) \in Nat
      BY <2>5, FS_CardinalityType
    <3>2. CASE RecordOf(raw).leader9 = "blank"
      <4>1. SaidUtf8(Settled)' = SaidUtf8(Settled)
        BY <2>10, <3>2
      <4> QED
        BY <3>1, <3>2, <4>1
    <3>3. CASE RecordOf(raw).leader9 # "blank"
      <4>1. SaidUtf8(Settled)' = SaidUtf8(Settled) \cup {raw}
        BY <2>10, <3>3
      <4>2. Cardinality(SaidUtf8(Settled) \cup {raw}) = Cardinality(SaidUtf8(Settled)) + 1
        BY <2>5, <2>10, FS_AddElement
      <4> QED
        BY <3>3, <4>1, <4>2
    <3> QED
      BY <3>2, <3>3
  <2>12. /\ counters'.records_parsed = Cardinality(Accepted(Parsed)')
         /\ counters'.decode_errors = Cardinality(Rejected(Parsed)')
         /\ counters'.utf8_records = Cardinality(SaidUtf8(Settled)')
    BY <2>4, <2>6, <2>9, <2>11
  <2> QED
    BY <1>2, <2>2, <2>3, <2>6, <2>12 DEF CountInv
<1> QED
  BY <1>5, <1>6

\* A malformed record is counted, and skipped or an end of the scan.
LEMMA ThrowCounts ==
  ASSUME ScanInv, NEW t \in Threads, ParseThrows(t)
  PROVE  CountInv' /\ RowsInv' /\ output' = output
<1>0. PICK raw : raw = Current(t).raw
  OBVIOUS
<1>1. TypeOK /\ OrderInv /\ EndInv /\ CountInv /\ RowsInv /\ StepKeeps(t) /\ IndInv
  BY StepFrame DEF ScanInv, OrderInv, IndInv, Step
<1>2. /\ pc[t] = "parse" /\ pc'[t] \in {"scan", "threw"} /\ paths' = paths
      /\ ~RecordOf(raw).ok /\ counters' = ErrorCounted
      /\ pending' = [pending EXCEPT ![t] = @ \o RowsOf(t)]
      /\ SkipsErrors \/ failed'
      /\ failed => failed'
      /\ UNCHANGED <<current_path, stream, next_record_no, batch, batch_pos, output>>
  BY <1>0, <1>1 DEF ParseThrows, Goto, TypeOK, globalVars
<1>3. Settles(t)
  BY <1>2 DEF Settles
<1>4. CASE failed'
  <2>1. RowsInv'
    BY <1>1, <1>2, <1>4, RowsPush
  <2> QED
    BY <1>2, <1>4, <2>1 DEF CountInv
<1>5. CASE ~failed'
  <2>0. ~failed
    BY <1>2, <1>5
  <2>1. Settled' = Settled \cup {raw} /\ raw \notin Settled /\ raw \notin Parsed
    BY <1>0, <1>1, <1>2, <1>3, <2>0, LeftSettles, CurrentIsNew
  <2>2. RowsInv'
    BY <1>0, <1>1, <1>2, <1>5, <2>1, RowsPush
  <2>3. Parsed' = Parsed \cup {raw}
    <3>1. Between' = Between
      BY <1>1, <1>2, BetweenSame
    <3> QED
      BY <2>1, <3>1 DEF Parsed, Between
  <2>4. /\ Accepted(Parsed)' = Accepted(Parsed)
        /\ Rejected(Parsed)' = Rejected(Parsed) \cup {raw} /\ raw \notin Rejected(Parsed)
        /\ SaidUtf8(Settled)' = SaidUtf8(Settled)
    BY <1>2, <2>1, <2>3 DEF Accepted, Rejected, SaidUtf8, RecordOf
  <2>5. IsFiniteSet(Parsed) /\ IsFiniteSet(Rejected(Parsed))
    <3>1. IsFiniteSet(Parsed) /\ Rejected(Parsed) \in SUBSET Parsed
      BY <1>1, <2>0 DEF CountInv, Rejected
    <3> QED
      BY <3>1, FS_Subset
  <2>6. IsFiniteSet(Parsed)'
    BY <2>3, <2>5, FS_AddElement
  <2>7. Cardinality(Rejected(Parsed) \cup {raw}) = Cardinality(Rejected(Parsed)) + 1
    BY <2>4, <2>5, FS_AddElement
  <2>8. /\ counters'.records_parsed = counters.records_parsed
        /\ counters'.decode_errors = counters.decode_errors + 1
        /\ counters'.utf8_records = counters.utf8_records
    BY <1>1, <1>2 DEF TypeOK, ErrorCounted
  <2>9. /\ counters.records_parsed = Cardinality(Accepted(Parsed))
        /\ counters.decode_errors = Cardinality(Rejected(Parsed))
        /\ counters.utf8_records = Cardinality(SaidUtf8(Settled))
    BY <1>1, <2>0 DEF CountInv
  <2>10. /\ counters'.records_parsed = Cardinality(Accepted(Parsed)')
         /\ counters'.decode_errors = Cardinality(Rejected(Parsed)')
         /\ counters'.utf8_records = Cardinality(SaidUtf8(Settled)')
    BY <2>4, <2>7, <2>8, <2>9
  <2> QED
    BY <1>2, <2>2, <2>6, <2>10 DEF CountInv
<1> QED
  BY <1>4, <1>5

-----------------------------------------------------------------------------
(* The invariant.                                                          *)

\* At first every record is left, and nothing is counted.
LEMMA ScanInit == Init => ScanInv
<1> SUFFICES ASSUME Init PROVE ScanInv
  OBVIOUS
<1>1. OrderInv /\ TypeOK
  BY OrderInit DEF OrderInv, IndInv
<1>2. /\ paths \in Inputs /\ current_path = 0 /\ stream = NoStream /\ next_record_no = 1
      /\ exhausted = FALSE /\ failed = FALSE
      /\ counters.records_parsed = 0 /\ counters.decode_errors = 0 /\ counters.utf8_records = 0
      /\ \A t \in Threads : /\ pc[t] \in {"idle", "ready"} /\ batch[t] = <<>>
                            /\ pending[t] = <<>> /\ output[t] = <<>>
  BY DEF Init
<1>3. EndInv
  BY <1>2 DEF EndInv, CursorEnd, EndOK
<1>4. Settled = {} /\ Parsed = {}
  <2>1. ASSUME NEW raw \in AllRecords PROVE ~Numbered(raw)
    <3>1. raw[1] \in Nat \ {0}
      BY <1>2, InGlob, Glob
    <3> QED
      BY <1>2, <3>1 DEF Numbered
  <2>2. Settled = {}
    BY <2>1 DEF Settled, Left, Unread
  <2>3. Classifying = {}
    BY <1>2 DEF Classifying
  <2> QED
    BY <2>2, <2>3 DEF Parsed
<1>5. CountInv
  <2>1. Accepted({}) = {} /\ Rejected({}) = {} /\ SaidUtf8({}) = {}
    BY DEF Accepted, Rejected, SaidUtf8
  <2> QED
    BY <1>2, <1>4, <2>1, FS_EmptySet DEF CountInv
<1>6. RowsInv
  <2>1. ASSUME NEW t \in Threads PROVE Len(Made(t)) = 0
    <3>1. Len(output[t]) = 0 /\ Len(pending[t]) = 0
      BY <1>2
    <3>2. Len(Made(t)) = Len(output[t]) + Len(pending[t])
      BY <1>1, MadeType
    <3> QED
      BY <3>1, <3>2
  <2> QED
    BY <1>4, <2>1 DEF RowsInv
<1>7. EmittedSet = {}
  BY <1>2 DEF EmittedSet
<1> QED
  BY <1>1, <1>3, <1>5, <1>6, <1>7, FS_EmptySet DEF ScanInv

\* Every step keeps ScanInv.
LEMMA ScanNext == ScanInv /\ [Next]_vars => ScanInv'
<1> SUFFICES ASSUME ScanInv, [Next]_vars PROVE ScanInv'
  OBVIOUS
<1>1. OrderInv' /\ TypeOK
  BY OrderNext DEF ScanInv, OrderInv, IndInv
<1>2. ASSUME NEW t \in Threads, Step(t) PROVE ScanInv'
  <2>1. EndInv'
    BY <1>2, EndNext DEF ScanInv
  <2>2. CASE Emit(t)
    BY <1>1, <2>1, <2>2, QuietEmit, EmitGrows DEF ScanInv
  <2>3. CASE ~Emit(t)
    <3>1. CountInv' /\ RowsInv' /\ output' = output
      BY <1>2, <2>3, QuietScan, QuietFillBatch, ParseCounts, ClassifyCounts, ThrowCounts DEF Step
    <3>2. EmittedSet' = EmittedSet
      BY <3>1 DEF EmittedSet
    <3> QED
      BY <1>1, <2>1, <3>1, <3>2 DEF ScanInv
  <2> QED
    BY <2>2, <2>3
<1>3. CASE UNCHANGED vars
  <2>1. EndInv'
    BY <1>3 DEF ScanInv, EndInv, CursorEnd, EndOK, Current, RecordOf, vars, globalVars, engineVars
  <2>2. /\ Left' = Left /\ AllRecords' = AllRecords /\ Classifying' = Classifying
        /\ \A t : Current(t)' = Current(t) /\ Made(t)' = Made(t)
        /\ paths' = paths /\ bind' = bind /\ counters' = counters /\ failed' = failed
    <3>1. \A t : \A j : Ahead(t, j)' <=> Ahead(t, j)
      BY <1>3 DEF vars, Ahead
    <3>2. \A t : Waiting(t)' = Waiting(t)
      BY <1>3, <3>1 DEF vars, Waiting
    <3>3. Unread' = Unread
      BY <1>3, UnreadSame DEF vars, globalVars
    <3> QED
      BY <1>3, <3>2, <3>3 DEF vars, Left, AllRecords, Classifying, Current, Made, engineVars
  <2>3. Settled' = Settled /\ Parsed' = Parsed
    BY <2>2 DEF Settled, Parsed
  <2>4. CountInv'
    BY <2>2, <2>3 DEF ScanInv, CountInv, Accepted, Rejected, SaidUtf8, RecordOf
  <2>5. RowsInv'
    <3>1. \A row : Owed(row)' <=> Owed(row)
      BY <2>2, GlobFrame DEF Owed
    <3>2. \A raw : SettledOK(raw)' <=> SettledOK(raw)
      BY <2>2, GlobFrame DEF SettledOK, MadeSomewhere
    <3> QED
      BY <2>2, <2>3, <3>1, <3>2 DEF ScanInv, RowsInv, Owed
  <2>6. EmittedSet' = EmittedSet
    BY <1>3 DEF vars, engineVars, EmittedSet
  <2> QED
    BY <1>1, <2>1, <2>4, <2>5, <2>6 DEF ScanInv
<1> QED
  BY <1>2, <1>3 DEF Next, Terminated

\* However the threads interleave, the counters and the rows made account for
\* exactly the records that were parsed and settled.
THEOREM ScanInductive == Spec => []ScanInv
<1>1. Init => ScanInv
  BY ScanInit
<1>2. ScanInv /\ [Next]_vars => ScanInv'
  BY ScanNext
<1> QED
  BY <1>1, <1>2, PTL DEF Spec

\* When all threads ended without an error, no record is left.
LEMMA NothingLeft ==
  ASSUME ScanInv, AllStopped, ~failed
  PROVE  /\ Left = {} /\ Settled = AllRecords /\ Parsed = AllRecords
         /\ \A t \in Threads : pending[t] = <<>>
         /\ \A f \in 1..Len(paths) : paths[f].opens
<1>1. TypeOK /\ \A t \in Threads : EndOK(t)
  BY DEF ScanInv, OrderInv, IndInv, EndInv
<1>2. \A t \in Threads : pc[t] = "done" /\ exhausted /\ batch[t] = <<>> /\ pending[t] = <<>>
  BY <1>1 DEF AllStopped, Stopped, EndOK
<1>3. exhausted
  BY <1>2, ScanAssumption
<1>4. stream = NoStream /\ current_path = Len(paths) /\ \A f \in 1..Len(paths) : paths[f].opens
  BY <1>3 DEF ScanInv, EndInv, CursorEnd
<1>5. ASSUME NEW raw \in AllRecords PROVE Numbered(raw)
  <2>1. raw[1] \in 1..Len(paths) /\ Len(paths) \in Nat
    BY <1>1, InGlob, Glob DEF TypeOK
  <2> QED
    BY <1>4, <2>1 DEF Numbered
<1>6. Unread = {}
  BY <1>5 DEF Unread
<1>7. \A t \in Threads : Waiting(t) = {}
  BY <1>2 DEF Waiting
<1>8. Left = {}
  BY <1>6, <1>7 DEF Left
<1>9. Classifying = {}
  BY <1>2 DEF Classifying
<1> QED
  BY <1>2, <1>4, <1>8, <1>9 DEF Settled, Parsed

\* When a scan has ended without an error, the counters account for every
\* record of the glob once, whichever threads and batches it went through.
THEOREM AllCounted == Spec => []CountersComplete
<1>1. ScanInv => CountersComplete
  <2> SUFFICES ASSUME ScanInv, AllStopped, ~failed
               PROVE  /\ counters.records_parsed = HowMany(LAMBDA rec : rec.ok)
                      /\ counters.decode_errors = HowMany(LAMBDA rec : ~rec.ok)
                      /\ counters.utf8_records
                           = HowMany(LAMBDA rec : rec.ok /\ rec.leader9 # "blank")
    BY DEF CountersComplete
  <2>1. Settled = AllRecords /\ Parsed = AllRecords
    BY NothingLeft
  <2>2. CountInv
    BY DEF ScanInv
  <2> QED
    BY <2>1, <2>2 DEF CountInv, HowMany, Accepted, Rejected, SaidUtf8
<1> QED
  BY <1>1, ScanInductive, PTL

-----------------------------------------------------------------------------
(***************************************************************************)
(* The counters as they are reported.                                      *)
(***************************************************************************)

\* A counter as the report has it once it was loaded, the i-th, and as it
\* will be found at the earliest before.
Seen(metric, i) == IF loaded >= i THEN report[metric] ELSE counters[metric]

\* The encodings that are reported are no fewer than those of the records
\* that were counted when the records were loaded.
ReportBounded ==
  loaded >= 1 =>
    report.records_parsed <=
      Seen("marc8_records", 2) + Seen("utf8_records", 3) + Cardinality(Threads)

MetricsInv ==
  /\ loaded \in 0..4
  /\ report \in [records_parsed : Nat, marc8_records : Nat,
                 utf8_records : Nat, decode_errors : Nat]
  /\ at_end => AllStopped
  /\ ReportBounded
  /\ at_end => \A i \in 1..loaded : report[Metrics[i]] = counters[Metrics[i]]

\* What holds of every scan, asked for its counters or not.
Counts == TypeOK /\ IsFiniteSet(Classifying) /\ Skew

\* The records counted exceed those classified by no more than the threads.
LEMMA SkewOfThreads ==
  ASSUME Counts
  PROVE  counters.records_parsed <=
           counters.marc8_records + counters.utf8_records + Cardinality(Threads)
<1>1. Classifying \subseteq Threads
  BY DEF Classifying
<1>2. Cardinality(Classifying) <= Cardinality(Threads)
  BY <1>1, FiniteThreads, FS_Subset
<1>3. Cardinality(Classifying) \in Nat /\ Cardinality(Threads) \in Nat
  BY FiniteThreads, FS_CardinalityType DEF Counts
<1>4. /\ counters.records_parsed \in Nat /\ counters.utf8_records \in Nat
      /\ counters.marc8_records \in Nat
  BY DEF Counts, TypeOK
<1> QED
  BY <1>2, <1>3, <1>4 DEF Counts, Skew

\* A counter of an encoding is never set back, and none moves once every
\* thread has stopped.
LEMMA CountersGrow ==
  ASSUME TypeOK, TypeOK', [Next]_vars
  PROVE  /\ counters'.marc8_records >= counters.marc8_records
         /\ counters'.utf8_records >= counters.utf8_records
         /\ AllStopped => UNCHANGED vars
<1>1. counters \in [records_parsed : Nat, marc8_records : Nat,
                    utf8_records : Nat, decode_errors : Nat]
  BY DEF TypeOK
<1>2. ASSUME NEW t \in Threads, Step(t)
      PROVE  /\ counters'.marc8_records >= counters.marc8_records
             /\ counters'.utf8_records >= counters.utf8_records
  <2>1. CASE ParseAndCount(t)
    BY <1>1, <2>1 DEF ParseAndCount, Counted
  <2>2. CASE ClassifyAndPush(t)
    BY <1>1, <2>2 DEF ClassifyAndPush, Classified
  <2>3. CASE ParseThrows(t)
    BY <1>1, <2>3 DEF ParseThrows, ErrorCounted
  <2>4. CASE ~(ParseAndCount(t) \/ ClassifyAndPush(t) \/ ParseThrows(t))
    <3>1. counters' = counters
      BY <1>2, <2>4 DEF Step, Fill, ScanClaimBatch, LockIo, FillExhausted, FillOpen,
             FillOpenThrows, FillNextRaw, FillEndOfFile, FillNumber, FillReturn, CallScan,
             ScanFull, NextRaw, Emit, Interrupt
    <3> QED
      BY <1>1, <3>1
  <2> QED
    BY <2>1, <2>2, <2>3, <2>4
<1>3. ASSUME AllStopped PROVE UNCHANGED vars
  <2>1. ASSUME NEW t \in Threads, Step(t) PROVE FALSE
    BY <1>3, <2>1, StepFrame DEF StepKeeps, AllStopped
  <2> QED
    BY <2>1 DEF Next, Terminated
<1>4. CASE UNCHANGED vars
  BY <1>1, <1>4 DEF vars
<1> QED
  BY <1>2, <1>3, <1>4 DEF Next, Terminated

\* The threads go on counting while the report is made.
LEMMA MetricsScan ==
  ASSUME MetricsInv, TypeOK, TypeOK', [Next]_vars, UNCHANGED metricsVars
  PROVE  MetricsInv'
<1>1. /\ loaded' = loaded /\ report' = report /\ at_end' = at_end
      /\ loaded \in 0..4
  BY DEF metricsVars, MetricsInv
<1>2. ReportBounded'
  <2> DEFINE m == counters.marc8_records
             u == counters.utf8_records
             r == report.records_parsed
             c == Cardinality(Threads)
  <2>1. /\ m' >= m /\ u' >= u
        /\ m \in Nat /\ u \in Nat /\ m' \in Nat /\ u' \in Nat /\ r \in Nat
        /\ report.marc8_records \in Nat /\ report.utf8_records \in Nat
        /\ c \in Nat
    BY CountersGrow, FiniteThreads, FS_CardinalityType DEF TypeOK, MetricsInv
  <2>2. /\ Seen("marc8_records", 2)' >= Seen("marc8_records", 2)
        /\ Seen("utf8_records", 3)' >= Seen("utf8_records", 3)
        /\ Seen("marc8_records", 2) \in Nat /\ Seen("utf8_records", 3) \in Nat
        /\ Seen("marc8_records", 2)' \in Nat /\ Seen("utf8_records", 3)' \in Nat
    BY <1>1, <2>1 DEF Seen
  <2>3. loaded >= 1 => r <= Seen("marc8_records", 2) + Seen("utf8_records", 3) + c
    BY DEF MetricsInv, ReportBounded
  <2> HIDE DEF r, c
  <2>4. loaded >= 1 => r <= Seen("marc8_records", 2)' + Seen("utf8_records", 3)' + c
    BY <2>1, <2>2, <2>3
  <2> QED
    BY <1>1, <2>4 DEF ReportBounded, r, c
<1>3. ASSUME at_end
      PROVE  AllStopped' /\ \A i \in 1..loaded : report[Metrics[i]] = counters'[Metrics[i]]
  <2>1. UNCHANGED vars
    BY <1>3, CountersGrow DEF MetricsInv
  <2> QED
    BY <1>3, <2>1 DEF vars, AllStopped, MetricsInv
<1> QED
  BY <1>1, <1>2, <1>3 DEF MetricsInv

\* One more counter is loaded.
LEMMA MetricsLoad ==
  ASSUME MetricsInv, Counts, LoadMetric
  PROVE  MetricsInv'
<1>1. /\ counters \in [records_parsed : Nat, marc8_records : Nat,
                       utf8_records : Nat, decode_errors : Nat]
      /\ report \in [records_parsed : Nat, marc8_records : Nat,
                     utf8_records : Nat, decode_errors : Nat]
      /\ counters' = counters
  BY DEF Counts, TypeOK, MetricsInv, LoadMetric, vars
<1>2. /\ Len(Metrics) = 4
      /\ Metrics[1] = "records_parsed" /\ Metrics[2] = "marc8_records"
      /\ Metrics[3] = "utf8_records" /\ Metrics[4] = "decode_errors"
  BY DEF Metrics
<1>3. /\ loaded \in 0..3 /\ loaded' = loaded + 1
      /\ report' = [report EXCEPT ![Metrics[loaded + 1]] = counters[Metrics[loaded + 1]]]
  BY <1>2 DEF LoadMetric, MetricsInv
<1>4. AllStopped' <=> AllStopped
  BY DEF LoadMetric, vars, AllStopped
<1>5. /\ counters.records_parsed <=
           counters.marc8_records + counters.utf8_records + Cardinality(Threads)
      /\ Cardinality(Threads) \in Nat
  BY SkewOfThreads, FiniteThreads, FS_CardinalityType
<1>6. CASE loaded = 0
  <2>1. /\ report' = [report EXCEPT !.records_parsed = counters.records_parsed]
        /\ loaded' = 1 /\ at_end' = AllStopped
    <3>1. loaded + 1 = 1
      BY <1>6
    <3>2. Metrics[loaded + 1] = "records_parsed"
      BY <1>2, <3>1
    <3>3. report' = [report EXCEPT !["records_parsed"] = counters["records_parsed"]]
      BY <1>3, <3>2, Zenon
    <3> QED
      BY <1>3, <1>6, <3>1, <3>3 DEF LoadMetric
  <2>2. ReportBounded'
    BY <1>1, <1>5, <2>1 DEF ReportBounded, Seen
  <2> QED
    BY <1>1, <1>2, <1>4, <2>1, <2>2 DEF MetricsInv
<1>7. CASE loaded = 1
  <2>1. /\ report' = [report EXCEPT !.marc8_records = counters.marc8_records]
        /\ loaded' = 2 /\ at_end' = at_end
    <3>1. loaded + 1 = 2
      BY <1>7
    <3>2. Metrics[loaded + 1] = "marc8_records"
      BY <1>2, <3>1
    <3>3. report' = [report EXCEPT !["marc8_records"] = counters["marc8_records"]]
      BY <1>3, <3>2, Zenon
    <3>4. loaded # 0
      BY <1>7
    <3>5. at_end' = at_end
      BY <3>4, Zenon DEF LoadMetric
    <3> QED
      BY <1>3, <3>1, <3>3, <3>5
  <2>2. ReportBounded'
    BY <1>1, <1>7, <2>1 DEF ReportBounded, Seen, MetricsInv
  <2> QED
    BY <1>1, <1>2, <1>4, <1>7, <2>1, <2>2 DEF MetricsInv
<1>8. CASE loaded = 2
  <2>1. /\ report' = [report EXCEPT !.utf8_records = counters.utf8_records]
        /\ loaded' = 3 /\ at_end' = at_end
    <3>1. loaded + 1 = 3
      BY <1>8
    <3>2. Metrics[loaded + 1] = "utf8_records"
      BY <1>2, <3>1
    <3>3. report' = [report EXCEPT !["utf8_records"] = counters["utf8_records"]]
      BY <1>3, <3>2, Zenon
    <3>4. loaded # 0
      BY <1>8
    <3>5. at_end' = at_end
      BY <3>4, Zenon DEF LoadMetric
    <3> QED
      BY <1>3, <3>1, <3>3, <3>5
  <2>2. ReportBounded'
    BY <1>1, <1>8, <2>1 DEF ReportBounded, Seen, MetricsInv
  <2> QED
    BY <1>1, <1>2, <1>4, <1>8, <2>1, <2>2 DEF MetricsInv
<1>9. CASE loaded = 3
  <2>1. /\ report' = [report EXCEPT !.decode_errors = counters.decode_errors]
        /\ loaded' = 4 /\ at_end' = at_end
    <3>1. loaded + 1 = 4
      BY <1>9
    <3>2. Metrics[loaded + 1] = "decode_errors"
      BY <1>2, <3>1
    <3>3. report' = [report EXCEPT !["decode_errors"] = counters["decode_errors"]]
      BY <1>3, <3>2, Zenon
    <3>4. loaded # 0
      BY <1>9
    <3>5. at_end' = at_end
      BY <3>4, Zenon DEF LoadMetric
    <3> QED
      BY <1>3, <3>1, <3>3, <3>5
  <2>2. ReportBounded'
    BY <1>1, <1>9, <2>1 DEF ReportBounded, Seen, MetricsInv
  <2> QED
    BY <1>1, <1>2, <1>4, <1>9, <2>1, <2>2 DEF MetricsInv
<1> QED
  BY <1>3, <1>6, <1>7, <1>8, <1>9

\* Whenever the engine asks, the report misses the encoding of no more records
\* than there are threads; asked after the scan, it is exact.
THEOREM ReportAddsUp == MetricsSpec => []MetricsAddUp
<1>1. MetricsSpec => Spec
  <2>1. MetricsInit => Init
    BY DEF MetricsInit
  <2>2. [MetricsNext]_<<vars, metricsVars>> => [Next]_vars
    BY DEF MetricsNext, LoadMetric
  <2> QED
    BY <2>1, <2>2, PTL DEF MetricsSpec, Spec
<1>2. MetricsSpec => [](Counts /\ CountersComplete)
  BY <1>1, TypeCorrect, SkewCounted, AllCounted, PTL DEF Counts
<1>3. MetricsInit /\ Counts => MetricsInv
  BY DEF MetricsInit, Counts, TypeOK, MetricsInv, ReportBounded
<1>4. MetricsInv /\ Counts /\ Counts' /\ [MetricsNext]_<<vars, metricsVars>> => MetricsInv'
  <2> SUFFICES ASSUME MetricsInv, Counts, Counts', [MetricsNext]_<<vars, metricsVars>>
               PROVE  MetricsInv'
    OBVIOUS
  <2>1. CASE LoadMetric
    BY <2>1, MetricsLoad
  <2>2. CASE ~LoadMetric
    BY <2>2, MetricsScan DEF MetricsNext, Counts
  <2> QED
    BY <2>1, <2>2
<1>5. MetricsSpec => []MetricsInv
  BY <1>2, <1>3, <1>4, PTL DEF MetricsSpec
<1>6. MetricsInv /\ Counts /\ CountersComplete => MetricsAddUp
  <2> SUFFICES ASSUME MetricsInv, Counts, CountersComplete, loaded = 4
               PROVE  MetricsAddUp
    BY DEF MetricsAddUp, Metrics
  <2>1. report.records_parsed <=
          report.marc8_records + report.utf8_records + Cardinality(Threads)
    BY DEF MetricsInv, ReportBounded, Seen
  <2>2. ASSUME at_end
        PROVE  /\ report.records_parsed = counters.records_parsed
               /\ report.decode_errors = counters.decode_errors
               /\ report.records_parsed = report.marc8_records + report.utf8_records
               /\ AllStopped
    <3>1. /\ report.records_parsed = counters.records_parsed
          /\ report.marc8_records = counters.marc8_records
          /\ report.utf8_records = counters.utf8_records
          /\ report.decode_errors = counters.decode_errors
          /\ AllStopped
      BY <2>2 DEF MetricsInv, Metrics
    <3>2. Classifying = {}
      BY <3>1 DEF Classifying, AllStopped, Stopped
    <3>3. /\ counters.records_parsed = counters.utf8_records + counters.marc8_records + 0
          /\ counters.utf8_records \in Nat /\ counters.marc8_records \in Nat
      BY <3>2, FS_EmptySet DEF Counts, Skew, TypeOK
    <3> QED
      BY <3>1, <3>3
  <2> QED
    BY <2>1, <2>2 DEF MetricsAddUp, CountersComplete
<1> QED
  BY <1>2, <1>5, <1>6, PTL
-----------------------------------------------------------------------------
(* The refinement of RecordScan.                                           *)

\* A row of the glob, whoever made it.
RowKey(row) == [raw |-> row.raw, row |-> row.row]

\* The glob owes finitely many rows.
LEMMA FiniteOwed ==
  ASSUME TypeOK
  PROVE  IsFiniteSet(OwedRows)
<1>1. /\ DOMAIN paths = 1..Len(paths) /\ Len(paths) \in Nat
      /\ \A f \in 1..Len(paths) : /\ DOMAIN paths[f].recs = 1..Len(paths[f].recs)
                                  /\ Len(paths[f].recs) \in Nat
  <2>1. /\ paths \in Seq(Files) /\ Len(paths) \in Nat
        /\ \A f \in 1..Len(paths) : /\ paths[f].recs \in Seq(RecordKinds)
                                    /\ Len(paths[f].recs) \in Nat
    BY Glob DEF TypeOK
  <2> QED
    BY <2>1
<1>2. \A n \in Nat : IsFiniteSet(1..n)
  <2> SUFFICES ASSUME NEW n \in Nat PROVE IsFiniteSet(1..n)
    OBVIOUS
  <2>1. 1 \in Int /\ n \in Int
    OBVIOUS
  <2> QED
    BY <2>1, FS_Interval
<1>3. IsFiniteSet(AllRecords)
  <2> DEFINE G(f) == {<<f, i>> : i \in DOMAIN paths[f].recs}
             T == {G(f) : f \in DOMAIN paths}
             g == [f \in DOMAIN paths |-> G(f)]
  <2>1. ASSUME NEW f \in DOMAIN paths PROVE IsFiniteSet(G(f))
    <3> DEFINE S == DOMAIN paths[f].recs
               h == [i \in S |-> <<f, i>>]
               U == {<<f, i>> : i \in S}
    <3>1. IsFiniteSet(S)
      BY <1>1, <1>2
    <3> HIDE DEF S
    <3>2. h \in [S -> U] /\ \A y \in U : \E i \in S : h[i] = y
      OBVIOUS
    <3> HIDE DEF h, U
    <3>3. h \in Surjection(S, U)
      BY <3>2, Fun_IsSurj
    <3>4. IsFiniteSet(U)
      BY <3>1, <3>3, FS_Surjection
    <3> QED
      BY <3>4 DEF U, S
  <2>2. IsFiniteSet(T)
    <3>1. IsFiniteSet(DOMAIN paths)
      BY <1>1, <1>2
    <3>2. g \in [DOMAIN paths -> T] /\ \A y \in T : \E f \in DOMAIN paths : g[f] = y
      OBVIOUS
    <3> HIDE DEF g, T
    <3>3. g \in Surjection(DOMAIN paths, T)
      BY <3>2, Fun_IsSurj
    <3> QED
      BY <3>1, <3>3, FS_Surjection
  <2>3. \A y \in T : IsFiniteSet(y)
    BY <2>1
  <2>4. AllRecords = UNION T
    BY DEF AllRecords
  <2> HIDE DEF T
  <2>5. IsFiniteSet(UNION T)
    BY <2>2, <2>3, FS_UNION
  <2> QED
    BY <2>4, <2>5
<1>4. ASSUME NEW raw \in AllRecords PROVE RowCount(RecordOf(raw)) \in Nat
  <2>1. /\ raw[1] \in 1..Len(paths) /\ raw[2] \in 1..Len(paths[raw[1]].recs)
        /\ paths[raw[1]].recs \in Seq(RecordKinds)
    BY InGlob, Glob DEF TypeOK
  <2>2. RecordOf(raw) \in RecordKinds
    BY <2>1 DEF RecordOf
  <2> QED
    BY <2>2 DEF RowCount, RecordKinds
<1> DEFINE K(raw) == {[raw |-> raw, row |-> k] : k \in 1..RowCount(RecordOf(raw))}
           T == {K(raw) : raw \in AllRecords}
           g == [raw \in AllRecords |-> K(raw)]
<1>5. ASSUME NEW raw \in AllRecords PROVE IsFiniteSet(K(raw))
  <2> DEFINE S == 1..RowCount(RecordOf(raw))
             h == [k \in S |-> [raw |-> raw, row |-> k]]
             U == {[raw |-> raw, row |-> k] : k \in S}
  <2>1. IsFiniteSet(S)
    BY <1>2, <1>4
  <2> HIDE DEF S
  <2>2. h \in [S -> U] /\ \A y \in U : \E k \in S : h[k] = y
    OBVIOUS
  <2> HIDE DEF h, U
  <2>3. h \in Surjection(S, U)
    BY <2>2, Fun_IsSurj
  <2>4. IsFiniteSet(U)
    BY <2>1, <2>3, FS_Surjection
  <2> QED
    BY <2>4 DEF U, S
<1>6. IsFiniteSet(T)
  <2>1. g \in [AllRecords -> T] /\ \A y \in T : \E raw \in AllRecords : g[raw] = y
    OBVIOUS
  <2> HIDE DEF g, T
  <2>2. g \in Surjection(AllRecords, T)
    BY <2>1, Fun_IsSurj
  <2> QED
    BY <1>3, <2>2, FS_Surjection
<1>7. \A y \in T : IsFiniteSet(y)
  BY <1>5
<1>8. OwedRows = UNION T
  BY DEF OwedRows
<1> HIDE DEF T
<1>9. IsFiniteSet(UNION T)
  BY <1>6, <1>7, FS_UNION
<1> QED
  BY <1>8, <1>9

\* No row is made twice.
LEMMA MadeOnce ==
  ASSUME OrderInv, NEW t \in Threads, NEW u \in Threads,
         NEW i \in 1..Len(Made(t)), NEW j \in 1..Len(Made(u)),
         RowKey(Made(t)[i]) = RowKey(Made(u)[j])
  PROVE  t = u /\ i = j
<1> DEFINE r == Made(t)[i]
           q == Made(u)[j]
<1>1. TypeOK /\ r.raw = q.raw /\ r.row = q.row
  BY DEF OrderInv, IndInv, RowKey
<1>2. /\ r.raw \in Raws /\ r.row \in Nat /\ r.claim \in Nat
      /\ q.raw \in Raws /\ q.row \in Nat /\ q.claim \in Nat
  BY <1>1, MadeRow
<1>3. ~Before(r, q) /\ ~Before(q, r) /\ ~RawBefore(r.raw, q.raw) /\ ~RawBefore(q.raw, r.raw)
  <2>1. ~RawBefore(r.raw, q.raw) /\ ~RawBefore(q.raw, r.raw)
    BY <1>1, <1>2, RawOrder
  <2>2. ~(r.row < q.row) /\ ~(q.row < r.row)
    BY <1>1, <1>2
  <2> QED
    BY <2>1, <2>2, RowOrder
<1>4. t = u
  <2> SUFFICES ASSUME t # u PROVE FALSE
    OBVIOUS
  <2> DEFINE e == <<r.claim, r.raw>>
             f == <<q.claim, q.raw>>
  <2>1. e \in Holds(t) /\ f \in Holds(u)
    BY DEF Holds
  <2>2. HoldsOrdered(t, u) /\ HoldsOrdered(u, t)
    BY DEF OrderInv
  <2>3. e[1] = r.claim /\ e[2] = r.raw /\ f[1] = q.claim /\ f[2] = q.raw
    OBVIOUS
  <2> HIDE DEF e, f, r, q
  <2>4. /\ r.claim < q.claim => RawBefore(r.raw, q.raw)
        /\ q.claim < r.claim => RawBefore(q.raw, r.raw)
        /\ r.claim # q.claim
    BY <2>1, <2>2, <2>3 DEF HoldsOrdered
  <2> QED
    BY <1>2, <1>3, <2>4
<1>5. i = j
  <2>1. ThreadOrdered(t)
    BY DEF OrderInv
  <2>2. Len(Made(t)) \in Nat
    BY <1>1, MadeType
  <2>3. ~(i < j) /\ ~(j < i)
    BY <1>3, <1>4, <2>1 DEF ThreadOrdered
  <2> QED
    BY <1>4, <2>2, <2>3
<1> QED
  BY <1>4, <1>5

\* A row is delivered when some thread has returned it.
LEMMA InDelivered ==
  ASSUME output \in [Threads -> Seq(Rows)], NEW key
  PROVE  key \in Delivered <=>
           \E u \in Threads : \E i \in 1..Len(output[u]) : key = RowKey(output[u][i])
<1>1. \A u \in Threads : output[u] \in Seq(Rows)
  OBVIOUS
<1>2. \A u \in Threads : DOMAIN output[u] = 1..Len(output[u])
  BY <1>1
<1>3. key \in Delivered <=>
        \E u \in Threads : \E row \in Elements(output[u]) : key = RowKey(row)
  BY DEF Delivered, RowKey
<1>4. \A u \in Threads : Elements(output[u]) = {output[u][i] : i \in 1..Len(output[u])}
  BY <1>2 DEF Elements
<1> QED
  BY <1>3, <1>4

\* A chunk delivers as many rows as it holds, all owed and none delivered
\* before.
LEMMA Delivers ==
  ASSUME ScanInv, OrderInv', NEW t \in Threads, Emit(t)
  PROVE  /\ Delivered \subseteq Delivered' /\ Delivered' \subseteq OwedRows
         /\ IsFiniteSet(Delivered' \ Delivered)
         /\ Cardinality(Delivered' \ Delivered) = ChunkLen(t)
<1> DEFINE n == ChunkLen(t)
           L == Len(output[t])
           out == output[t]
           chunk == Chunk(t)
           K == {RowKey(pending[t][i]) : i \in 1..n}
           f == [i \in 1..n |-> RowKey(pending[t][i])]
<1>1. /\ TypeOK /\ OrderInv /\ RowsInv
      /\ output \in [Threads -> Seq(Rows)] /\ output' \in [Threads -> Seq(Rows)]
      /\ pending[t] \in Seq(Rows)
  BY DEF ScanInv, OrderInv, IndInv, TypeOK
<1>2. /\ out \in Seq(Rows) /\ L \in Nat /\ n \in Nat /\ n <= Len(pending[t])
      /\ chunk \in Seq(Rows) /\ Len(chunk) = n
      /\ \A i \in 1..n : chunk[i] = pending[t][i]
      /\ output' = [output EXCEPT ![t] = out \o chunk]
      /\ output'[t] = out \o chunk
  BY <1>1, EmitRows
<1> HIDE DEF n, L, out, chunk
<1>3. /\ Len(output'[t]) = L + n
      /\ \A i \in 1..L : output'[t][i] = output[t][i]
      /\ \A i \in 1..n : output'[t][L + i] = pending[t][i]
  <2>1. out \in Seq(Rows) /\ chunk \in Seq(Rows)
    BY <1>2
  <2>2. /\ Len(out \o chunk) = Len(out) + Len(chunk)
        /\ \A i \in 1..Len(out) : (out \o chunk)[i] = out[i]
        /\ \A i \in 1..Len(chunk) : (out \o chunk)[Len(out) + i] = chunk[i]
    BY ONLY <2>1, Joined
  <2> QED
    BY <1>2, <2>2 DEF L, out
<1>4. \A u \in Threads \ {t} : output'[u] = output[u]
  BY <1>1, <1>2
<1>5. /\ Len(Made(t)) = L + Len(pending[t]) /\ Len(pending[t]) \in Nat
      /\ \A i \in 1..Len(pending[t]) : Made(t)[L + i] = pending[t][i]
  BY <1>1, MadeType DEF L
<1>6. ASSUME NEW i \in 1..n
      PROVE  L + i \in 1..Len(Made(t)) /\ Made(t)[L + i] = pending[t][i] /\ L + i \notin 1..L
  <2> DEFINE p == Len(pending[t])
             m == Len(Made(t))
  <2>1. m = L + p /\ p \in Nat /\ L \in Nat /\ n \in Nat /\ n <= p
    BY <1>2, <1>5
  <2> HIDE DEF p, m
  <2>2. i \in 1..p /\ L + i \in 1..m /\ L + i \notin 1..L
    BY <2>1
  <2> QED
    BY <1>5, <2>2 DEF p, m
<1>7. Delivered' = Delivered \cup K
  <2>1. ASSUME NEW key \in Delivered PROVE key \in Delivered'
    <3>1. PICK u \in Threads : \E i \in 1..Len(output[u]) : key = RowKey(output[u][i])
      BY <1>1, InDelivered
    <3>2. PICK i \in 1..Len(output[u]) : key = RowKey(output[u][i])
      BY <3>1
    <3>3. i \in 1..Len(output'[u]) /\ output'[u][i] = output[u][i]
      <4>1. CASE u # t
        BY <1>4, <4>1
      <4>2. CASE u = t
        <5>1. i \in 1..L
          BY <4>2 DEF L
        <5>2. i \in 1..(L + n)
          BY <1>2, <5>1
        <5> QED
          BY <1>3, <4>2, <5>1, <5>2
      <4> QED
        BY <4>1, <4>2
    <3>4. \E v \in Threads : \E k \in 1..Len(output'[v]) : key = RowKey(output'[v][k])
      BY <3>2, <3>3
    <3> QED
      BY <3>4, <1>1 DEF Delivered, Elements, RowKey
  <2>2. ASSUME NEW key \in K PROVE key \in Delivered'
    <3>1. PICK i \in 1..n : key = RowKey(pending[t][i])
      BY <2>2
    <3>2. L + i \in 1..(L + n)
      BY <1>2
    <3>3. L + i \in 1..Len(output'[t]) /\ output'[t][L + i] = pending[t][i]
      BY <1>3, <3>2
    <3> QED
      BY <1>1, <3>1, <3>3 DEF Delivered, Elements, RowKey
  <2>3. ASSUME NEW key \in Delivered', key \notin Delivered PROVE key \in K
    <3>1. PICK u \in Threads : \E i \in 1..Len(output'[u]) : key = RowKey(output'[u][i])
      BY <1>1, <2>3 DEF Delivered, Elements, RowKey
    <3>2. PICK i \in 1..Len(output'[u]) : key = RowKey(output'[u][i])
      BY <3>1
    <3>3. u = t /\ i \notin 1..L
      <4>1. \A v \in Threads : \A k \in 1..Len(output[v]) : key # RowKey(output[v][k])
        BY <1>1, <2>3, InDelivered
      <4>2. u = t
        BY <1>4, <3>2, <4>1
      <4> QED
        BY <1>3, <3>2, <4>1, <4>2 DEF L
    <3>4. i \in 1..(L + n)
      BY <1>3, <3>3
    <3>5. i - L \in 1..n /\ i = L + (i - L)
      BY <1>2, <3>3, <3>4
    <3>6. output'[t][i] = pending[t][i - L]
      BY <1>3, <3>5
    <3> QED
      BY <3>2, <3>3, <3>5, <3>6
  <2> HIDE DEF K
  <2> QED
    BY <2>1, <2>2, <2>3
<1>8. Delivered \cap K = {}
  <2> SUFFICES ASSUME NEW key \in Delivered, NEW i \in 1..n, key = RowKey(pending[t][i])
               PROVE  FALSE
    OBVIOUS
  <2>1. PICK u \in Threads : \E j \in 1..Len(output[u]) : key = RowKey(output[u][j])
    BY <1>1, InDelivered
  <2>2. PICK j \in 1..Len(output[u]) : key = RowKey(output[u][j])
    BY <2>1
  <2>3. j \in 1..Len(Made(u)) /\ Made(u)[j] = output[u][j]
    BY <1>1, OutputIsMade
  <2>4. RowKey(Made(t)[L + i]) = RowKey(Made(u)[j])
    BY <1>6, <2>2, <2>3
  <2>5. t = u /\ L + i = j
    BY <1>1, <1>6, <2>3, <2>4, MadeOnce
  <2> QED
    BY <1>6, <2>2, <2>5 DEF L
<1>9. IsFiniteSet(K) /\ Cardinality(K) = n
  <2>1. f \in [1..n -> K] /\ \A i \in 1..n : f[i] = RowKey(pending[t][i])
    OBVIOUS
  <2> HIDE DEF f
  <2>2. \A y \in K : \E i \in 1..n : f[i] = y
    BY <2>1
  <2>3. ASSUME NEW i \in 1..n, NEW j \in 1..n, f[i] = f[j] PROVE i = j
    <3>1. RowKey(Made(t)[L + i]) = RowKey(Made(t)[L + j])
      BY <1>6, <2>1, <2>3
    <3>2. L + i = L + j
      BY <1>1, <1>6, <3>1, MadeOnce
    <3> QED
      BY <1>2, <3>2
  <2>4. f \in Bijection(1..n, K)
    BY <2>1, <2>2, <2>3, Fun_IsBij
  <2> HIDE DEF K
  <2> QED
    BY <1>2, <2>4, Grown
<1>10. Delivered \cup K \subseteq OwedRows
  <2>1. ASSUME NEW u \in Threads, NEW i \in 1..Len(Made(u)) PROVE RowKey(Made(u)[i]) \in OwedRows
    <3>1. Owed(Made(u)[i])
      BY <1>1 DEF RowsInv
    <3> QED
      BY <3>1 DEF Owed, OwedRows, RowKey
  <2>2. ASSUME NEW key \in Delivered PROVE key \in OwedRows
    <3>1. PICK u \in Threads : \E j \in 1..Len(output[u]) : key = RowKey(output[u][j])
      BY <1>1, InDelivered
    <3>2. PICK j \in 1..Len(output[u]) : key = RowKey(output[u][j])
      BY <3>1
    <3>3. j \in 1..Len(Made(u)) /\ Made(u)[j] = output[u][j]
      BY <1>1, OutputIsMade
    <3> QED
      BY <2>1, <3>2, <3>3
  <2>3. ASSUME NEW key \in K PROVE key \in OwedRows
    <3>1. PICK i \in 1..n : key = RowKey(pending[t][i])
      BY <2>3
    <3> QED
      BY <1>6, <2>1, <3>1
  <2> QED
    BY <2>2, <2>3
<1> HIDE DEF K
<1>11. Delivered' \ Delivered = K
  BY <1>7, <1>8
<1> QED
  BY <1>7, <1>9, <1>10, <1>11 DEF n

\* A scan that ended without an error has delivered every row, and had no
\* reason to fail.
LEMMA Completed == ScanInv /\ AllStopped /\ ~failed => ~MustFail /\ Delivered = OwedRows
<1> SUFFICES ASSUME ScanInv, AllStopped, ~failed PROVE ~MustFail /\ Delivered = OwedRows
  OBVIOUS
<1>1. /\ TypeOK /\ RowsInv /\ Settled = AllRecords
      /\ \A t \in Threads : pending[t] = <<>>
      /\ \A f \in 1..Len(paths) : paths[f].opens
      /\ output \in [Threads -> Seq(Rows)] /\ DOMAIN paths = 1..Len(paths)
  <2>1. TypeOK /\ RowsInv
    BY DEF ScanInv, OrderInv, IndInv
  <2>2. output \in [Threads -> Seq(Rows)] /\ paths \in Seq(Files)
    BY <2>1, Glob DEF TypeOK
  <2> QED
    BY <2>1, <2>2, NothingLeft
<1>2. \A raw \in AllRecords : SettledOK(raw)
  BY <1>1 DEF RowsInv
<1>3. ~MustFail
  BY <1>1, <1>2 DEF MustFail, SettledOK, SkipsErrors
<1>4. ASSUME NEW t \in Threads
      PROVE  Len(Made(t)) = Len(output[t]) /\ \A i \in 1..Len(output[t]) : Made(t)[i] = output[t][i]
  <2>1. Len(pending[t]) = 0
    BY <1>1
  <2>2. /\ Len(Made(t)) = Len(output[t]) + Len(pending[t]) /\ Len(output[t]) \in Nat
        /\ \A i \in 1..Len(output[t]) : Made(t)[i] = output[t][i]
    BY <1>1, MadeType
  <2> QED
    BY <2>1, <2>2
<1>5. ASSUME NEW key \in OwedRows PROVE key \in Delivered
  <2>1. PICK raw \in AllRecords : key \in {[raw |-> raw, row |-> k] : k \in 1..RowCount(RecordOf(raw))}
    BY <1>5 DEF OwedRows
  <2>2. PICK k \in 1..RowCount(RecordOf(raw)) : key = [raw |-> raw, row |-> k]
    BY <2>1
  <2>3. MadeSomewhere(raw, k)
    BY <1>2 DEF SettledOK
  <2>4. PICK t \in Threads : \E i \in 1..Len(Made(t)) : Made(t)[i].raw = raw /\ Made(t)[i].row = k
    BY <2>3 DEF MadeSomewhere
  <2>5. PICK i \in 1..Len(Made(t)) : Made(t)[i].raw = raw /\ Made(t)[i].row = k
    BY <2>4
  <2>6. i \in 1..Len(output[t]) /\ key = RowKey(output[t][i])
    BY <1>4, <2>2, <2>5 DEF RowKey
  <2> QED
    BY <1>1, <2>6, InDelivered
<1>6. ASSUME NEW key \in Delivered PROVE key \in OwedRows
  <2>1. PICK t \in Threads : \E i \in 1..Len(output[t]) : key = RowKey(output[t][i])
    BY <1>1, InDelivered
  <2>2. PICK i \in 1..Len(output[t]) : key = RowKey(output[t][i])
    BY <2>1
  <2>3. Owed(Made(t)[i]) /\ key = RowKey(Made(t)[i])
    BY <1>1, <1>4, <2>2 DEF RowsInv
  <2> QED
    BY <2>3 DEF Owed, OwedRows, RowKey
<1> QED
  BY <1>3, <1>5, <1>6

\* The same of the state after a step.
LEMMA CompletedNext ==
  ScanInv' /\ AllStopped' /\ ~failed' => ~MustFail' /\ Delivered' = OwedRows'
<1>1. (ScanInv /\ AllStopped /\ ~failed => ~MustFail /\ Delivered = OwedRows)'
  BY Completed, PTL
<1> QED
  BY <1>1

\* The instance speaks of the same sets and numbers.
LEMMA SameNotions ==
  /\ \A S : Abstract!IsFiniteSet(S) <=> IsFiniteSet(S)
  /\ \A S : Abstract!Cardinality(S) = Cardinality(S)
<1>1. \A S : Abstract!IsFiniteSet(S) <=> IsFiniteSet(S)
  BY DEF Abstract!IsFiniteSet, IsFiniteSet
<1>2. \A S : Abstract!Cardinality(S) = Cardinality(S)
  BY DEF Abstract!Cardinality, Cardinality
<1> QED
  BY <1>1, <1>2

\* An error ends the scan only when there is reason for one.
LEMMA FailsRightly ==
  ASSUME ScanInv, NEW t \in Threads, Step(t), ~failed, failed'
  PROVE  MustFail
<1>1. FillOpenThrows(t) \/ (ParseThrows(t) /\ ~SkipsErrors)
  BY DEF Step, Fill, ScanClaimBatch, LockIo, FillExhausted, FillOpen, FillNextRaw, FillEndOfFile,
     FillNumber, FillReturn, CallScan, ScanFull, NextRaw, ParseAndCount, ClassifyAndPush,
     ParseThrows, Emit, Interrupt, engineVars
<1>2. CASE FillOpenThrows(t)
  <2>1. paths \in Seq(Files) /\ Len(paths) \in Nat /\ current_path \in 0..Len(paths)
    BY Glob DEF ScanInv, OrderInv, IndInv, TypeOK
  <2>2. current_path < Len(paths) /\ ~paths[current_path + 1].opens
    BY <1>2 DEF FillOpenThrows
  <2>3. current_path + 1 \in DOMAIN paths
    BY <2>1, <2>2
  <2> QED
    BY <2>2, <2>3 DEF MustFail
<1>3. CASE ParseThrows(t) /\ ~SkipsErrors
  <2>1. pc[t] = "parse" /\ ~RecordOf(Current(t).raw).ok
    BY <1>3 DEF ParseThrows
  <2>2. Current(t).raw \in AllRecords
    BY <2>1, CurrentWaits DEF ScanInv
  <2> QED
    BY <1>3, <2>1, <2>2 DEF MustFail, SkipsErrors
<1> QED
  BY <1>1, <1>2, <1>3

\* Every step of the scan is a step of RecordScan or changes nothing there.
LEMMA StepRefines ==
  ASSUME ScanInv, ScanInv', NEW t \in Threads, Step(t)
  PROVE  [Abstract!Next]_(Abstract!vars)
<1>1. /\ TypeOK /\ StepKeeps(t) /\ pc[t] \notin Stopped /\ paths' = paths /\ bind' = bind
      /\ failed => failed'
  BY StepFrame DEF ScanInv, OrderInv, IndInv, StepKeeps
<1>2. OwedRows' = OwedRows /\ MustFail' = MustFail
  BY <1>1 DEF OwedRows, AllRecords, RowCount, RecordOf, MustFail
<1>3. ~AllStopped
  BY <1>1 DEF AllStopped
<1>4. CASE Emit(t) /\ ChunkLen(t) # 0
  <2>1. pc'[t] = "ready" /\ failed' = failed
    BY <1>1, <1>4, EmitRows DEF Emit, Goto, TypeOK
  <2>2. Status' = Status /\ Status # "complete"
    BY <1>3, <2>1 DEF Status, AllStopped, Stopped
  <2>3. /\ Delivered \subseteq Delivered' /\ Delivered' \subseteq OwedRows
        /\ Cardinality(Delivered' \ Delivered) = ChunkLen(t)
    BY <1>4, Delivers DEF ScanInv
  <2>4. Emitted' = Emitted + Cardinality(Delivered' \ Delivered)
    BY <1>1, <1>4, <2>3, EmitGrows DEF Emitted, EmittedSet, ScanInv
  <2>5. Delivered' # Delivered
    <3>1. ASSUME Delivered' = Delivered PROVE FALSE
      <4>1. Delivered' \ Delivered = {}
        BY <3>1
      <4> QED
        BY <1>4, <2>3, <4>1, FS_EmptySet
    <3> QED
      BY <3>1
  <2>6. Abstract!Deliver
    BY <1>2, <2>2, <2>3, <2>4, <2>5, SameNotions DEF Abstract!Deliver
  <2> QED
    BY <2>6 DEF Abstract!Next
<1>5. CASE ~(Emit(t) /\ ChunkLen(t) # 0)
  <2>1. Delivered' = Delivered /\ Emitted' = Emitted
    <3>1. CASE Emit(t)
      <4>1. /\ Delivered \subseteq Delivered' /\ ChunkLen(t) = 0
            /\ IsFiniteSet(Delivered' \ Delivered)
            /\ Cardinality(Delivered' \ Delivered) = 0
        BY <1>5, <3>1, Delivers DEF ScanInv
      <4>2. Delivered' = Delivered
        BY <4>1, FS_EmptySet
      <4>3. Cardinality(EmittedSet') = Cardinality(EmittedSet) + 0 /\ Cardinality(EmittedSet) \in Nat
        BY <1>1, <3>1, <4>1, EmitGrows, FS_CardinalityType DEF ScanInv
      <4>4. Cardinality(EmittedSet') = Cardinality(EmittedSet)
        BY <4>3
      <4> QED
        BY <4>2, <4>4 DEF Emitted, EmittedSet
    <3>2. CASE ~Emit(t)
      <4>1. output' = output
        BY <3>2, QuietScan, QuietFillBatch, ParseCounts, ClassifyCounts, ThrowCounts DEF Step
      <4> QED
        BY <4>1 DEF Delivered, Emitted
    <3> QED
      BY <3>1, <3>2
  <2>2. CASE failed
    <3>1. Status = "failed" /\ Status' = "failed"
      BY <1>1, <2>2 DEF Status
    <3> QED
      BY <1>2, <2>1, <3>1 DEF Abstract!vars
  <2>3. CASE ~failed /\ failed'
    <3>1. Status = "running" /\ Status' = "failed"
      BY <1>3, <2>3 DEF Status
    <3>2. MustFail
      BY <2>3, FailsRightly
    <3>3. Abstract!Fail
      BY <1>2, <2>1, <3>1, <3>2 DEF Abstract!Fail
    <3> QED
      BY <3>3 DEF Abstract!Next
  <2>4. CASE ~failed /\ ~failed' /\ AllStopped'
    <3>1. Status = "running" /\ Status' = "complete"
      BY <1>3, <2>4 DEF Status
    <3>2. ~MustFail' /\ Delivered' = OwedRows'
      BY <2>4, CompletedNext
    <3>3. Abstract!Complete
      BY <1>2, <2>1, <3>1, <3>2 DEF Abstract!Complete
    <3> QED
      BY <3>3 DEF Abstract!Next
  <2>5. CASE ~failed /\ ~failed' /\ ~AllStopped'
    <3>1. Status = "running" /\ Status' = "running"
      BY <1>3, <2>5 DEF Status
    <3> QED
      BY <1>2, <2>1, <3>1 DEF Abstract!vars
  <2> QED
    BY <2>2, <2>3, <2>4, <2>5
<1> QED
  BY <1>4, <1>5

\* However the threads interleave, the scan implements RecordScan: every row
\* of the glob is delivered exactly once, and the scan ends without an error
\* only when all of them were and nothing had to fail.
THEOREM Refinement == Spec => ExactlyOnce
<1>1. Init => Abstract!Init
  <2> SUFFICES ASSUME Init PROVE Abstract!Init
    OBVIOUS
  <2>1. TypeOK /\ EmittedSet = {}
    BY InitIndInv DEF IndInv, Init, EmittedSet
  <2>2. IsFiniteSet(OwedRows)
    BY <2>1, FiniteOwed
  <2>3. Delivered = {}
    BY DEF Init, Delivered, Elements
  <2>4. Emitted = 0
    BY <2>1, FS_EmptySet DEF Emitted, EmittedSet
  <2>5. Status = "running"
    BY ScanAssumption DEF Init, Status, AllStopped, Stopped
  <2>6. MustFail \in BOOLEAN
    BY DEF MustFail
  <2> QED
    BY <2>2, <2>3, <2>4, <2>5, <2>6, SameNotions DEF Abstract!Init
<1>2. ScanInv /\ ScanInv' /\ [Next]_vars => [Abstract!Next]_(Abstract!vars)
  <2> SUFFICES ASSUME ScanInv, ScanInv', [Next]_vars
               PROVE  [Abstract!Next]_(Abstract!vars)
    OBVIOUS
  <2>1. CASE \E t \in Threads : Step(t)
    BY <2>1, StepRefines
  <2>2. CASE UNCHANGED vars
    BY <2>2 DEF vars, globalVars, engineVars, Abstract!vars, OwedRows, AllRecords, RowCount,
       RecordOf, MustFail, Delivered, Emitted, Status, AllStopped
  <2> QED
    BY <2>1, <2>2 DEF Next, Terminated
<1> QED
  BY <1>1, <1>2, ScanInductive, PTL DEF Spec, ExactlyOnce, Abstract!Spec
=============================================================================
