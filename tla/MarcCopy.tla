------------------------------ MODULE MarcCopy ------------------------------
(***************************************************************************)
(* COPY ... TO (FORMAT marc | marcxml | mrk | marcjson): the sink of       *)
(* src/marc_copy.cpp.  Every call of the sink serialises one chunk into a  *)
(* buffer of its own and then writes the buffer under the lock of the      *)
(* shared file; the file begins and ends with a wrapper in MARCXML.        *)
(*                                                                         *)
(* A serialised row is two pieces, so that a half-written row can be seen; *)
(* which records cannot be serialised is part of the input.                *)
(***************************************************************************)
EXTENDS Integers, Sequences

CONSTANTS
  Threads,    \* the threads that call the sink
  NoThread,   \* the lock is free
  Formats,    \* subset of {"marcxml", "marc"}; only MARCXML has a wrapper
  Works       \* what the threads are given: sequences of chunks

\* The rows of one chunk: which of them the writer rejects.
Chunks == Seq([ok : BOOLEAN])

ASSUME CopyAssumption ==
  /\ NoThread \notin Threads
  /\ Formats \subseteq {"marcxml", "marc"}
  /\ Works \subseteq [Threads -> Seq(Chunks)]

VARIABLES
  work, format,        \* the input and the bound format
  pc, at, buffer,      \* per thread: its place in the sink, its chunk, its buffer
  lock,                \* MarcCopyGlobalState::lock
  file,                \* the pieces in the file
  stage                \* the engine: "init", "sink", "done", "failed"

vars == <<work, format, pc, at, buffer, lock, file, stage>>

Header == [kind |-> "header"]
Footer == [kind |-> "footer"]
Piece(t, c, r, p) == [kind |-> "row", thread |-> t, chunk |-> c, row |-> r, part |-> p]

Init ==
  /\ work \in Works
  /\ format \in Formats
  /\ pc = [t \in Threads |-> "idle"]
  /\ at = [t \in Threads |-> 0]
  /\ buffer = [t \in Threads |-> <<>>]
  /\ lock = NoThread
  /\ file = <<>>
  /\ stage = "init"

\* MarcCopyInitGlobal creates the file and writes the MARCXML header.
InitGlobal ==
  /\ stage = "init"
  /\ file' = IF format = "marcxml" THEN <<Header>> ELSE <<>>
  /\ stage' = "sink"
  /\ UNCHANGED <<work, format, pc, at, buffer, lock>>

InitGlobalFails ==
  /\ stage = "init"
  /\ stage' = "failed"
  /\ UNCHANGED <<work, format, pc, at, buffer, lock, file>>

Rows(t, c) == 1..Len(work[t][c])

\* Mutant: only the first record of a chunk is checked.
SerialisableFirst(t, c) == work[t][c] = <<>> \/ work[t][c][1].ok

\* The writer accepts every record of the chunk.
Serialisable(t, c) == \A r \in Rows(t, c) : work[t][c][r].ok

\* What one chunk puts into its buffer: its rows one after the other.
Serialised(t, c) ==
  [i \in 1..(2 * Len(work[t][c])) |-> Piece(t, c, (i + 1) \div 2, (i + 1) % 2)]

\* The sink is called with the thread's next chunk and serialises it.  A
\* rejected record throws before anything is written.
SinkSerialises(t) ==
  LET c == at[t] + 1 IN
  /\ stage = "sink"
  /\ pc[t] = "idle"
  /\ c <= Len(work[t])
  /\ at' = [at EXCEPT ![t] = c]
  /\ IF Serialisable(t, c)
     THEN /\ pc' = [pc EXCEPT ![t] = "lock"]
          /\ buffer' = [buffer EXCEPT ![t] = Serialised(t, c)]
          /\ UNCHANGED stage
     ELSE /\ pc' = [pc EXCEPT ![t] = "threw"]
          /\ stage' = "failed"
          /\ UNCHANGED buffer
  /\ UNCHANGED <<work, format, lock, file>>

\* Mutant: the write is not guarded by the lock.
LockFileUnguarded(t) ==
  /\ pc[t] = "lock"
  /\ lock' = t
  /\ pc' = [pc EXCEPT ![t] = "write"]
  /\ UNCHANGED <<work, format, at, buffer, file, stage>>

LockFile(t) ==
  /\ pc[t] = "lock"
  /\ lock = NoThread
  /\ lock' = t
  /\ pc' = [pc EXCEPT ![t] = "write"]
  /\ UNCHANGED <<work, format, at, buffer, file, stage>>

\* The file system writes the buffer piece by piece.
WritePiece(t) ==
  /\ pc[t] = "write"
  /\ buffer[t] # <<>>
  /\ file' = Append(file, Head(buffer[t]))
  /\ buffer' = [buffer EXCEPT ![t] = Tail(@)]
  /\ UNCHANGED <<work, format, pc, at, lock, stage>>

\* The whole buffer is written: the guard unlocks and the sink returns.
SinkReturns(t) ==
  /\ pc[t] = "write"
  /\ buffer[t] = <<>>
  /\ lock' = NoThread
  /\ pc' = [pc EXCEPT ![t] = "idle"]
  /\ UNCHANGED <<work, format, at, buffer, file, stage>>

\* Mutant: the lock outlives a failed write.
WriteThrowsLocked(t) ==
  /\ pc[t] = "write"
  /\ buffer[t] # <<>>
  /\ pc' = [pc EXCEPT ![t] = "threw"]
  /\ stage' = "failed"
  /\ buffer' = [buffer EXCEPT ![t] = <<>>]
  /\ UNCHANGED <<work, format, at, lock, file>>

\* The write throws part of the way; the guard unlocks.
WriteThrows(t) ==
  /\ pc[t] = "write"
  /\ buffer[t] # <<>>
  /\ lock' = NoThread
  /\ pc' = [pc EXCEPT ![t] = "threw"]
  /\ stage' = "failed"
  /\ buffer' = [buffer EXCEPT ![t] = <<>>]
  /\ UNCHANGED <<work, format, at, file>>

\* The engine finalizes when every thread has had its last chunk written.
AllSunk == \A t \in Threads : pc[t] = "idle" /\ at[t] = Len(work[t])

\* Mutant: the footer is written in every format.
FooterOfAnyFormat == <<Footer>>

FooterPieces == IF format = "marcxml" THEN <<Footer>> ELSE <<>>

Finalize ==
  /\ stage = "sink"
  /\ AllSunk
  /\ file' = file \o FooterPieces
  /\ stage' = "done"
  /\ UNCHANGED <<work, format, pc, at, buffer, lock>>

\* Writing the footer throws, or the Sync behind it does.
FinalizeFails ==
  /\ stage = "sink"
  /\ AllSunk
  /\ file' \in {file, file \o FooterPieces}
  /\ stage' = "failed"
  /\ UNCHANGED <<work, format, pc, at, buffer, lock>>

Step(t) ==
  \/ SinkSerialises(t) \/ LockFile(t) \/ WritePiece(t)
  \/ SinkReturns(t) \/ WriteThrows(t)

\* A failed query lets the calls under way come to their end.
Quiet ==
  /\ stage \in {"done", "failed"}
  /\ \A t \in Threads : pc[t] \in {"idle", "threw"}

Terminated == Quiet /\ UNCHANGED vars

Next ==
  \/ InitGlobal \/ InitGlobalFails
  \/ \E t \in Threads : Step(t)
  \/ Finalize \/ FinalizeFails \/ Terminated

Spec == Init /\ [][Next]_vars

\* The engine drives every stage on, and a free lock goes to a waiting
\* thread at last.
FairSpec ==
  /\ Spec
  /\ WF_vars(InitGlobal \/ Finalize)
  /\ \A t \in Threads : WF_vars(Step(t))

-----------------------------------------------------------------------------
(***************************************************************************)
(* Correctness.                                                            *)
(***************************************************************************)

Of(piece, t, c) == piece.kind = "row" /\ piece.thread = t /\ piece.chunk = c

\* The chunk stands in the file as a whole, in one place and nowhere else.
Written(t, c) ==
  LET pieces == Serialised(t, c) IN
  \E n \in 0..Len(file) :
    /\ n + Len(pieces) <= Len(file)
    /\ \A k \in 1..Len(pieces) : file[n + k] = pieces[k]
    /\ \A i \in 1..Len(file) : Of(file[i], t, c) => i \in n + 1..n + Len(pieces)

\* Nothing of the chunk is in the file.
Absent(t, c) == \A i \in 1..Len(file) : ~Of(file[i], t, c)

ChunksOf(t) == 1..Len(work[t])

\* A write of the chunk was cut short.
CutShort(t, c) == pc[t] = "threw" /\ at[t] = c

\* "Chunks are contiguous": behind a piece of a chunk stands the next piece
\* of the same chunk, unless it was its last one or its write was cut short.
ChunksContiguous ==
  \A i \in 1..(Len(file) - 1) :
    LET p == file[i] IN
    p.kind = "row" =>
      \/ p = Serialised(p.thread, p.chunk)[2 * Len(work[p.thread][p.chunk])]
      \/ \E k \in 1..(2 * Len(work[p.thread][p.chunk]) - 1) :
           /\ p = Serialised(p.thread, p.chunk)[k]
           /\ file[i + 1] = Serialised(p.thread, p.chunk)[k + 1]
      \/ CutShort(p.thread, p.chunk)

\* A COPY that ends without an error has written every row it was given
\* exactly once, and a MARCXML file has its footer only behind all of them: a
\* file that was cut short cannot be taken for a whole one.
CompleteWhenDone ==
  LET everything == \A t \in Threads : \A c \in ChunksOf(t) : Written(t, c)
      closed == file # <<>> /\ file[Len(file)] = Footer IN
  /\ stage = "done" => everything /\ (closed <=> format = "marcxml")
  /\ \A i \in DOMAIN file :
       /\ file[i] = Header <=> format = "marcxml" /\ i = 1
       /\ file[i] = Footer => i = Len(file) /\ everything

\* A chunk with a record the writer rejects leaves nothing in the file, not
\* even the records before it, and the COPY does not succeed.
RejectedLeavesNoTrace ==
  \A t \in Threads : \A c \in ChunksOf(t) :
    (\E r \in Rows(t, c) : ~work[t][c][r].ok) =>
      Absent(t, c) /\ stage # "done"

\* Every COPY comes to an end.
CopyEnds == <>Quiet

(***************************************************************************)
(* The inductive invariant behind these.                                   *)
(***************************************************************************)

RowPieces == [kind : {"row"}, thread : Threads, chunk : Nat, row : Nat, part : Nat]
Pieces == RowPieces \cup {Header, Footer}

\* Every variable holds a value of its kind.
TypeOK ==
  /\ work \in Works
  /\ format \in Formats
  /\ pc \in [Threads -> {"idle", "lock", "write", "threw"}]
  /\ at \in [Threads -> Nat]
  /\ buffer \in [Threads -> Seq(Pieces)]
  /\ lock \in Threads \cup {NoThread}
  /\ file \in Seq(Pieces)
  /\ stage \in {"init", "sink", "done", "failed"}

\* The lock is held exactly by the thread that writes.
LockHeld == \A t \in Threads : pc[t] = "write" <=> lock = t

\* What the thread has written of its chunk is the end of the file, and the
\* buffer holds the rest.
PartWritten(t) ==
  LET pieces == Serialised(t, at[t])
      n == Len(pieces) - Len(buffer[t]) IN
  /\ n \in 0..Len(file)
  /\ \A k \in 1..n : file[Len(file) - n + k] = pieces[k]
  /\ \A k \in 1..Len(buffer[t]) : buffer[t][k] = pieces[n + k]
  /\ \A i \in 1..(Len(file) - n) : ~Of(file[i], t, at[t])

\* A thread's chunks are in the file up to the one it works on; a chunk that
\* was rejected ends its work.
ThreadOK(t) ==
  /\ at[t] \in 0..Len(work[t])
  /\ \A c \in 1..at[t] :
       /\ Serialisable(t, c) \/ (pc[t] = "threw" /\ Absent(t, c))
       /\ c < at[t] \/ pc[t] = "idle" => Written(t, c)
  /\ pc[t] \in {"lock", "write"} => at[t] # 0 /\ Serialisable(t, at[t]) /\ PartWritten(t)
  /\ pc[t] = "lock" => buffer[t] = Serialised(t, at[t])
  /\ pc[t] \in {"idle", "threw"} => buffer[t] = <<>>

\* Whatever comes behind it, a row's piece is the last of its chunk, or is
\* followed by the next one, or a write was cut short or goes on behind it.
PieceOK(i) ==
  LET p == file[i]
      pieces == Serialised(p.thread, p.chunk) IN
  p.kind = "row" =>
    /\ p.chunk \in 1..at[p.thread]
    /\ \/ p = pieces[Len(pieces)]
       \/ /\ i < Len(file)
          /\ \E k \in 1..(Len(pieces) - 1) : p = pieces[k] /\ file[i + 1] = pieces[k + 1]
       \/ CutShort(p.thread, p.chunk)
       \/ i = Len(file) /\ pc[p.thread] = "write" /\ at[p.thread] = p.chunk

\* The header stands first, the footer last and only behind all chunks.
WrapperOK ==
  /\ stage = "init" => file = <<>> /\ \A t \in Threads : pc[t] = "idle" /\ at[t] = 0
  /\ file = <<>> /\ format = "marcxml" =>
       stage \in {"init", "failed"} /\ \A t \in Threads : pc[t] \in {"idle", "threw"}
  /\ \A i \in 1..Len(file) :
       /\ file[i] = Header <=> format = "marcxml" /\ i = 1
       /\ file[i] = Footer =>
            i = Len(file) /\ format = "marcxml" /\ AllSunk /\ stage \in {"done", "failed"}
  /\ stage = "done" =>
       AllSunk /\ (format = "marcxml" => file # <<>> /\ file[Len(file)] = Footer)

IndInv ==
  /\ TypeOK
  /\ LockHeld
  /\ \A t \in Threads : ThreadOK(t)
  /\ \A i \in 1..Len(file) : PieceOK(i)
  /\ WrapperOK
=============================================================================
