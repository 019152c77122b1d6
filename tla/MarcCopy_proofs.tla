-------------------------- MODULE MarcCopy_proofs --------------------------
(***************************************************************************)
(* Proofs about MarcCopy, for any number of threads, any chunks and        *)
(* either format.                                                          *)
(***************************************************************************)
EXTENDS MarcCopy, TLAPS

-----------------------------------------------------------------------------
(* A serialised chunk is a sequence of pieces that say whose they are.      *)
LEMMA SerialisedPieces ==
  ASSUME work \in Works, NEW t \in Threads, NEW c \in 1..Len(work[t])
  PROVE  /\ Len(work[t]) \in Nat
         /\ Serialised(t, c) \in Seq(RowPieces)
         /\ Len(Serialised(t, c)) = 2 * Len(work[t][c])
         /\ Len(Serialised(t, c)) \in Nat
         /\ \A k \in 1..Len(Serialised(t, c)) :
              Serialised(t, c)[k] \in RowPieces /\ Of(Serialised(t, c)[k], t, c)
<1>1. work[t] \in Seq(Chunks)
  BY CopyAssumption
<1>2. work[t][c] \in Chunks /\ c \in Nat /\ Len(work[t]) \in Nat
  BY <1>1
<1>3. Len(work[t][c]) \in Nat
  BY <1>2 DEF Chunks
<1> DEFINE n == 2 * Len(work[t][c])
           e(i) == Piece(t, c, (i + 1) \div 2, (i + 1) % 2)
<1>4. n \in Nat
  BY <1>3
<1> HIDE DEF n
<1>5. \A i \in 1..n : e(i) \in RowPieces /\ Of(e(i), t, c)
  BY <1>2, <1>4 DEF Piece, RowPieces, Of
<1> HIDE DEF e
<1>6. Serialised(t, c) = [i \in 1..n |-> e(i)]
  BY DEF Serialised, n, e
<1>7. /\ Serialised(t, c) \in Seq(RowPieces)
      /\ Len(Serialised(t, c)) = n
      /\ \A i \in 1..n : Serialised(t, c)[i] = e(i)
  BY <1>4, <1>5, <1>6
<1> QED
  BY <1>2, <1>4, <1>5, <1>7 DEF n

-----------------------------------------------------------------------------
(* What a step does not touch stays right.                                 *)
LEMMA ThreadFrame ==
  ASSUME NEW u \in Threads, ThreadOK(u), UNCHANGED <<work, file>>,
         at'[u] = at[u], pc'[u] = pc[u], buffer'[u] = buffer[u]
  PROVE  ThreadOK(u)'
<1>1. ASSUME NEW c
      PROVE  /\ Serialised(u, c)' = Serialised(u, c)
             /\ Serialisable(u, c)' <=> Serialisable(u, c)
             /\ Written(u, c)' <=> Written(u, c)
             /\ Absent(u, c)' <=> Absent(u, c)
  BY DEF Serialised, Serialisable, Rows, Written, Absent, Of
<1>2. PartWritten(u)' <=> PartWritten(u)
  BY DEF PartWritten, Of, Serialised
<1> QED
  BY <1>1, <1>2 DEF ThreadOK

\* A chunk that is in the file stays there when something else is appended.
LEMMA WrittenFrame ==
  ASSUME TypeOK, NEW u \in Threads, NEW c \in 1..Len(work[u]), NEW h \in Pieces,
         file' = Append(file, h), work' = work, ~Of(h, u, c), Written(u, c)
  PROVE  Written(u, c)'
<1> DEFINE pieces == Serialised(u, c)
<1>1. PICK n \in 0..Len(file) :
        /\ n + Len(pieces) <= Len(file)
        /\ \A k \in 1..Len(pieces) : file[n + k] = pieces[k]
        /\ \A i \in 1..Len(file) : Of(file[i], u, c) => i \in n + 1..n + Len(pieces)
  BY DEF Written
<1>2. /\ Len(file) \in Nat
      /\ Len(file') = Len(file) + 1
      /\ \A i \in 1..Len(file) : file'[i] = file[i]
      /\ file'[Len(file) + 1] = h
  BY DEF TypeOK
<1>3. Serialised(u, c)' = pieces
  BY DEF Serialised
<1>4. Len(pieces) \in Nat
  BY SerialisedPieces DEF TypeOK
<1> HIDE DEF pieces
<1>5. n \in 0..Len(file') /\ n + Len(pieces) <= Len(file')
  BY <1>1, <1>2, <1>4
<1>6. \A k \in 1..Len(pieces) : file'[n + k] = pieces[k]
  BY <1>1, <1>2, <1>4
<1>7. \A i \in 1..Len(file') : Of(file'[i], u, c) => i \in n + 1..n + Len(pieces)
  BY <1>1, <1>2, <1>4 DEF Of
<1> QED
  BY <1>3, <1>5, <1>6, <1>7 DEF Written, Of

\* A chunk that is absent stays so when a piece of another one is written.
LEMMA AbsentFrame ==
  ASSUME TypeOK, NEW u \in Threads, NEW c, NEW h \in Pieces,
         file' = Append(file, h), ~Of(h, u, c), Absent(u, c)
  PROVE  Absent(u, c)'
BY DEF TypeOK, Absent, Of

\* A piece keeps its place while the file does, and no thread in the middle of
\* a write moves.
LEMMA PieceFrame ==
  ASSUME TypeOK, NEW i \in 1..Len(file), PieceOK(i), UNCHANGED <<work, file>>,
         \A u \in Threads :
           /\ at'[u] \in Nat /\ at[u] <= at'[u]
           /\ pc[u] \in {"write", "threw"} => at'[u] = at[u] /\ pc'[u] = pc[u]
  PROVE  PieceOK(i)'
<1> DEFINE p == file[i]
<1> SUFFICES ASSUME p.kind = "row" PROVE PieceOK(i)'
  BY DEF PieceOK
<1>1. p \in Pieces
  BY DEF TypeOK
<1>2. p \in RowPieces /\ p.thread \in Threads /\ p.chunk \in Nat
  BY <1>1 DEF Pieces, RowPieces, Header, Footer
<1>3. Serialised(p.thread, p.chunk)' = Serialised(p.thread, p.chunk)
  BY DEF Serialised
<1> QED
  BY <1>2, <1>3 DEF PieceOK, CutShort, TypeOK

-----------------------------------------------------------------------------
(* IndInv is inductive: one lemma per action.                              *)

\* Before the file is created.
LEMMA InitIndInv == Init => IndInv
<1> SUFFICES ASSUME Init PROVE IndInv
  OBVIOUS
<1> USE DEF Init
<1>1. TypeOK
  BY DEF TypeOK
<1>2. LockHeld
  BY CopyAssumption DEF LockHeld
<1>3. ASSUME NEW t \in Threads PROVE ThreadOK(t)
  <2>1. Len(work[t]) \in Nat
    BY CopyAssumption
  <2> QED
    BY <2>1 DEF ThreadOK
<1>4. WrapperOK
  BY DEF WrapperOK
<1> QED
  BY <1>1, <1>2, <1>3, <1>4 DEF IndInv

\* The file is created, with its header.
LEMMA InitGlobalStep == IndInv /\ InitGlobal => IndInv'
<1> SUFFICES ASSUME IndInv, InitGlobal PROVE IndInv'
  OBVIOUS
<1> USE DEF IndInv, InitGlobal
<1>1. file = <<>> /\ \A t \in Threads : pc[t] = "idle" /\ at[t] = 0
  BY DEF WrapperOK
<1>2. file' \in Seq(Pieces) /\ \A i \in 1..Len(file') : file'[i] = Header /\ i = 1
  <2>1. Header \in Pieces
    BY DEF Pieces
  <2>2. <<Header>> \in Seq(Pieces) /\ Len(<<Header>>) = 1 /\ <<Header>>[1] = Header
    BY <2>1
  <2>3. CASE format = "marcxml"
    BY <2>2, <2>3
  <2>4. CASE format # "marcxml"
    BY <2>4
  <2> QED
    BY <2>3, <2>4
<1>3. TypeOK'
  BY <1>2 DEF TypeOK
<1>4. LockHeld'
  BY DEF LockHeld
<1>5. ASSUME NEW t \in Threads PROVE ThreadOK(t)'
  BY <1>1 DEF ThreadOK
<1>6. \A i \in 1..Len(file') : PieceOK(i)'
  BY <1>2 DEF PieceOK, Header
<1>7. WrapperOK'
  <2>1. format' \in {"marcxml", "marc"}
    BY CopyAssumption DEF TypeOK
  <2>2. CASE format = "marcxml"
    BY <2>2, <1>1 DEF WrapperOK, Header, Footer
  <2>3. CASE format # "marcxml"
    BY <2>3, <1>1 DEF WrapperOK
  <2> QED
    BY <2>2, <2>3
<1> QED
  BY <1>3, <1>4, <1>5, <1>6, <1>7

\* The file cannot be created.
LEMMA InitGlobalFailsStep == IndInv /\ InitGlobalFails => IndInv'
<1> SUFFICES ASSUME IndInv, InitGlobalFails PROVE IndInv'
  OBVIOUS
<1> USE DEF IndInv, InitGlobalFails
<1>1. file = <<>> /\ \A t \in Threads : pc[t] = "idle" /\ at[t] = 0
  BY DEF WrapperOK
<1>2. TypeOK' /\ LockHeld'
  BY DEF TypeOK, LockHeld
<1>3. ASSUME NEW t \in Threads PROVE ThreadOK(t)'
  BY ThreadFrame
<1>4. WrapperOK'
  BY <1>1 DEF WrapperOK
<1> QED
  BY <1>1, <1>2, <1>3, <1>4

\* A chunk is serialised, or rejected.
LEMMA SinkSerialisesStep ==
  ASSUME IndInv, NEW t \in Threads, SinkSerialises(t)
  PROVE  IndInv'
<1> DEFINE c == at[t] + 1
<1> USE DEF IndInv, SinkSerialises
<1>1. /\ c \in 1..Len(work[t]) /\ at[t] \in Nat /\ at'[t] = c
      /\ Len(work[t]) \in Nat
      /\ \A u \in Threads : u # t => at'[u] = at[u] /\ pc'[u] = pc[u] /\ buffer'[u] = buffer[u]
  <2>1. Len(work[t]) \in Nat
    BY CopyAssumption DEF TypeOK
  <2> QED
    BY <2>1 DEF TypeOK
<1>2. /\ Serialised(t, c) \in Seq(RowPieces)
      /\ Len(Serialised(t, c)) \in Nat
  BY <1>1, SerialisedPieces DEF TypeOK
<1>3. Absent(t, c)
  <2> SUFFICES ASSUME NEW i \in 1..Len(file), Of(file[i], t, c) PROVE FALSE
    BY DEF Absent
  <2> QED
    BY <1>1 DEF PieceOK, Of
<1>4. TypeOK'
  <2>1. Serialised(t, c) \in Seq(Pieces)
    BY <1>2 DEF Pieces
  <2>2. at' \in [Threads -> Nat] /\ pc' \in [Threads -> {"idle", "lock", "write", "threw"}]
    <3>1. at' = [at EXCEPT ![t] = c] /\ c \in Nat
      BY <1>1
    <3>2. PICK label \in {"lock", "threw"} : pc' = [pc EXCEPT ![t] = label]
      OBVIOUS
    <3> QED
      BY <3>1, <3>2 DEF TypeOK
  <2>3. buffer' \in [Threads -> Seq(Pieces)]
    BY <2>1 DEF TypeOK
  <2>4. stage' \in {"init", "sink", "done", "failed"}
    BY DEF TypeOK
  <2> QED
    BY <2>2, <2>3, <2>4 DEF TypeOK
<1>5. LockHeld'
  BY DEF LockHeld, TypeOK
<1>6. ASSUME NEW u \in Threads PROVE ThreadOK(u)'
  <2>1. CASE u # t
    BY <2>1, <1>1, ThreadFrame
  <2>2. CASE u = t
    <3>1. ASSUME NEW d
          PROVE  /\ Serialised(t, d)' = Serialised(t, d)
                 /\ Serialisable(t, d)' <=> Serialisable(t, d)
                 /\ Written(t, d)' <=> Written(t, d)
                 /\ Absent(t, d)' <=> Absent(t, d)
      BY DEF Serialised, Serialisable, Rows, Written, Absent, Of
    <3>2. \A d \in 1..at[t] : Serialisable(t, d) /\ Written(t, d)
      BY DEF ThreadOK
    <3>3. CASE Serialisable(t, c)
      <4>1. pc'[t] = "lock" /\ buffer'[t] = Serialised(t, c)
        BY <3>3 DEF TypeOK
      <4>2. /\ Serialised(t, at[t])' = Serialised(t, c)
            /\ Serialisable(t, at[t])'
        BY <3>3, <1>1 DEF Serialised, Serialisable, Rows
      <4>3. PartWritten(t)'
        BY <4>1, <4>2, <1>1, <1>2, <1>3 DEF PartWritten, Absent, Of, TypeOK
      <4>4. \A d \in 1..at'[t] : Serialisable(t, d)' /\ (d < at'[t] => Written(t, d)')
        BY <3>1, <3>2, <3>3, <1>1
      <4> QED
        BY <2>2, <4>1, <4>2, <4>3, <4>4, <1>1 DEF ThreadOK
    <3>4. CASE ~Serialisable(t, c)
      <4>1. pc'[t] = "threw" /\ buffer'[t] = <<>>
        BY <3>4 DEF TypeOK, ThreadOK
      <4>2. \A d \in 1..at'[t] : /\ Serialisable(t, d)' \/ Absent(t, d)'
                                 /\ d < at'[t] => Written(t, d)'
        BY <3>1, <3>2, <1>1, <1>3
      <4> QED
        BY <2>2, <4>1, <4>2, <1>1 DEF ThreadOK
    <3> QED
      BY <2>2, <3>3, <3>4
  <2> QED
    BY <2>1, <2>2
<1>7. ASSUME NEW i \in 1..Len(file') PROVE PieceOK(i)'
  <2>1. \A u \in Threads : at[u] \in Nat /\ at'[u] \in Nat /\ at[u] <= at'[u]
    BY <1>1 DEF TypeOK
  <2> QED
    BY <2>1, <1>1, PieceFrame
<1>8. WrapperOK'
  BY <1>1 DEF WrapperOK, AllSunk, TypeOK
<1> QED
  BY <1>4, <1>5, <1>6, <1>7, <1>8

\* A thread gets the lock, with its whole chunk still in the buffer.
LEMMA LockFileStep ==
  ASSUME IndInv, NEW t \in Threads, LockFile(t)
  PROVE  IndInv'
<1> USE DEF IndInv, LockFile
<1>1. /\ pc'[t] = "write"
      /\ \A u \in Threads : u # t => pc'[u] = pc[u]
  BY DEF TypeOK
<1>2. TypeOK'
  BY DEF TypeOK
<1>3. LockHeld'
  BY <1>1, CopyAssumption DEF LockHeld
<1>4. ASSUME NEW u \in Threads PROVE ThreadOK(u)'
  <2>1. CASE u # t
    BY <2>1, <1>1, ThreadFrame
  <2>2. CASE u = t
    <3>1. ASSUME NEW d
          PROVE  /\ Serialisable(t, d)' <=> Serialisable(t, d)
                 /\ Written(t, d)' <=> Written(t, d)
      BY DEF Serialised, Serialisable, Rows, Written, Of
    <3>2. /\ PartWritten(t)' <=> PartWritten(t)
          /\ Serialisable(t, at[t])' <=> Serialisable(t, at[t])
      BY DEF PartWritten, Of, Serialised, Serialisable, Rows
    <3>3. \A d \in 1..at'[t] : Serialisable(t, d)' /\ (d < at'[t] => Written(t, d)')
      BY <3>1 DEF ThreadOK
    <3>4. at'[t] \in 0..Len(work'[t]) /\ at'[t] # 0 /\ Serialisable(t, at[t])' /\ PartWritten(t)'
      BY <3>2 DEF ThreadOK
    <3> QED
      BY <2>2, <3>3, <3>4, <1>1 DEF ThreadOK
  <2> QED
    BY <2>1, <2>2
<1>5. ASSUME NEW i \in 1..Len(file') PROVE PieceOK(i)'
  <2>1. \A u \in Threads : at[u] \in Nat
    BY DEF TypeOK
  <2> QED
    BY <2>1, <1>1, PieceFrame
<1>6. WrapperOK'
  BY <1>1 DEF WrapperOK, AllSunk, ThreadOK
<1> QED
  BY <1>2, <1>3, <1>4, <1>5, <1>6

\* What a writing thread writes next: the next piece of its chunk.
LEMMA NextPiece ==
  ASSUME IndInv, NEW t \in Threads, pc[t] = "write", buffer[t] # <<>>
  PROVE  LET pieces == Serialised(t, at[t])
             n == Len(pieces) - Len(buffer[t]) IN
         /\ at[t] \in 1..Len(work[t])
         /\ pieces \in Seq(RowPieces)
         /\ Len(buffer[t]) \in Nat \ {0}
         /\ n \in 0..Len(file) /\ n + 1 \in 1..Len(pieces)
         /\ Head(buffer[t]) = pieces[n + 1]
         /\ Head(buffer[t]) \in RowPieces
         /\ Of(Head(buffer[t]), t, at[t])
<1> DEFINE pieces == Serialised(t, at[t])
           n == Len(pieces) - Len(buffer[t])
<1>1. at[t] \in 1..Len(work[t]) /\ PartWritten(t)
  <2>1. Len(work[t]) \in Nat
    BY CopyAssumption DEF IndInv, TypeOK
  <2> QED
    BY <2>1 DEF IndInv, ThreadOK
<1>2. /\ pieces \in Seq(RowPieces) /\ Len(pieces) \in Nat
      /\ \A k \in 1..Len(pieces) : pieces[k] \in RowPieces /\ Of(pieces[k], t, at[t])
  BY <1>1, SerialisedPieces DEF IndInv, TypeOK
<1>3. /\ buffer[t] \in Seq(Pieces)
      /\ Len(buffer[t]) \in Nat \ {0}
      /\ Head(buffer[t]) = buffer[t][1]
  BY DEF IndInv, TypeOK
<1>4. n \in 0..Len(file) /\ Len(file) \in Nat /\ Head(buffer[t]) = pieces[n + 1]
  BY <1>1, <1>3 DEF PartWritten, IndInv, TypeOK
<1>5. n + 1 \in 1..Len(pieces)
  BY <1>2, <1>3, <1>4
<1> QED
  BY <1>1, <1>2, <1>3, <1>4, <1>5

\* The end of the file grows by a piece, which the buffer loses.
LEMMA WritePieceStep ==
  ASSUME IndInv, NEW t \in Threads, WritePiece(t)
  PROVE  IndInv'
<1> DEFINE pieces == Serialised(t, at[t])
           n == Len(pieces) - Len(buffer[t])
           h == Head(buffer[t])
<1> USE DEF IndInv, WritePiece
<1>1. /\ at[t] \in 1..Len(work[t])
      /\ pieces \in Seq(RowPieces)
      /\ Len(buffer[t]) \in Nat \ {0}
      /\ n \in 0..Len(file) /\ n + 1 \in 1..Len(pieces)
      /\ h = pieces[n + 1]
      /\ h \in RowPieces
      /\ Of(h, t, at[t])
  BY NextPiece
<1>2. /\ h \in Pieces
      /\ Len(file) \in Nat /\ Len(file') = Len(file) + 1
      /\ \A i \in 1..Len(file) : file'[i] = file[i]
      /\ file'[Len(file) + 1] = h
  BY <1>1 DEF Pieces, TypeOK
<1>3. /\ buffer'[t] = Tail(buffer[t])
      /\ Len(buffer'[t]) = Len(buffer[t]) - 1
      /\ \A k \in 1..Len(buffer'[t]) : buffer'[t][k] = buffer[t][k + 1]
      /\ \A u \in Threads : u # t => buffer'[u] = buffer[u]
  <2>1. buffer[t] \in Seq(Pieces) /\ buffer'[t] = Tail(buffer[t])
    BY DEF TypeOK
  <2> QED
    BY <2>1 DEF TypeOK
<1>4. TypeOK'
  BY <1>2 DEF TypeOK
<1>5. LockHeld'
  BY DEF LockHeld
<1>6. ASSUME NEW u \in Threads, NEW d \in 1..Len(work[u]), u # t \/ d # at[t]
      PROVE  /\ Written(u, d) => Written(u, d)'
             /\ Absent(u, d) => Absent(u, d)'
  <2>1. ~Of(h, u, d)
    BY <1>1, <1>6 DEF Of
  <2> QED
    BY <1>2, <2>1, WrittenFrame, AbsentFrame
<1>7. ASSUME NEW u \in Threads PROVE ThreadOK(u)'
  <2>1. /\ at[u] \in 0..Len(work[u]) /\ Len(work[u]) \in Nat
        /\ Serialised(u, at[u])' = Serialised(u, at[u])
        /\ Serialisable(u, at[u])' <=> Serialisable(u, at[u])
    BY CopyAssumption DEF ThreadOK, TypeOK, Serialised, Serialisable, Rows
  <2>2. ASSUME NEW d \in 1..at[u]
        PROVE  Serialisable(u, d)' <=> Serialisable(u, d)
    BY DEF Serialisable, Rows
  <2>3. CASE u # t
    <3>1. pc[u] # "write"
      BY <2>3 DEF LockHeld
    <3>2. ASSUME NEW d \in 1..at[u]
          PROVE  /\ Serialisable(u, d)' \/ (pc'[u] = "threw" /\ Absent(u, d)')
                 /\ d < at'[u] \/ pc'[u] = "idle" => Written(u, d)'
      BY <2>1, <2>2, <2>3, <1>6 DEF ThreadOK
    <3>3. ASSUME pc[u] = "lock"
          PROVE  PartWritten(u)'
      <4>1. PartWritten(u) /\ buffer[u] = Serialised(u, at[u]) /\ at[u] \in 1..Len(work[u])
        BY <3>3, <2>1 DEF ThreadOK
      <4>2. Len(buffer[u]) \in Nat
        BY DEF TypeOK
      <4>3. \A i \in 1..Len(file) : ~Of(file[i], u, at[u])
        BY <4>1, <4>2, <1>2 DEF PartWritten
      <4>4. ~Of(h, u, at[u])
        BY <1>1, <2>3 DEF Of
      <4>5. \A i \in 1..Len(file') : ~Of(file'[i], u, at[u])
        BY <4>3, <4>4, <1>2
      <4> QED
        <5>1. Len(Serialised(u, at[u])) - Len(buffer[u]) = 0
          BY <4>1, <4>2
        <5>2. buffer'[u] = buffer[u] /\ at'[u] = at[u] /\ Len(file') \in Nat
          BY <2>3, <1>2, <1>3
        <5>3. \A k \in 1..Len(buffer[u]) : buffer[u][k] = Serialised(u, at[u])[0 + k]
          BY <4>1, <4>2
        <5> HIDE DEF IndInv, WritePiece
        <5>4. Serialised(u, at[u])' = Serialised(u, at[u])
          BY <2>1
        <5>5. Len(Serialised(u, at[u])') - Len(buffer'[u]) = 0
          BY <5>1, <5>2, <5>4
        <5>6. Len(file') - 0 = Len(file') /\ 0 \in 0..Len(file') /\ 1..0 = {}
          BY <5>2
        <5> QED
          BY <4>5, <5>2, <5>3, <5>4, <5>5, <5>6 DEF PartWritten, Of
    <3> QED
      BY <3>1, <3>2, <3>3, <2>1, <2>3, <1>3 DEF ThreadOK
  <2>4. CASE u = t
    <3>1. ASSUME NEW d \in 1..at[t]
          PROVE  Serialisable(t, d)' /\ (d < at'[t] => Written(t, d)')
      BY <2>1, <2>2, <2>4, <1>6 DEF ThreadOK
    <3>2. PartWritten(t)
      BY DEF ThreadOK
    <3>3. \A i \in 1..(Len(file) - n) : ~Of(file[i], t, at[t])
      BY <3>2 DEF PartWritten
    <3>4. \A k \in 1..n + 1 : file'[Len(file') - (n + 1) + k] = pieces[k]
      <4>1. \A k \in 1..n : file[Len(file) - n + k] = pieces[k]
        BY <3>2 DEF PartWritten
      <4> HIDE DEF pieces, n, h
      <4>2. ASSUME NEW k \in 1..n + 1
            PROVE  file'[Len(file') - (n + 1) + k] = pieces[k]
        <5>1. Len(file') - (n + 1) + k = Len(file) - n + k
          BY <1>1, <1>2
        <5>2. CASE k = n + 1
          BY <5>1, <5>2, <1>1, <1>2
        <5>3. CASE k # n + 1
          BY <5>1, <5>3, <4>1, <1>1, <1>2
        <5> QED
          BY <5>2, <5>3
      <4> QED
        BY <4>2
    <3>5. \A k \in 1..Len(buffer'[t]) : buffer'[t][k] = pieces[n + 1 + k]
      <4>1. \A k \in 1..Len(buffer[t]) : buffer[t][k] = pieces[n + k]
        BY <3>2 DEF PartWritten
      <4> HIDE DEF pieces, n, h
      <4> QED
        BY <4>1, <1>1, <1>3, SMTT(30)
    <3>6. PartWritten(t)'
      <4>1. /\ Len(pieces) - Len(buffer'[t]) = n + 1
            /\ Len(file') - (n + 1) = Len(file) - n
            /\ n + 1 \in 0..Len(file')
        <5>1. Len(pieces) \in Nat
          BY <1>1
        <5>2. Len(file) \in Nat /\ n \in 0..Len(file)
          BY <1>1, <1>2
        <5> HIDE DEF pieces, IndInv, WritePiece, h
        <5>3. Len(pieces) - Len(buffer'[t]) = n + 1
          <6>1. Len(buffer[t]) \in Nat /\ Len(buffer'[t]) = Len(buffer[t]) - 1
            BY <1>1, <1>3
          <6>2. ASSUME NEW a \in Nat, NEW b \in Nat, NEW d, d = b - 1
                PROVE  a - d = (a - b) + 1
            BY <6>2
          <6> QED
            BY <5>1, <6>1, <6>2
        <5> HIDE DEF n
        <5>4. Len(file') - (n + 1) = Len(file) - n
          BY <5>2, <1>2
        <5>5. n + 1 \in 0..Len(file')
          BY <5>2, <1>2
        <5> QED
          BY <5>3, <5>4, <5>5
      <4>2. Serialised(t, at[t])' = pieces
        BY DEF Serialised
      <4>3. \A i \in 1..(Len(file') - (n + 1)) : ~Of(file'[i], t, at[t])
        <5> HIDE DEF pieces, n, h, IndInv, WritePiece
        <5>1. 1..(Len(file) - n) \subseteq 1..Len(file)
          BY <1>1, <1>2
        <5> QED
          BY <4>1, <5>1, <3>3, <1>2
      <4>4. \A i \in 1..(Len(file') - (n + 1)) : ~Of(file'[i], t, at'[t])
        BY <4>3
      <4>5. Len(Serialised(t, at[t])') - Len(buffer'[t]) = n + 1
        <5> HIDE DEF pieces, n, IndInv, WritePiece
        <5> QED
          BY ONLY <4>1, <4>2
      <4> HIDE DEF pieces, n, IndInv, WritePiece
      <4> QED
        BY ONLY <4>1, <4>2, <4>4, <4>5, <3>4, <3>5 DEF PartWritten
    <3> QED
      BY <2>1, <2>4, <3>1, <3>6 DEF ThreadOK
  <2> QED
    BY <2>3, <2>4
<1>8. ASSUME NEW i \in 1..Len(file') PROVE PieceOK(i)'
  <2>1. ASSUME NEW u, NEW c
        PROVE  Serialised(u, c)' = Serialised(u, c)
    BY DEF Serialised
  <2>2. CASE i = Len(file) + 1
    BY <2>2, <1>1, <1>2 DEF PieceOK, Of
  <2>3. CASE i # Len(file) + 1
    <3> DEFINE p == file[i]
               ps == Serialised(p.thread, p.chunk)
    <3>1. i \in 1..Len(file) /\ file'[i] = p
      BY <2>3, <1>2
    <3> SUFFICES ASSUME p.kind = "row" PROVE PieceOK(i)'
      BY <3>1 DEF PieceOK
    <3>2. PieceOK(i) /\ Serialised(p.thread, p.chunk)' = ps
      BY <3>1, <2>1
    <3>3. CASE i < Len(file)
      BY <3>1, <3>2, <3>3, <1>2, SMTT(30) DEF PieceOK, CutShort
    <3>4. CASE i = Len(file) /\ pc[p.thread] = "write" /\ at[p.thread] = p.chunk
      <4>1. p \in Pieces
        BY <3>1 DEF TypeOK
      <4>2. p.thread = t
        BY <4>1, <3>4 DEF LockHeld, Pieces, RowPieces, Header, Footer
      <4>3. ps = pieces /\ Of(p, t, at[t])
        BY <4>2, <3>4 DEF Of
      <4>4. /\ \A k \in 1..n : file[Len(file) - n + k] = pieces[k]
            /\ \A j \in 1..(Len(file) - n) : ~Of(file[j], t, at[t])
        BY DEF ThreadOK, PartWritten
      <4>5. n # 0
        BY <4>3, <4>4, <3>1, <3>4, <1>2
      <4>6. p = pieces[n] /\ file'[i + 1] = pieces[n + 1] /\ n \in 1..(Len(pieces) - 1)
        <5>1. n \in 1..n /\ Len(file) - n + n = i /\ Len(pieces) \in Nat
          BY <4>5, <1>1, <1>2, <3>4
        <5> HIDE DEF pieces, n
        <5> QED
          BY <5>1, <4>4, <3>4, <1>1, <1>2, SMTT(30)
      <4> HIDE DEF pieces, n
      <4>7. p.chunk \in 1..at[p.thread]
        BY <3>2 DEF PieceOK
      <4> QED
        BY <4>3, <4>6, <4>7, <3>1, <3>2, <3>4, <1>2 DEF PieceOK
    <3> QED
      BY <3>1, <3>2, <3>3, <3>4, <1>2 DEF PieceOK, CutShort
  <2> QED
    BY <2>2, <2>3
<1>9. WrapperOK'
  <2>1. ~AllSunk /\ stage # "init" /\ stage # "done"
    BY DEF AllSunk, WrapperOK
  <2>2. file = <<>> => format # "marcxml"
    BY DEF WrapperOK
  <2>3. h # Header /\ h # Footer /\ file' # <<>>
    <3>1. h.kind = "row"
      BY <1>1 DEF RowPieces
    <3> HIDE DEF h, IndInv, WritePiece
    <3> QED
      BY <3>1, <1>2 DEF Header, Footer
  <2>4. ASSUME NEW i \in 1..Len(file')
        PROVE  /\ file'[i] = Header <=> format = "marcxml" /\ i = 1
               /\ file'[i] # Footer
    <3>1. CASE i = Len(file) + 1
      <4>1. i = 1 => file = <<>>
        BY <3>1, <1>2 DEF TypeOK
      <4> QED
        BY <3>1, <4>1, <2>2, <2>3, <1>2
    <3>2. CASE i # Len(file) + 1
      BY <3>2, <2>1, <1>2 DEF WrapperOK
    <3> QED
      BY <3>1, <3>2
  <2> QED
    BY <2>1, <2>3, <2>4 DEF WrapperOK
<1> QED
  BY <1>4, <1>5, <1>7, <1>8, <1>9

\* A thread whose buffer is empty has written its whole chunk.
LEMMA WholeChunk ==
  ASSUME IndInv, NEW t \in Threads, pc[t] = "write", buffer[t] = <<>>
  PROVE  LET pieces == Serialised(t, at[t]) IN
         /\ Written(t, at[t])
         /\ Len(file) # 0 /\ Of(file[Len(file)], t, at[t]) =>
              file[Len(file)] = pieces[Len(pieces)]
<1> DEFINE pieces == Serialised(t, at[t])
<1>1. at[t] \in 1..Len(work[t]) /\ PartWritten(t)
  <2>1. Len(work[t]) \in Nat
    BY CopyAssumption DEF IndInv, TypeOK
  <2> QED
    BY <2>1 DEF IndInv, ThreadOK
<1>2. Len(pieces) \in Nat /\ Len(file) \in Nat
  BY <1>1, SerialisedPieces DEF IndInv, TypeOK
<1>3. /\ Len(pieces) \in 0..Len(file)
      /\ \A k \in 1..Len(pieces) : file[Len(file) - Len(pieces) + k] = pieces[k]
      /\ \A i \in 1..(Len(file) - Len(pieces)) : ~Of(file[i], t, at[t])
  <2>1. Len(buffer[t]) = 0 /\ Len(pieces) - 0 = Len(pieces)
    BY <1>2
  <2> QED
    BY <1>1, <2>1 DEF PartWritten
<1> HIDE DEF pieces
<1>4. Written(t, at[t])
  <2> DEFINE m == Len(file) - Len(pieces)
  <2>1. m \in 0..Len(file) /\ m + Len(pieces) = Len(file)
    BY <1>2, <1>3
  <2>2. \A i \in 1..Len(file) : Of(file[i], t, at[t]) => i \in m + 1..m + Len(pieces)
    BY <1>2, <1>3
  <2>3. \A k \in 1..Len(pieces) : file[m + k] = pieces[k]
    BY <1>3
  <2> HIDE DEF m
  <2>4. m + Len(pieces) <= Len(file)
    BY <2>1, <1>2
  <2> QED
    BY <2>1, <2>2, <2>3, <2>4 DEF Written, pieces
<1>5. ASSUME Len(file) # 0, Of(file[Len(file)], t, at[t])
      PROVE  file[Len(file)] = pieces[Len(pieces)]
  <2>1. Len(pieces) # 0
    BY <1>2, <1>3, <1>5
  <2>2. Len(pieces) \in 1..Len(pieces) /\ Len(file) - Len(pieces) + Len(pieces) = Len(file)
    BY <2>1, <1>2
  <2> QED
    BY <2>2, <1>3
<1> QED
  BY <1>4, <1>5 DEF pieces

\* The buffer is empty, so the whole chunk is in the file.
LEMMA SinkReturnsStep ==
  ASSUME IndInv, NEW t \in Threads, SinkReturns(t)
  PROVE  IndInv'
<1> USE DEF IndInv, SinkReturns
<1>1. /\ pc'[t] = "idle"
      /\ \A u \in Threads : u # t => pc'[u] = pc[u]
  BY DEF TypeOK
<1>2. TypeOK'
  BY DEF TypeOK
<1>3. LockHeld'
  BY <1>1, CopyAssumption DEF LockHeld
<1>4. ASSUME NEW u \in Threads PROVE ThreadOK(u)'
  <2>1. CASE u # t
    BY <2>1, <1>1, ThreadFrame
  <2>2. CASE u = t
    <3>1. ASSUME NEW d
          PROVE  /\ Serialisable(t, d)' <=> Serialisable(t, d)
                 /\ Written(t, d)' <=> Written(t, d)
      BY DEF Serialised, Serialisable, Rows, Written, Of
    <3>2. Written(t, at[t])
      BY WholeChunk
    <3>3. \A d \in 1..at'[t] : Serialisable(t, d)' /\ Written(t, d)'
      <4>1. at[t] \in Nat
        BY DEF TypeOK
      <4>2. \A d \in 1..at[t] : Serialisable(t, d) /\ Written(t, d)
        BY <4>1, <3>2 DEF ThreadOK
      <4> QED
        BY <3>1, <4>2
    <3>4. at'[t] \in 0..Len(work'[t]) /\ buffer'[t] = <<>>
      BY DEF ThreadOK
    <3> QED
      BY <2>2, <3>3, <3>4, <1>1 DEF ThreadOK
  <2> QED
    BY <2>1, <2>2
<1>5. ASSUME NEW i \in 1..Len(file') PROVE PieceOK(i)'
  <2> DEFINE p == file[i]
  <2> SUFFICES ASSUME p.kind = "row" PROVE PieceOK(i)'
    BY DEF PieceOK
  <2>1. p \in Pieces
    BY DEF TypeOK
  <2>2. p.thread \in Threads
    BY <2>1 DEF Pieces, RowPieces, Header, Footer
  <2>3. Serialised(p.thread, p.chunk)' = Serialised(p.thread, p.chunk)
    BY DEF Serialised
  <2>4. CASE i = Len(file) /\ pc[p.thread] = "write" /\ at[p.thread] = p.chunk
    <3>1. p.thread = t /\ Of(p, t, at[t])
      BY <2>2, <2>4 DEF LockHeld, Of
    <3>2. p = Serialised(t, at[t])[Len(Serialised(t, at[t]))]
      BY <3>1, <2>4, WholeChunk
    <3> QED
      BY <2>3, <2>4, <3>1, <3>2 DEF PieceOK
  <2>5. CASE ~(i = Len(file) /\ pc[p.thread] = "write" /\ at[p.thread] = p.chunk)
    BY <2>2, <2>3, <2>5, <1>1 DEF PieceOK, CutShort
  <2> QED
    BY <2>4, <2>5
<1>6. WrapperOK'
  BY <1>1 DEF WrapperOK, AllSunk
<1> QED
  BY <1>2, <1>3, <1>4, <1>5, <1>6

\* A write that is cut short leaves its pieces, and its thread is done.
LEMMA WriteThrowsStep ==
  ASSUME IndInv, NEW t \in Threads, WriteThrows(t)
  PROVE  IndInv'
<1> USE DEF IndInv, WriteThrows
<1>1. /\ pc'[t] = "threw" /\ buffer'[t] = <<>>
      /\ \A u \in Threads : u # t => pc'[u] = pc[u] /\ buffer'[u] = buffer[u]
  BY DEF TypeOK
<1>2. TypeOK'
  <2>1. <<>> \in Seq(Pieces)
    OBVIOUS
  <2> QED
    BY <2>1 DEF TypeOK
<1>3. LockHeld'
  BY <1>1, CopyAssumption DEF LockHeld
<1>4. ASSUME NEW u \in Threads PROVE ThreadOK(u)'
  <2>1. CASE u # t
    BY <2>1, <1>1, ThreadFrame
  <2>2. CASE u = t
    <3>1. ASSUME NEW d
          PROVE  /\ Serialisable(t, d)' <=> Serialisable(t, d)
                 /\ Written(t, d)' <=> Written(t, d)
      BY DEF Serialised, Serialisable, Rows, Written, Of
    <3>2. \A d \in 1..at'[t] : Serialisable(t, d)' /\ (d < at'[t] => Written(t, d)')
      BY <3>1 DEF ThreadOK
    <3>3. at'[t] \in 0..Len(work'[t])
      BY DEF ThreadOK
    <3> QED
      BY <2>2, <3>2, <3>3, <1>1 DEF ThreadOK
  <2> QED
    BY <2>1, <2>2
<1>5. ASSUME NEW i \in 1..Len(file') PROVE PieceOK(i)'
  <2> DEFINE p == file[i]
  <2> SUFFICES ASSUME p.kind = "row" PROVE PieceOK(i)'
    BY DEF PieceOK
  <2>1. p \in Pieces
    BY DEF TypeOK
  <2>2. p.thread \in Threads
    BY <2>1 DEF Pieces, RowPieces, Header, Footer
  <2>3. Serialised(p.thread, p.chunk)' = Serialised(p.thread, p.chunk)
    BY DEF Serialised
  <2> QED
    BY <2>2, <2>3, <1>1 DEF PieceOK, CutShort
<1>6. WrapperOK'
  BY <1>1 DEF WrapperOK, AllSunk
<1> QED
  BY <1>2, <1>3, <1>4, <1>5, <1>6

\* Closing the file, with or without a footer, leaves every chunk as it was.
LEMMA ClosingFrame ==
  ASSUME IndInv, AllSunk, file' \in {file, Append(file, Footer)},
         UNCHANGED <<work, format, pc, at, buffer, lock>>,
         stage' \in {"done", "failed"}
  PROVE  /\ TypeOK' /\ LockHeld' /\ AllSunk'
         /\ \A u \in Threads : ThreadOK(u)'
         /\ \A i \in 1..Len(file') : PieceOK(i)'
<1> USE DEF IndInv
<1>1. /\ Footer \in Pieces /\ Footer.kind # "row"
      /\ Len(file) \in Nat
  BY DEF TypeOK, Pieces, Footer
<1>2. TypeOK' /\ LockHeld' /\ AllSunk'
  <2>1. file \in Seq(Pieces) /\ Append(file, Footer) \in Seq(Pieces)
    BY <1>1 DEF TypeOK
  <2>2. file' \in Seq(Pieces)
    BY <2>1
  <2> QED
    BY <2>2 DEF TypeOK, LockHeld, AllSunk
<1>3. ASSUME NEW u \in Threads PROVE ThreadOK(u)'
  <2>1. CASE file' = file
    BY <2>1, ThreadFrame
  <2>2. CASE file' = Append(file, Footer)
    <3>1. pc[u] = "idle" /\ at[u] = Len(work[u]) /\ at[u] \in Nat /\ pc'[u] = "idle"
      BY DEF AllSunk, TypeOK
    <3>2. ASSUME NEW d \in 1..at[u]
          PROVE  Serialisable(u, d)' /\ Written(u, d)'
      <4>1. ~Of(Footer, u, d)
        BY <1>1 DEF Of
      <4>2. Serialisable(u, d) /\ Written(u, d)
        BY <3>1 DEF ThreadOK
      <4>3. Written(u, d)'
        BY <4>1, <4>2, <3>1, <2>2, <1>1, WrittenFrame
      <4> QED
        BY <4>2, <4>3 DEF Serialisable, Rows
    <3> QED
      BY <3>1, <3>2 DEF ThreadOK
  <2> QED
    BY <2>1, <2>2
<1>4. ASSUME NEW i \in 1..Len(file') PROVE PieceOK(i)'
  <2>1. CASE file' = file
    <3>1. \A u \in Threads : at'[u] \in Nat /\ at[u] <= at'[u]
      BY DEF TypeOK
    <3> QED
      BY <2>1, <3>1, PieceFrame
  <2>2. CASE file' = Append(file, Footer)
    <3>1. /\ Len(file') = Len(file) + 1
          /\ file'[Len(file) + 1] = Footer
          /\ \A j \in 1..Len(file) : file'[j] = file[j]
      BY <2>2, <1>1 DEF TypeOK
    <3>2. CASE i = Len(file) + 1
      BY <3>1, <3>2, <1>1 DEF PieceOK
    <3>3. CASE i # Len(file) + 1
      <4> DEFINE p == file[i]
      <4>1. i \in 1..Len(file) /\ file'[i] = p
        BY <3>1, <3>3, <1>1
      <4>2. i < Len(file) => i + 1 \in 1..Len(file) /\ file'[i + 1] = file[i + 1]
        BY <3>1, <4>1, <1>1
      <4> SUFFICES ASSUME p.kind = "row" PROVE PieceOK(i)'
        BY <4>1 DEF PieceOK
      <4>3. p \in Pieces
        BY <4>1 DEF TypeOK
      <4>4. p.thread \in Threads
        BY <4>3 DEF Pieces, RowPieces, Header, Footer
      <4>5. Serialised(p.thread, p.chunk)' = Serialised(p.thread, p.chunk)
        BY <4>1 DEF Serialised
      <4>6. PieceOK(i) /\ pc[p.thread] = "idle"
        BY <4>1, <4>4 DEF AllSunk
      <4>7. i < Len(file) => i < Len(file')
        BY <3>1, <1>1
      <4> QED
        BY <4>1, <4>2, <4>5, <4>6, <4>7 DEF PieceOK, CutShort
    <3> QED
      BY <3>2, <3>3
  <2> QED
    BY <2>1, <2>2
<1> QED
  BY <1>2, <1>3, <1>4

\* The file with its footer, when its format has one.
LEMMA Closed ==
  ASSUME IndInv, stage = "sink", AllSunk
  PROVE  /\ format = "marcxml" => file \o FooterPieces = Append(file, Footer)
         /\ format # "marcxml" => file \o FooterPieces = file
         /\ \A i \in 1..Len(file) : file[i] # Footer
         /\ Len(file) \in Nat
         /\ Footer # Header
BY DEF IndInv, TypeOK, WrapperOK, FooterPieces, Footer, Header

\* The footer is written behind the last chunk of every thread.
LEMMA FinalizeStep == IndInv /\ Finalize => IndInv'
<1> SUFFICES ASSUME IndInv, Finalize PROVE IndInv'
  OBVIOUS
<1>1. stage = "sink" /\ AllSunk /\ stage' = "done"
      /\ file' \in {file, Append(file, Footer)}
      /\ UNCHANGED <<work, format, pc, at, buffer, lock>>
  BY Closed DEF Finalize
<1>2. /\ TypeOK' /\ LockHeld' /\ AllSunk'
      /\ \A u \in Threads : ThreadOK(u)'
      /\ \A i \in 1..Len(file') : PieceOK(i)'
  BY <1>1, ClosingFrame
<1>3. WrapperOK'
  <2>1. file = <<>> => format # "marcxml"
    BY <1>1 DEF IndInv, WrapperOK
  <2>2. \A i \in 1..Len(file) : file[i] = Header <=> format = "marcxml" /\ i = 1
    BY DEF IndInv, WrapperOK
  <2>3. CASE format = "marcxml"
    <3>1. file' = Append(file, Footer) /\ file # <<>>
      BY <2>1, <2>3, Closed, <1>1 DEF Finalize
    <3>2. /\ Len(file') = Len(file) + 1 /\ file'[Len(file) + 1] = Footer
          /\ \A i \in 1..Len(file) : file'[i] = file[i]
          /\ Len(file) \in Nat \ {0}
      BY <3>1 DEF IndInv, TypeOK
    <3> QED
      BY <3>2, <2>2, <2>3, <1>1, <1>2, Closed DEF WrapperOK
  <2>4. CASE format # "marcxml"
    <3>1. file' = file
      BY <2>4, Closed, <1>1 DEF Finalize
    <3> QED
      BY <3>1, <2>2, <2>4, <1>1, <1>2, Closed DEF WrapperOK
  <2> QED
    BY <2>3, <2>4
<1> QED
  BY <1>2, <1>3 DEF IndInv

\* Likewise when an error follows it, or comes first.
LEMMA FinalizeFailsStep == IndInv /\ FinalizeFails => IndInv'
<1> SUFFICES ASSUME IndInv, FinalizeFails PROVE IndInv'
  OBVIOUS
<1>1. stage = "sink" /\ AllSunk /\ stage' = "failed"
      /\ file' \in {file, Append(file, Footer)}
      /\ (file' = Append(file, Footer) => file' = file \/ format = "marcxml")
      /\ UNCHANGED <<work, format, pc, at, buffer, lock>>
  BY Closed DEF FinalizeFails
<1>2. /\ TypeOK' /\ LockHeld' /\ AllSunk'
      /\ \A u \in Threads : ThreadOK(u)'
      /\ \A i \in 1..Len(file') : PieceOK(i)'
  BY <1>1, ClosingFrame
<1>3. WrapperOK'
  <2>1. file = <<>> => format # "marcxml"
    BY <1>1 DEF IndInv, WrapperOK
  <2>2. \A i \in 1..Len(file) : file[i] = Header <=> format = "marcxml" /\ i = 1
    BY DEF IndInv, WrapperOK
  <2>3. CASE file' # file
    <3>1. file' = Append(file, Footer) /\ format = "marcxml" /\ file # <<>>
      BY <2>1, <2>3, <1>1
    <3>2. /\ Len(file') = Len(file) + 1 /\ file'[Len(file) + 1] = Footer
          /\ \A i \in 1..Len(file) : file'[i] = file[i]
          /\ Len(file) \in Nat \ {0}
      BY <3>1 DEF IndInv, TypeOK
    <3> QED
      BY <3>1, <3>2, <2>2, <1>1, <1>2, Closed DEF WrapperOK
  <2>4. CASE file' = file
    BY <2>1, <2>4, <2>2, <1>1, <1>2, Closed DEF WrapperOK
  <2> QED
    BY <2>3, <2>4
<1> QED
  BY <1>2, <1>3 DEF IndInv

-----------------------------------------------------------------------------
(* The theorems.                                                           *)

\* IndInv holds in every reachable state: every variable keeps its kind, the
\* lock is held exactly by the writing thread, and every chunk of every thread
\* is in the file, partly in the file, or not in it, as the thread's place in
\* the sink says.
THEOREM Inductive == Spec => []IndInv
<1>1. IndInv /\ [Next]_vars => IndInv'
  <2> SUFFICES ASSUME IndInv, [Next]_vars PROVE IndInv'
    OBVIOUS
  <2>1. CASE InitGlobal \/ InitGlobalFails
    BY <2>1, InitGlobalStep, InitGlobalFailsStep
  <2>2. ASSUME NEW t \in Threads, Step(t) PROVE IndInv'
    BY <2>2, SinkSerialisesStep, LockFileStep, WritePieceStep, SinkReturnsStep,
       WriteThrowsStep DEF Step
  <2>3. CASE Finalize \/ FinalizeFails
    BY <2>3, FinalizeStep, FinalizeFailsStep
  <2>4. CASE UNCHANGED vars
    <3> USE <2>4 DEF vars, IndInv
    <3>1. TypeOK' /\ LockHeld' /\ WrapperOK'
      BY DEF TypeOK, LockHeld, WrapperOK, AllSunk
    <3>2. ASSUME NEW t \in Threads PROVE ThreadOK(t)'
      BY ThreadFrame
    <3>3. ASSUME NEW i \in 1..Len(file') PROVE PieceOK(i)'
      <4>1. \A u \in Threads : at'[u] \in Nat /\ at[u] <= at'[u]
        BY DEF TypeOK
      <4> QED
        BY <4>1, PieceFrame
    <3> QED
      BY <3>1, <3>2, <3>3
  <2> QED
    BY <2>1, <2>2, <2>3, <2>4 DEF Next, Terminated
<1> QED
  BY <1>1, InitIndInv, PTL DEF Spec

\* Two chunks never interleave in the file: the shared lock keeps the pieces
\* of one chunk together, whatever the threads do.
THEOREM Contiguous == Spec => []ChunksContiguous
<1>1. IndInv => ChunksContiguous
  <2> SUFFICES ASSUME IndInv, NEW i \in 1..(Len(file) - 1), file[i].kind = "row"
               PROVE  LET p == file[i] IN
                 \/ p = Serialised(p.thread, p.chunk)[2 * Len(work[p.thread][p.chunk])]
                 \/ \E k \in 1..(2 * Len(work[p.thread][p.chunk]) - 1) :
                      /\ p = Serialised(p.thread, p.chunk)[k]
                      /\ file[i + 1] = Serialised(p.thread, p.chunk)[k + 1]
                 \/ CutShort(p.thread, p.chunk)
    BY DEF ChunksContiguous
  <2> DEFINE p == file[i]
             pieces == Serialised(p.thread, p.chunk)
  <2>1. Len(file) \in Nat /\ i \in 1..Len(file) /\ i # Len(file)
    BY DEF IndInv, TypeOK
  <2>2. p \in Pieces /\ PieceOK(i)
    BY <2>1 DEF IndInv, TypeOK
  <2>3. p.thread \in Threads
    BY <2>2 DEF Pieces, RowPieces, Header, Footer
  <2>4. p.chunk \in 1..Len(work[p.thread])
    <3>1. p.chunk \in 1..at[p.thread] /\ at[p.thread] \in 0..Len(work[p.thread])
      BY <2>2, <2>3 DEF PieceOK, IndInv, ThreadOK
    <3>2. Len(work[p.thread]) \in Nat
      BY <2>3, CopyAssumption DEF IndInv, TypeOK
    <3> QED
      BY <3>1, <3>2
  <2>5. Len(pieces) = 2 * Len(work[p.thread][p.chunk])
    BY <2>3, <2>4, SerialisedPieces DEF IndInv, TypeOK
  <2> QED
    BY <2>1, <2>2, <2>5 DEF PieceOK
<1> QED
  BY <1>1, Inductive, PTL

\* A COPY that ends without an error has written every chunk it was given, in
\* one place and once, and a footer stands only behind all of them.
THEOREM Complete == Spec => []CompleteWhenDone
<1>1. IndInv => CompleteWhenDone
  <2> SUFFICES ASSUME IndInv PROVE CompleteWhenDone
    OBVIOUS
  <2> DEFINE everything == \A t \in Threads : \A c \in ChunksOf(t) : Written(t, c)
  <2>1. AllSunk => everything
    <3> SUFFICES ASSUME AllSunk, NEW t \in Threads, NEW c \in ChunksOf(t)
                 PROVE  Written(t, c)
      OBVIOUS
    <3> QED
      BY DEF AllSunk, ChunksOf, IndInv, ThreadOK
  <2>2. DOMAIN file = 1..Len(file) /\ Len(file) \in Nat
    BY DEF IndInv, TypeOK
  <2>3. (file # <<>>) <=> Len(file) \in 1..Len(file)
    BY DEF IndInv, TypeOK
  <2> HIDE DEF everything
  <2>4. stage = "done" =>
          /\ everything
          /\ (file # <<>> /\ file[Len(file)] = Footer) <=> format = "marcxml"
    BY <2>1, <2>3 DEF IndInv, WrapperOK
  <2>5. \A i \in DOMAIN file :
          /\ file[i] = Header <=> format = "marcxml" /\ i = 1
          /\ file[i] = Footer => i = Len(file) /\ everything
    BY <2>1, <2>2 DEF IndInv, WrapperOK
  <2> QED
    BY <2>4, <2>5 DEF CompleteWhenDone, everything
<1> QED
  BY <1>1, Inductive, PTL

\* A chunk with a record the writer rejects leaves nothing in the file, and
\* the COPY does not succeed.
THEOREM NoTrace == Spec => []RejectedLeavesNoTrace
<1>1. IndInv => RejectedLeavesNoTrace
  <2> SUFFICES ASSUME IndInv, NEW t \in Threads, NEW c \in ChunksOf(t),
                      NEW r \in Rows(t, c), ~work[t][c][r].ok
               PROVE  Absent(t, c) /\ stage # "done"
    BY DEF RejectedLeavesNoTrace
  <2>1. ~Serialisable(t, c) /\ c \in 1..Len(work[t]) /\ Len(work[t]) \in Nat
    BY CopyAssumption DEF Serialisable, ChunksOf, IndInv, TypeOK
  <2>2. ThreadOK(t) /\ at[t] \in Nat
    BY DEF IndInv, TypeOK
  <2>3. CASE c <= at[t]
    BY <2>1, <2>2, <2>3 DEF ThreadOK, IndInv, WrapperOK, AllSunk
  <2>4. CASE c > at[t]
    <3>1. Absent(t, c)
      <4> SUFFICES ASSUME NEW i \in 1..Len(file), Of(file[i], t, c) PROVE FALSE
        BY DEF Absent
      <4> QED
        BY <2>1, <2>2, <2>4 DEF IndInv, PieceOK, Of
    <3> QED
      BY <3>1, <2>1, <2>2, <2>4 DEF IndInv, WrapperOK, AllSunk
  <2> QED
    BY <2>1, <2>2, <2>3, <2>4
<1> QED
  BY <1>1, Inductive, PTL
=============================================================================
