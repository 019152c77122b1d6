--------------------------- MODULE TextScan_proofs ---------------------------
(***************************************************************************)
(* Proofs about TextScan, for any number of threads, any chunk size and    *)
(* any glob: the rows of every thread, and the refinement of RecordScan.   *)
(***************************************************************************)
EXTENDS TextScan, GeneralFacts

-----------------------------------------------------------------------------
(* The records of a file.                                                  *)

\* What the assumptions say of a glob.
LEMMA Glob ==
  ASSUME NEW inputs \in Inputs
  PROVE  /\ inputs \in Seq(Files) /\ Len(inputs) \in Nat /\ DOMAIN inputs = 1..Len(inputs)
         /\ \A f \in 1..Len(inputs) : inputs[f] \in Files
BY TextAssumption

\* The parts of a file.
LEMMA FileParts ==
  ASSUME NEW file \in Files
  PROVE  /\ file.opens \in BOOLEAN /\ file.slices \in Seq(Slices) /\ Len(file.slices) \in Nat
         /\ DOMAIN file.slices = 1..Len(file.slices)
         /\ \A k \in 1..Len(file.slices) :
              file.slices[k].ok \in BOOLEAN /\ file.slices[k].recs \in Seq(Nat)
<1>1. file.opens \in BOOLEAN /\ file.slices \in Seq(Slices)
  BY DEF Files
<1>2. \A k \in 1..Len(file.slices) : file.slices[k] \in Slices
  BY <1>1
<1> QED
  BY <1>1, <1>2 DEF Slices

\* The records of one slice more stand behind those of the slices before.
LEMMA RecordsGrow ==
  ASSUME NEW file \in Files, NEW n \in 0..Len(file.slices)
  PROVE  /\ RecordsOf(file, n) \in Seq(Nat)
         /\ RecordsOf(file, 0) = <<>>
         /\ n < Len(file.slices) =>
              RecordsOf(file, n + 1) = RecordsOf(file, n) \o file.slices[n + 1].recs
<1> DEFINE seqs(m) == [k \in 1..m |-> file.slices[k].recs]
<1>1. Len(file.slices) \in Nat /\ \A k \in 1..Len(file.slices) : file.slices[k].recs \in Seq(Nat)
  BY FileParts
<1>2. ASSUME NEW m \in Nat, m <= Len(file.slices)
      PROVE  /\ seqs(m) \in Seq(Seq(Nat)) /\ Len(seqs(m)) = m
             /\ \A k \in 1..m : seqs(m)[k] = file.slices[k].recs
  <2>1. \A k \in 1..m : file.slices[k].recs \in Seq(Nat)
    BY <1>1, <1>2
  <2> QED
    BY <2>1
<1>3. \A m : RecordsOf(file, m) = FlattenSeq(seqs(m))
  BY DEF RecordsOf
<1> HIDE DEF seqs
<1>4. n \in Nat /\ n <= Len(file.slices)
  BY <1>1
<1>5. PICK f : Flattens(f, Nat, seqs(n)) /\ f[Len(seqs(n))] = FlattenSeq(seqs(n))
  BY <1>2, <1>4, FlattenIs
<1>6. f[n] \in Seq(Nat) /\ f[n] = RecordsOf(file, n)
  <2>1. n \in 0..n
    BY <1>4
  <2> QED
    BY <1>2, <1>3, <1>4, <1>5, <2>1 DEF Flattens
<1>7. RecordsOf(file, 0) = <<>>
  <2>1. 0 \in Nat /\ 0 <= Len(file.slices)
    BY <1>1
  <2>2. PICK g : Flattens(g, Nat, seqs(0)) /\ g[Len(seqs(0))] = FlattenSeq(seqs(0))
    BY <1>2, <2>1, FlattenIs
  <2>3. Len(seqs(0)) = 0
    BY <1>2, <2>1
  <2> QED
    BY <1>3, <2>2, <2>3 DEF Flattens
<1>8. ASSUME n < Len(file.slices)
      PROVE  RecordsOf(file, n + 1) = RecordsOf(file, n) \o file.slices[n + 1].recs
  <2>1. n + 1 \in Nat /\ n + 1 <= Len(file.slices) /\ n + 1 \in 1..(n + 1) /\ n <= n + 1
        /\ (n + 1) - 1 = n
    BY <1>1, <1>4, <1>8
  <2>2. Len(seqs(n + 1)) = n + 1 /\ Len(seqs(n)) = n
    BY <1>2, <1>4, <2>1
  <2>3. \A i \in 1..n : seqs(n + 1)[i] = seqs(n)[i]
    <3>1. \A i \in 1..n : i \in 1..(n + 1)
      BY <1>4
    <3> QED
      BY <1>2, <1>4, <2>1, <3>1
  <2>4. seqs(n) \in Seq(Seq(Nat)) /\ seqs(n + 1) \in Seq(Seq(Nat)) /\ n \in Nat
    BY <1>2, <1>4, <2>1
  <2>5. FlattenSeq(seqs(n + 1)) = FlattenSeq(seqs(n)) \o seqs(n + 1)[n + 1]
    BY ONLY <2>2, <2>3, <2>4, FlattenOneMore
  <2>6. seqs(n + 1)[n + 1] = file.slices[n + 1].recs
    BY <1>2, <2>1
  <2> QED
    BY <1>3, <2>1, <2>5, <2>6
<1> QED
  BY <1>6, <1>7, <1>8

\* The records of the first slices are the first records of the file.
LEMMA RecordsPrefix ==
  ASSUME NEW file \in Files, NEW n \in 0..Len(file.slices), NEW m \in n..Len(file.slices)
  PROVE  /\ Len(RecordsOf(file, n)) <= Len(RecordsOf(file, m))
         /\ \A i \in 1..Len(RecordsOf(file, n)) : RecordsOf(file, m)[i] = RecordsOf(file, n)[i]
<1> DEFINE N == Len(file.slices)
           R(k) == RecordsOf(file, k)
           Holds(k) == /\ Len(R(n)) <= Len(R(k))
                       /\ \A i \in 1..Len(R(n)) : R(k)[i] = R(n)[i]
           T == {d \in Nat : n + d <= N => Holds(n + d)}
<1>1. /\ N \in Nat /\ n \in Nat /\ n <= N
      /\ \A k \in 1..N : file.slices[k].recs \in Seq(Nat)
  BY FileParts
<1>2. ASSUME NEW k \in 0..N
      PROVE  /\ R(k) \in Seq(Nat) /\ Len(R(k)) \in Nat
             /\ k < N => R(k + 1) = R(k) \o file.slices[k + 1].recs
  BY RecordsGrow
<1> HIDE DEF R, N
<1>3. 0 \in T
  <2>1. n + 0 = n /\ Len(R(n)) \in Nat
    BY <1>1, <1>2
  <2> QED
    BY <2>1
<1>4. ASSUME NEW d \in T PROVE d + 1 \in T
  <2> SUFFICES ASSUME n + (d + 1) <= N PROVE Holds(n + (d + 1))
    OBVIOUS
  <2>0. d \in Nat /\ (n + d <= N => Holds(n + d))
    OBVIOUS
  <2> DEFINE k == n + d
  <2>1. d \in Nat /\ k \in 0..N /\ k <= N /\ k < N /\ k + 1 = n + (d + 1) /\ k + 1 \in 1..N
    BY <1>1, <2>0
  <2> HIDE DEF k
  <2>2. Holds(k)
    BY <2>0, <2>1 DEF k
  <2> DEFINE a == R(k)
             b == file.slices[k + 1].recs
  <2>3. a \in Seq(Nat) /\ b \in Seq(Nat) /\ R(k + 1) = a \o b
    BY <1>1, <1>2, <2>1
  <2> HIDE DEF a, b
  <2>4. /\ Len(a \o b) = Len(a) + Len(b) /\ Len(a) \in Nat /\ Len(b) \in Nat
        /\ \A i \in 1..Len(a) : (a \o b)[i] = a[i]
    BY ONLY <2>3, Joined
  <2>5. Len(R(n)) \in Nat /\ Len(R(n)) <= Len(a) /\ \A i \in 1..Len(R(n)) : a[i] = R(n)[i]
    BY <1>1, <1>2, <2>2 DEF a
  <2>6. \A i \in 1..Len(R(n)) : i \in 1..Len(a)
    BY <2>4, <2>5
  <2> QED
    BY <2>1, <2>3, <2>4, <2>5, <2>6, SMTT(30)
<1> HIDE DEF T, Holds
<1>5. T = Nat
  BY <1>3, <1>4, Induct DEF T
<1>6. m - n \in T /\ n + (m - n) = m /\ m <= N
  BY <1>1, <1>5 DEF N
<1>7. Holds(m)
  BY <1>6 DEF T
<1> QED
  BY <1>7 DEF Holds, R

-----------------------------------------------------------------------------
(* The rows of some records.                                               *)

\* Row k of record no of file f.
RowAt(f, no, k) == [raw |-> <<f, no>>, row |-> k, file |-> f, record_no |-> no]

\* s are the rows, in order, of the first n of the records behind the file's
\* first `skip` ones.
RowsUpTo(s, f, skip, recs, n) ==
  /\ s \in Seq(TextRows)
  /\ \A m \in 1..Len(s) : \E i \in 1..n : \E k \in 1..recs[i] : s[m] = RowAt(f, skip + i, k)
  /\ \A i \in 1..n : \A k \in 1..recs[i] : \E m \in 1..Len(s) : s[m] = RowAt(f, skip + i, k)
  /\ \A a, b \in 1..Len(s) : a < b => Before(s[a], s[b])

\* Rows in the order of their records and of the rows of each.
LEMMA RowsInOrder ==
  ASSUME NEW f, NEW p \in Nat, NEW q \in Nat, NEW k \in Nat, NEW l \in Nat,
         p < q \/ (p = q /\ k < l)
  PROVE  Before(RowAt(f, p, k), RowAt(f, q, l))
BY DEF RowAt, Before

\* The rows of one record more.
LEMMA RowsOfOneMore ==
  ASSUME NEW f \in Nat, NEW skip \in Nat, NEW recs \in Seq(Nat), NEW n \in Nat,
         n + 1 \in 1..Len(recs), NEW s, RowsUpTo(s, f, skip, recs, n),
         NEW b \in Seq(TextRows), Len(b) = recs[n + 1],
         \A k \in 1..Len(b) : b[k] = RowAt(f, skip + (n + 1), k)
  PROVE  RowsUpTo(s \o b, f, skip, recs, n + 1)
<1> DEFINE c == s \o b
<1>0. Len(recs) \in Nat /\ \A i \in 1..Len(recs) : recs[i] \in Nat
  OBVIOUS
<1>1. /\ s \in Seq(TextRows)
      /\ \A m \in 1..Len(s) : \E i \in 1..n : \E k \in 1..recs[i] : s[m] = RowAt(f, skip + i, k)
      /\ \A i \in 1..n : \A k \in 1..recs[i] : \E m \in 1..Len(s) : s[m] = RowAt(f, skip + i, k)
      /\ \A x, y \in 1..Len(s) : x < y => Before(s[x], s[y])
  BY DEF RowsUpTo
<1>a. s \in Seq(TextRows) /\ b \in Seq(TextRows)
  BY <1>1
<1>2. /\ c \in Seq(TextRows) /\ Len(s) \in Nat /\ Len(b) \in Nat /\ Len(c) = Len(s) + Len(b)
      /\ \A i \in 1..Len(s) : c[i] = s[i]
      /\ \A i \in 1..Len(b) : c[Len(s) + i] = b[i]
  BY ONLY <1>a, Joined
<1>3. ASSUME NEW m \in 1..Len(c)
      PROVE  \/ m \in 1..Len(s) /\ c[m] = s[m]
             \/ \E j \in 1..Len(b) : m = Len(s) + j /\ c[m] = b[j]
  BY ONLY <1>a, <1>3, JoinedAt
<1> HIDE DEF c
<1>4. ASSUME NEW m \in 1..Len(c)
      PROVE  \E i \in 1..(n + 1) : \E k \in 1..recs[i] : c[m] = RowAt(f, skip + i, k)
  <2>1. CASE m \in 1..Len(s) /\ c[m] = s[m]
    <3>1. PICK i \in 1..n : \E k \in 1..recs[i] : s[m] = RowAt(f, skip + i, k)
      BY <1>1, <2>1
    <3>2. i \in 1..(n + 1)
      OBVIOUS
    <3> QED
      BY <2>1, <3>1, <3>2
  <2>2. CASE \E j \in 1..Len(b) : m = Len(s) + j /\ c[m] = b[j]
    <3>1. PICK j \in 1..Len(b) : c[m] = b[j]
      BY <2>2
    <3>2. n + 1 \in 1..(n + 1)
      OBVIOUS
    <3>3. j \in 1..recs[n + 1] /\ b[j] = RowAt(f, skip + (n + 1), j)
      OBVIOUS
    <3> QED
      BY ONLY <3>1, <3>2, <3>3
  <2> QED
    BY <1>3, <2>1, <2>2
<1>5. ASSUME NEW i \in 1..(n + 1), NEW k \in 1..recs[i]
      PROVE  \E m \in 1..Len(c) : c[m] = RowAt(f, skip + i, k)
  <2>1. CASE i \in 1..n
    <3>1. PICK m \in 1..Len(s) : s[m] = RowAt(f, skip + i, k)
      BY <1>1, <2>1
    <3>2. m \in 1..Len(c) /\ c[m] = s[m]
      BY ONLY <1>2, m \in 1..Len(s)
    <3> QED
      BY <3>1, <3>2
  <2>2. CASE i = n + 1
    <3>1. k \in 1..Len(b) /\ b[k] = RowAt(f, skip + i, k)
      BY <2>2
    <3>2. Len(s) + k \in 1..Len(c) /\ c[Len(s) + k] = b[k]
      BY ONLY <1>2, <3>1
    <3> QED
      BY <3>1, <3>2
  <2>3. i \in 1..n \/ i = n + 1
    BY ONLY n \in Nat, i \in 1..(n + 1)
  <2> QED
    BY ONLY <2>1, <2>2, <2>3
<1>6. ASSUME NEW x \in 1..Len(c), NEW y \in 1..Len(c), x < y
      PROVE  Before(c[x], c[y])
  <2>1. CASE y \in 1..Len(s)
    <3>1. x \in 1..Len(s)
      BY <1>2, <1>6, <2>1
    <3> QED
      BY <1>1, <1>2, <1>6, <2>1, <3>1
  <2>2. CASE y \notin 1..Len(s)
    <3>1. PICK j \in 1..Len(b) : y = Len(s) + j /\ c[y] = b[j]
      BY <1>3, <2>2
    <3>2. c[y] = RowAt(f, skip + (n + 1), j) /\ j \in Nat /\ skip + (n + 1) \in Nat
      BY <3>1, SMTT(30)
    <3>3. CASE x \in 1..Len(s)
      <4>1. PICK i \in 1..n : \E k \in 1..recs[i] : s[x] = RowAt(f, skip + i, k)
        BY <1>1, <3>3
      <4>2. PICK k \in 1..recs[i] : s[x] = RowAt(f, skip + i, k)
        BY <4>1
      <4>a. i \in Nat /\ i <= n /\ 1 <= i /\ n + 1 <= Len(recs)
        OBVIOUS
      <4>b. i \in 1..Len(recs)
        BY ONLY <4>a, <1>0, n \in Nat
      <4>3. recs[i] \in Nat
        BY ONLY <1>0, <4>b
      <4>4. skip + i \in Nat /\ k \in Nat /\ skip + i < skip + (n + 1)
        BY ONLY <4>3, <4>a, <4>2, k \in 1..recs[i], skip \in Nat, n \in Nat
      <4>5. Before(RowAt(f, skip + i, k), RowAt(f, skip + (n + 1), j))
        BY <3>2, <4>4, RowsInOrder
      <4> QED
        BY <1>2, <3>2, <3>3, <4>2, <4>5
    <3>4. CASE x \notin 1..Len(s)
      <4>1. PICK k \in 1..Len(b) : x = Len(s) + k /\ c[x] = b[k]
        BY <1>3, <3>4
      <4>a. k < j
        BY ONLY <1>2, x < y, <3>1, <4>1, k \in 1..Len(b), j \in 1..Len(b)
      <4>b. c[x] = b[k] /\ b[k] = RowAt(f, skip + (n + 1), k)
        BY <4>1
      <4>2. k \in Nat /\ k < j /\ c[x] = RowAt(f, skip + (n + 1), k)
        BY ONLY <1>2, <4>a, <4>b, k \in 1..Len(b)
      <4>3. Before(RowAt(f, skip + (n + 1), k), RowAt(f, skip + (n + 1), j))
        BY <3>2, <4>2, RowsInOrder
      <4> QED
        BY <3>2, <4>2, <4>3
    <3> QED
      BY <3>3, <3>4
  <2> QED
    BY <2>1, <2>2
<1> QED
  BY <1>2, <1>4, <1>5, <1>6 DEF RowsUpTo, c

\* Rows returns the rows of all the records.
LEMMA RowsAre ==
  ASSUME NEW f \in Nat, NEW skip \in Nat, NEW recs \in Seq(Nat)
  PROVE  RowsUpTo(Rows(f, skip, skip, recs), f, skip, recs, Len(recs))
<1> DEFINE N == Len(recs)
           part(i) == [k \in 1..recs[i] |-> RowAt(f, skip + i, k)]
           seqs == [i \in 1..N |-> part(i)]
<1>1. N \in Nat /\ DOMAIN recs = 1..N /\ \A i \in 1..N : recs[i] \in Nat
  OBVIOUS
<1>2. Rows(f, skip, skip, recs) = FlattenSeq(seqs)
  BY <1>1 DEF Rows, RowAt
<1> HIDE DEF N
<1>3. ASSUME NEW i \in 1..N
      PROVE  /\ part(i) \in Seq(TextRows) /\ Len(part(i)) = recs[i]
             /\ \A k \in 1..recs[i] : part(i)[k] = RowAt(f, skip + i, k)
  <2>1. recs[i] \in Nat /\ skip + i \in Nat
    BY <1>1
  <2>2. \A k \in 1..recs[i] : RowAt(f, skip + i, k) \in TextRows
    BY <2>1 DEF RowAt, TextRows
  <2> QED
    BY <2>1, <2>2
<1> HIDE DEF part
<1>4. seqs \in Seq(Seq(TextRows)) /\ Len(seqs) = N /\ \A i \in 1..N : seqs[i] = part(i)
  BY <1>1, <1>3
<1> HIDE DEF seqs
<1>5. PICK g : Flattens(g, TextRows, seqs) /\ g[Len(seqs)] = FlattenSeq(seqs)
  BY <1>4, FlattenIs
<1> DEFINE T == {n \in Nat : n <= N => RowsUpTo(g[n], f, skip, recs, n)}
<1>6. 0 \in T
  <2>1. g[0] = <<>> /\ Len(<<>>) = 0 /\ <<>> \in Seq(TextRows)
    BY <1>5 DEF Flattens
  <2>2. RowsUpTo(g[0], f, skip, recs, 0)
    BY <2>1 DEF RowsUpTo
  <2> QED
    BY <2>2
<1>7. ASSUME NEW n \in T PROVE n + 1 \in T
  <2> SUFFICES ASSUME n + 1 <= N PROVE RowsUpTo(g[n + 1], f, skip, recs, n + 1)
    OBVIOUS
  <2>1. n \in Nat /\ (n <= N => RowsUpTo(g[n], f, skip, recs, n))
    OBVIOUS
  <2>2. n <= N /\ n + 1 \in 1..N /\ (n + 1) - 1 = n
    BY <1>1, <2>1
  <2>3. g[n + 1] = g[n] \o part(n + 1)
    BY <1>4, <1>5, <2>2 DEF Flattens
  <2>4. RowsUpTo(g[n], f, skip, recs, n) /\ part(n + 1) \in Seq(TextRows)
        /\ Len(part(n + 1)) = recs[n + 1] /\ n + 1 \in 1..Len(recs)
        /\ \A k \in 1..Len(part(n + 1)) : part(n + 1)[k] = RowAt(f, skip + (n + 1), k)
    BY <1>3, <2>1, <2>2 DEF N
  <2>5. RowsUpTo(g[n] \o part(n + 1), f, skip, recs, n + 1)
    BY <2>1, <2>4, RowsOfOneMore
  <2> QED
    BY <2>3, <2>5
<1> HIDE DEF T
<1>8. T = Nat
  BY <1>6, <1>7, Induct DEF T
<1>9. N \in T /\ N <= N
  BY <1>1, <1>8
<1>10. RowsUpTo(g[N], f, skip, recs, N)
  BY <1>9 DEF T
<1> QED
  BY <1>2, <1>4, <1>5, <1>10 DEF N

-----------------------------------------------------------------------------
(* The steps.                                                              *)

\* The step leaves the other threads alone.
OthersKeep(t) ==
  \A u \in Threads \ {t} :
    /\ pc'[u] = pc[u] /\ path'[u] = path[u] /\ source'[u] = source[u]
    /\ record_no'[u] = record_no[u]
    /\ pending'[u] = pending[u] /\ output'[u] = output[u]

\* What every step keeps.
LEMMA StepFrame ==
  ASSUME TypeOK, NEW t \in Threads, Step(t)
  PROVE  /\ paths' = paths /\ reader' = reader /\ pc[t] \notin Stopped
         /\ next_text_path \in Nat /\ next_text_path <= next_text_path'
         /\ failed => failed'
         /\ OthersKeep(t)
<1> USE DEF Goto, Stopped, OthersKeep
<1>0. next_text_path \in Nat
  BY DEF TypeOK
<1>1. CASE CallScan(t)
  BY <1>0, <1>1 DEF CallScan, TypeOK
<1>2. CASE ScanFull(t)
  BY <1>0, <1>2 DEF ScanFull, TypeOK
<1>3. CASE NextPath(t)
  BY <1>0, <1>3 DEF NextPath, TypeOK
<1>4. CASE OpenThrows(t)
  BY <1>0, <1>4 DEF OpenThrows, TypeOK
<1>5. CASE OpenSource(t)
  BY <1>0, <1>5 DEF OpenSource, TypeOK
<1>6. CASE ParseSlice(t)
  BY <1>0, <1>6 DEF ParseSlice, TypeOK
<1>7. CASE ParseWhole(t)
  BY <1>0, <1>7 DEF ParseWhole, TypeOK
<1>8. CASE Emit(t)
  BY <1>0, <1>8 DEF Emit, TypeOK
<1>9. CASE Interrupt(t)
  BY <1>0, <1>9 DEF Interrupt, TypeOK
<1> QED
  BY <1>1, <1>2, <1>3, <1>4, <1>5, <1>6, <1>7, <1>8, <1>9 DEF Step

\* The rows a thread has made are those it handed over and those it still has.
LEMMA MadeType ==
  ASSUME TypeOK, NEW t \in Threads
  PROVE  /\ output[t] \in Seq(TextRows) /\ pending[t] \in Seq(TextRows)
         /\ Made(t) \in Seq(TextRows) /\ Len(Made(t)) \in Nat
         /\ Len(output[t]) \in Nat /\ Len(pending[t]) \in Nat
         /\ Len(Made(t)) = Len(output[t]) + Len(pending[t])
         /\ \A i \in 1..Len(output[t]) : Made(t)[i] = output[t][i]
         /\ \A i \in 1..Len(pending[t]) : Made(t)[Len(output[t]) + i] = pending[t][i]
<1>1. output[t] \in Seq(TextRows) /\ pending[t] \in Seq(TextRows)
  BY DEF TypeOK
<1> DEFINE a == output[t]
           b == pending[t]
<1>2. a \in Seq(TextRows) /\ b \in Seq(TextRows)
  BY <1>1
<1> HIDE DEF a, b
<1>3. /\ a \o b \in Seq(TextRows)
      /\ Len(a) \in Nat /\ Len(b) \in Nat /\ Len(a \o b) = Len(a) + Len(b)
      /\ \A i \in 1..Len(a) : (a \o b)[i] = a[i]
      /\ \A i \in 1..Len(b) : (a \o b)[Len(a) + i] = b[i]
  BY ONLY <1>2, Joined
<1>4. Len(a \o b) \in Nat
  BY ONLY <1>3
<1> QED
  BY <1>1, <1>3, <1>4 DEF a, b, Made

\* The engine's rows are the first ones made.
LEMMA OutputIsMade ==
  ASSUME TypeOK, NEW t \in Threads, NEW i \in 1..Len(output[t])
  PROVE  i \in 1..Len(Made(t)) /\ Made(t)[i] = output[t][i]
<1>1. /\ Len(Made(t)) = Len(output[t]) + Len(pending[t])
      /\ Len(output[t]) \in Nat /\ Len(pending[t]) \in Nat
      /\ Made(t)[i] = output[t][i]
  BY MadeType
<1>2. i \in 1..Len(Made(t))
  <2> DEFINE m == Len(Made(t))
             a == Len(output[t])
             b == Len(pending[t])
  <2>1. m = a + b /\ a \in Nat /\ b \in Nat /\ i \in 1..a
    BY <1>1
  <2> HIDE DEF m, a, b
  <2>2. i \in 1..m
    BY ONLY <2>1
  <2> QED
    BY <2>2 DEF m
<1> QED
  BY <1>1, <1>2

\* The chunk that EmitSubfieldRows hands over.
Chunk(t) == SubSeq(pending[t], 1, ChunkLen(t))

\* Emit moves the chunk from the queue to the engine.
LEMMA EmitRows ==
  ASSUME TypeOK, NEW t \in Threads, Emit(t)
  PROVE  /\ ChunkLen(t) \in Nat /\ ChunkLen(t) <= Len(pending[t])
         /\ ChunkLen(t) = 0 => pending[t] = <<>>
         /\ Chunk(t) \in Seq(TextRows) /\ Len(Chunk(t)) = ChunkLen(t)
         /\ \A i \in 1..ChunkLen(t) : Chunk(t)[i] = pending[t][i]
         /\ output' = [output EXCEPT ![t] = output[t] \o Chunk(t)]
         /\ pending' = [pending EXCEPT ![t] = SubSeq(pending[t], ChunkLen(t) + 1, Len(pending[t]))]
         /\ output' \in [Threads -> Seq(TextRows)] /\ pending' \in [Threads -> Seq(TextRows)]
         /\ Made(t)' = Made(t)
<1> DEFINE n == ChunkLen(t)
           o == output[t]
           p == pending[t]
           rest == SubSeq(p, n + 1, Len(p))
<1>1. /\ o \in Seq(TextRows) /\ p \in Seq(TextRows) /\ Len(p) \in Nat
      /\ output \in [Threads -> Seq(TextRows)] /\ pending \in [Threads -> Seq(TextRows)]
  BY DEF TypeOK
<1>2. n \in Nat /\ n <= Len(p) /\ n \in 0..Len(p) /\ (n = 0 => Len(p) = 0)
  BY <1>1, TextAssumption DEF ChunkLen
<1>3. /\ Chunk(t) \in Seq(TextRows) /\ Len(Chunk(t)) = n
      /\ \A i \in 1..n : Chunk(t)[i] = p[i]
      /\ rest \in Seq(TextRows) /\ Chunk(t) \o rest = p
  <2>1. p \in Seq(TextRows) /\ n \in 0..Len(p)
    BY <1>1, <1>2
  <2> HIDE DEF p, n
  <2>2. /\ SubSeq(p, 1, n) \in Seq(TextRows) /\ Len(SubSeq(p, 1, n)) = n
        /\ \A i \in 1..n : SubSeq(p, 1, n)[i] = p[i]
        /\ SubSeq(p, n + 1, Len(p)) \in Seq(TextRows)
        /\ SubSeq(p, 1, n) \o SubSeq(p, n + 1, Len(p)) = p
    BY ONLY <2>1, Parted
  <2> QED
    BY <2>2 DEF Chunk, p, n
<1>4. /\ output' = [output EXCEPT ![t] = o \o Chunk(t)]
      /\ pending' = [pending EXCEPT ![t] = rest]
  BY DEF Emit, Chunk
<1> HIDE DEF rest, n, o, p
<1>5. o \o Chunk(t) \in Seq(TextRows)
  BY <1>1, <1>3
<1>6. /\ output' \in [Threads -> Seq(TextRows)] /\ pending' \in [Threads -> Seq(TextRows)]
      /\ output'[t] = o \o Chunk(t) /\ pending'[t] = rest
  BY <1>1, <1>3, <1>4, <1>5
<1>7. (o \o Chunk(t)) \o rest = o \o (Chunk(t) \o rest)
  <2>1. o \in Seq(TextRows) /\ Chunk(t) \in Seq(TextRows) /\ rest \in Seq(TextRows)
    BY <1>1, <1>3
  <2> QED
    BY ONLY <2>1, ConcatAssociative
<1>8. Made(t)' = Made(t)
  BY <1>3, <1>6, <1>7 DEF Made, o, p
<1>9. p = <<>> \/ n # 0
  BY <1>1, <1>2
<1> QED
  BY <1>2, <1>3, <1>4, <1>6, <1>8, <1>9 DEF n, o, p, rest

-----------------------------------------------------------------------------
(* Parsing.                                                                *)

\* A file of the glob and its records.
LEMMA FileFacts ==
  ASSUME TypeOK, NEW f \in 1..Len(paths)
  PROVE  /\ paths[f] \in Files /\ DOMAIN paths = 1..Len(paths) /\ Len(paths) \in Nat
         /\ Len(paths[f].slices) \in Nat
         /\ All(f) \in Seq(Nat) /\ Len(All(f)) \in Nat
         /\ \A i \in 1..Len(All(f)) : All(f)[i] \in Nat
<1>1. paths[f] \in Files /\ DOMAIN paths = 1..Len(paths) /\ Len(paths) \in Nat
  BY Glob DEF TypeOK
<1>2. Len(paths[f].slices) \in Nat
  BY <1>1, FileParts
<1>3. Len(paths[f].slices) \in 0..Len(paths[f].slices)
  BY <1>2
<1>4. RecordsOf(paths[f], Len(paths[f].slices)) \in Seq(Nat)
  BY <1>1, <1>3, RecordsGrow
<1> DEFINE all == All(f)
<1>5. all \in Seq(Nat)
  BY <1>4 DEF All
<1> HIDE DEF all
<1>6. Len(all) \in Nat /\ \A i \in 1..Len(all) : all[i] \in Nat
  BY <1>5
<1> QED
  BY <1>1, <1>2, <1>5, <1>6 DEF all

\* What a thread has read of its file.
LEMMA ReadFacts ==
  ASSUME TypeOK, NEW t \in Threads, SourceOK(t), Reading(t)
  PROVE  /\ path[t] \in 1..Len(paths) /\ paths[path[t]] \in Files
         /\ source[t] \in 0..Len(paths[path[t]].slices)
         /\ record_no[t] = HasRead(t) /\ HasRead(t) \in Nat
         /\ HasRead(t) <= Len(All(path[t]))
<1>1. /\ path[t] \in 0..Len(paths) /\ path[t] # 0 /\ Len(paths) \in Nat
      /\ source[t] \in Nat /\ source[t] <= Len(paths[path[t]].slices)
      /\ record_no[t] = HasRead(t)
  BY Glob DEF SourceOK, TypeOK, Reading, NoPath, NoSource
<1>2. path[t] \in 1..Len(paths)
  BY <1>1
<1> DEFINE file == paths[path[t]]
           N == Len(file.slices)
<1>3. file \in Files /\ N \in Nat
  BY <1>2, FileFacts
<1> HIDE DEF file
<1>4. source[t] \in 0..N /\ N \in source[t]..N
  BY <1>1, <1>3 DEF file
<1>5. RecordsOf(file, source[t]) \in Seq(Nat)
  BY <1>3, <1>4, RecordsGrow
<1>6. Len(RecordsOf(file, source[t])) <= Len(RecordsOf(file, N))
  BY <1>3, <1>4, RecordsPrefix
<1>7. Len(RecordsOf(file, source[t])) \in Nat
  BY <1>5
<1> QED
  BY <1>1, <1>2, <1>3, <1>4, <1>6, <1>7 DEF file, HasRead, All

\* The thread makes rows of recs, the records of its file behind the first
\* `skip` ones.
Parses(t, skip, recs) ==
  /\ path[t] \in 1..Len(paths) /\ skip \in Nat /\ recs \in Seq(Nat)
  /\ skip + Len(recs) <= Len(All(path[t]))
  /\ \A i \in 1..Len(recs) : All(path[t])[skip + i] = recs[i]
  /\ \A i \in 1..Len(Made(t)) : Made(t)[i].file = path[t] => Made(t)[i].record_no <= skip
  /\ pending' = [pending EXCEPT ![t] = pending[t] \o Rows(path[t], skip, skip, recs)]
  /\ paths' = paths /\ path' = path /\ output' = output

\* Of a slice the thread makes the rows that come next.
LEMMA SliceParses ==
  ASSUME TypeOK, NEW t \in Threads, SourceOK(t), RowsOK(t), ParseSlice(t),
         paths[path[t]].slices[source[t] + 1].ok
  PROVE  /\ Reading(t) /\ Reading(t)' /\ pc' = pc /\ failed' = failed
         /\ source[t] + 1 \in 1..Len(paths[path[t]].slices)
         /\ source'[t] = source[t] + 1
         /\ \E recs : /\ Parses(t, HasRead(t), recs)
                      /\ HasRead(t)' = HasRead(t) + Len(recs)
                      /\ record_no' = [record_no EXCEPT ![t] = HasRead(t) + Len(recs)]
<1> DEFINE file == paths[path[t]]
           N == Len(file.slices)
           n == source[t]
           recs == file.slices[n + 1].recs
           a == RecordsOf(file, n)
           b == RecordsOf(file, n + 1)
           all == RecordsOf(file, N)
<1>1. /\ pc[t] = "scan" /\ HasSlice(t)
      /\ source' = [source EXCEPT ![t] = n + 1]
      /\ record_no' = [record_no EXCEPT ![t] = record_no[t] + Len(recs)]
      /\ pending' = [pending EXCEPT ![t] = Pushed(t, Rows(path[t], Len(a), record_no[t], recs))]
      /\ pc' = pc /\ failed' = failed /\ paths' = paths /\ path' = path /\ output' = output
  BY DEF ParseSlice
<1>2. Reading(t)
  BY <1>1 DEF Reading, HasSlice
<1>3. /\ path[t] \in 1..Len(paths) /\ file \in Files /\ n \in 0..N
      /\ record_no[t] = HasRead(t) /\ HasRead(t) \in Nat
  BY <1>2, ReadFacts
<1>4. N \in Nat /\ n \in Nat /\ n < N
  BY <1>1, <1>3, FileParts DEF HasSlice
<1>5. n + 1 \in 1..N /\ n + 1 \in 0..N /\ N \in (n + 1)..N /\ n + 1 # NoSource
  BY <1>4 DEF NoSource
<1>6. source'[t] = n + 1
  BY <1>1 DEF TypeOK
<1>7. Reading(t)'
  BY <1>1, <1>5, <1>6 DEF Reading
<1>8. recs \in Seq(Nat)
  BY <1>3, <1>5, FileParts
<1>9. HasRead(t) = Len(a) /\ HasRead(t)' = Len(b) /\ All(path[t]) = all
  BY <1>1, <1>6 DEF HasRead, All
<1> HIDE DEF file, N, n, recs
<1>10. a \in Seq(Nat) /\ b = a \o recs /\ Len(b) <= Len(all)
       /\ \A i \in 1..Len(b) : all[i] = b[i]
  <2>1. a \in Seq(Nat) /\ b = a \o recs
    BY <1>3, <1>4, RecordsGrow DEF N, n, recs
  <2>2. Len(b) <= Len(all) /\ \A i \in 1..Len(b) : all[i] = b[i]
    BY <1>3, <1>5, RecordsPrefix DEF N
  <2> QED
    BY <2>1, <2>2
<1> HIDE DEF a, b, all
<1>11. /\ Len(a) \in Nat /\ Len(recs) \in Nat /\ Len(b) = Len(a) + Len(recs)
       /\ \A i \in 1..Len(recs) : b[Len(a) + i] = recs[i]
  BY <1>8, <1>10, Joined
<1>12. \A i \in 1..Len(recs) : all[Len(a) + i] = recs[i]
  <2>1. \A i \in 1..Len(recs) : Len(a) + i \in 1..Len(b)
    BY ONLY <1>11
  <2> QED
    BY <1>10, <1>11, <2>1
<1>13. ASSUME NEW i \in 1..Len(Made(t)), Made(t)[i].file = path[t]
       PROVE  Made(t)[i].record_no <= HasRead(t)
  <2>1. Reached(t, Made(t)[i])
    BY DEF RowsOK
  <2> QED
    BY <1>2, <1>13, <2>1 DEF Reached
<1>14. Parses(t, HasRead(t), recs)
  BY <1>1, <1>3, <1>8, <1>9, <1>10, <1>11, <1>12, <1>13 DEF Parses, Pushed
<1>15. HasRead(t)' = HasRead(t) + Len(recs)
  BY <1>9, <1>11
<1> QED
  BY <1>1, <1>2, <1>3, <1>5, <1>6, <1>7, <1>14, <1>15 DEF n, N, file

\* Of a whole file the thread makes all rows.
LEMMA WholeParses ==
  ASSUME TypeOK, NEW t \in Threads, SourceOK(t), RowsOK(t), ParseWhole(t),
         ParsesWhole(paths[path[t]])
  PROVE  /\ paths[path[t]].opens /\ pc' = [pc EXCEPT ![t] = "scan"] /\ failed' = failed
         /\ source' = source /\ source[t] = NoSource /\ record_no' = record_no
         /\ Parses(t, 0, All(path[t]))
<1>1. /\ pc[t] = "open" /\ reader = "whole" /\ paths[path[t]].opens
      /\ pc' = [pc EXCEPT ![t] = "scan"] /\ failed' = failed
      /\ source' = source /\ record_no' = record_no
      /\ pending' = [pending EXCEPT ![t] = Pushed(t, Rows(path[t], 0, 0, All(path[t])))]
      /\ paths' = paths /\ path' = path /\ output' = output
  BY DEF ParseWhole, Goto, All
<1>2. source[t] = NoSource /\ path[t] \in 0..Len(paths) /\ path[t] # 0 /\ Len(paths) \in Nat
  BY <1>1, Glob DEF SourceOK, NoPath, TypeOK
<1>3. path[t] \in 1..Len(paths)
  BY <1>2
<1>4. All(path[t]) \in Seq(Nat) /\ Len(All(path[t])) \in Nat
  BY <1>3, FileFacts
<1>5. \A i \in 1..Len(Made(t)) : Made(t)[i].file # path[t]
  BY <1>1 DEF RowsOK, Reached
<1> DEFINE all == All(path[t])
<1>6. 0 + Len(all) <= Len(all) /\ \A i \in 1..Len(all) : all[0 + i] = all[i]
  <2>1. Len(all) \in Nat
    BY <1>4
  <2> HIDE DEF all
  <2>2. \A i \in 1..Len(all) : 0 + i = i
    BY ONLY <2>1
  <2> QED
    BY <2>1, <2>2
<1>7. Parses(t, 0, All(path[t]))
  BY <1>1, <1>3, <1>4, <1>5, <1>6 DEF Parses, Pushed
<1> QED
  BY <1>1, <1>2, <1>7

\* s holds all rows of the first n records of file f, whose records are all.
HoldsRows(s, all, f, n) ==
  \A no \in 1..n : \A k \in 1..all[no] :
    \E i \in 1..Len(s) : s[i].file = f /\ s[i].record_no = no /\ s[i].row = k

\* Rows that stand in order, none beyond the first n records of file f.
InOrderUpTo(s, f, n) ==
  /\ s \in Seq(TextRows)
  /\ \A i, j \in 1..Len(s) : i < j => Before(s[i], s[j])
  /\ \A i \in 1..Len(s) :
       /\ s[i].raw = <<s[i].file, s[i].record_no>> /\ s[i].file <= f
       /\ s[i].file = f => s[i].record_no <= n

\* A row before another, whatever its own row number.
LEMMA BehindUpTo ==
  ASSUME NEW r \in TextRows, NEW f \in Nat, NEW n \in Nat, NEW no \in Nat, NEW k \in Nat, n < no,
         r.raw = <<r.file, r.record_no>>, r.file <= f, r.file = f => r.record_no <= n
  PROVE  Before(r, RowAt(f, no, k))
<1>1. r.file \in Nat /\ r.record_no \in Nat /\ r.row \in Nat
  BY DEF TextRows
<1>2. r.raw[1] = r.file /\ r.raw[2] = r.record_no
  OBVIOUS
<1>3. r.file < f \/ (r.file = f /\ r.record_no < no)
  BY <1>1
<1> DEFINE q == RowAt(f, no, k)
<1>4. q.raw[1] = f /\ q.raw[2] = no
  BY DEF RowAt
<1> HIDE DEF q
<1> QED
  BY <1>2, <1>3, <1>4 DEF Before, q

\* Rows of the next records, behind rows of those before.
LEMMA RowsJoin ==
  ASSUME NEW s, NEW f \in Nat, NEW skip \in Nat, NEW recs \in Seq(Nat), NEW all \in Seq(Nat),
         skip + Len(recs) <= Len(all),
         \A i \in 1..Len(recs) : all[skip + i] = recs[i],
         InOrderUpTo(s, f, skip)
  PROVE  LET c == s \o Rows(f, skip, skip, recs) IN
         /\ Rows(f, skip, skip, recs) \in Seq(TextRows)
         /\ InOrderUpTo(c, f, skip + Len(recs))
         /\ \A m \in 1..Len(c) :
              \/ m \in 1..Len(s) /\ c[m] = s[m]
              \/ \E no \in (skip + 1)..(skip + Len(recs)) : \E k \in 1..all[no] :
                   c[m] = RowAt(f, no, k)
         /\ \A other, g, n : HoldsRows(s, other, g, n) => HoldsRows(c, other, g, n)
         /\ HoldsRows(s, all, f, skip) => HoldsRows(c, all, f, skip + Len(recs))
<1> DEFINE b == Rows(f, skip, skip, recs)
           c == s \o b
           N == Len(recs)
<1>1. N \in Nat /\ \A i \in 1..N : recs[i] \in Nat /\ all[skip + i] = recs[i]
  <2>1. N \in Nat /\ \A i \in 1..N : recs[i] \in Nat
    OBVIOUS
  <2>2. \A i \in 1..N : all[skip + i] = recs[i]
    OBVIOUS
  <2> QED
    BY <2>1, <2>2
<1>2. /\ b \in Seq(TextRows)
      /\ \A m \in 1..Len(b) : \E i \in 1..N : \E k \in 1..recs[i] : b[m] = RowAt(f, skip + i, k)
      /\ \A i \in 1..N : \A k \in 1..recs[i] : \E m \in 1..Len(b) : b[m] = RowAt(f, skip + i, k)
      /\ \A x, y \in 1..Len(b) : x < y => Before(b[x], b[y])
  <2>1. RowsUpTo(b, f, skip, recs, N)
    BY RowsAre
  <2> QED
    BY <2>1 DEF RowsUpTo
<1> HIDE DEF b, N
<1>3. /\ s \in Seq(TextRows)
      /\ \A i, j \in 1..Len(s) : i < j => Before(s[i], s[j])
      /\ \A i \in 1..Len(s) :
           /\ s[i].raw = <<s[i].file, s[i].record_no>> /\ s[i].file <= f
           /\ s[i].file = f => s[i].record_no <= skip
  BY DEF InOrderUpTo
<1>4. s \in Seq(TextRows) /\ b \in Seq(TextRows)
  BY <1>2, <1>3
<1>5. /\ c \in Seq(TextRows) /\ Len(s) \in Nat /\ Len(b) \in Nat /\ Len(c) = Len(s) + Len(b)
      /\ \A i \in 1..Len(s) : c[i] = s[i]
      /\ \A i \in 1..Len(b) : c[Len(s) + i] = b[i]
  BY ONLY <1>4, Joined
<1>6. ASSUME NEW m \in 1..Len(c)
      PROVE  \/ m \in 1..Len(s) /\ c[m] = s[m]
             \/ \E j \in 1..Len(b) : m = Len(s) + j /\ c[m] = b[j]
  BY ONLY <1>4, <1>6, JoinedAt
<1> HIDE DEF c
<1>7. \A m \in 1..Len(s) : m \in 1..Len(c) /\ c[m] = s[m]
  BY ONLY <1>5
<1>8. \A j \in 1..Len(b) : Len(s) + j \in 1..Len(c) /\ c[Len(s) + j] = b[j]
  BY ONLY <1>5
<1>9. ASSUME NEW j \in 1..Len(b)
      PROVE  \E no \in (skip + 1)..(skip + N) : \E k \in 1..all[no] :
               b[j] = RowAt(f, no, k) /\ no \in Nat /\ k \in Nat /\ skip < no
  <2>1. PICK i \in 1..N : \E k \in 1..recs[i] : b[j] = RowAt(f, skip + i, k)
    BY <1>2
  <2>2. PICK k \in 1..recs[i] : b[j] = RowAt(f, skip + i, k)
    BY <2>1
  <2>3. recs[i] \in Nat /\ all[skip + i] = recs[i]
    BY <1>1
  <2>4. skip + i \in (skip + 1)..(skip + N) /\ skip + i \in Nat /\ skip < skip + i
    BY ONLY <1>1, skip \in Nat, i \in 1..N
  <2>5. k \in Nat
    BY ONLY <2>3, k \in 1..recs[i]
  <2>6. k \in 1..all[skip + i]
    BY <2>3
  <2> QED
    BY ONLY <2>2, <2>4, <2>5, <2>6
<1>10. ASSUME NEW m \in 1..Len(c)
       PROVE  \/ m \in 1..Len(s) /\ c[m] = s[m]
              \/ \E no \in (skip + 1)..(skip + N) : \E k \in 1..all[no] : c[m] = RowAt(f, no, k)
  <2>1. CASE \E j \in 1..Len(b) : m = Len(s) + j /\ c[m] = b[j]
    <3>1. PICK j \in 1..Len(b) : c[m] = b[j]
      BY <2>1
    <3> QED
      BY <1>9, <3>1
  <2> QED
    BY <1>6, <2>1
<1>11. ASSUME NEW x \in 1..Len(c), NEW y \in 1..Len(c), x < y
       PROVE  Before(c[x], c[y])
  <2>1. CASE y \in 1..Len(s)
    <3>1. x \in 1..Len(s)
      BY ONLY <1>5, <2>1, x < y, x \in 1..Len(c)
    <3>2. Before(s[x], s[y]) /\ c[x] = s[x] /\ c[y] = s[y]
      BY <1>3, <1>7, <1>11, <2>1, <3>1
    <3> QED
      BY <3>2
  <2>2. CASE y \notin 1..Len(s)
    <3>1. PICK j \in 1..Len(b) : y = Len(s) + j /\ c[y] = b[j]
      BY <1>6, <2>2
    <3>2. CASE x \in 1..Len(s)
      <4>1. PICK no \in (skip + 1)..(skip + N) : \E k \in 1..all[no] :
              b[j] = RowAt(f, no, k) /\ no \in Nat /\ k \in Nat /\ skip < no
        BY <1>9
      <4>2. PICK k \in 1..all[no] :
              b[j] = RowAt(f, no, k) /\ no \in Nat /\ k \in Nat /\ skip < no
        BY <4>1
      <4>3. /\ s[x] \in TextRows
            /\ s[x].raw = <<s[x].file, s[x].record_no>> /\ s[x].file <= f
            /\ s[x].file = f => s[x].record_no <= skip
        BY <1>3, <3>2, SMTT(30)
      <4>4. Before(s[x], RowAt(f, no, k))
        BY <4>2, <4>3, BehindUpTo
      <4> QED
        BY <1>7, <3>1, <3>2, <4>2, <4>4
    <3>3. CASE x \notin 1..Len(s)
      <4>1. PICK i \in 1..Len(b) : x = Len(s) + i /\ c[x] = b[i]
        BY <1>6, <3>3
      <4>2. i < j
        BY ONLY <1>5, x < y, <3>1, <4>1, i \in 1..Len(b), j \in 1..Len(b)
      <4>3. Before(b[i], b[j])
        BY <1>2, <4>2
      <4> QED
        BY <3>1, <4>1, <4>3
    <3> QED
      BY <3>2, <3>3
  <2> QED
    BY <2>1, <2>2
<1>12. ASSUME NEW m \in 1..Len(c)
       PROVE  /\ c[m].raw = <<c[m].file, c[m].record_no>> /\ c[m].file <= f
              /\ c[m].file = f => c[m].record_no <= skip + N
  <2>1. CASE m \in 1..Len(s) /\ c[m] = s[m]
    <3>1. s[m] \in TextRows
      BY <1>3, <2>1
    <3>2. s[m].record_no \in Nat
      BY <3>1 DEF TextRows
    <3>3. /\ s[m].raw = <<s[m].file, s[m].record_no>> /\ s[m].file <= f
          /\ s[m].file = f => s[m].record_no <= skip
      BY <1>3, <2>1
    <3>4. s[m].file = f => s[m].record_no <= skip + N
      BY <1>1, <3>2, <3>3
    <3> QED
      BY <2>1, <3>3, <3>4
  <2>2. CASE \E no \in (skip + 1)..(skip + N) : \E k \in 1..all[no] : c[m] = RowAt(f, no, k)
    <3>1. PICK no \in (skip + 1)..(skip + N) : \E k \in 1..all[no] : c[m] = RowAt(f, no, k)
      BY <2>2
    <3>2. PICK k \in 1..all[no] : c[m] = RowAt(f, no, k)
      BY <3>1
    <3>3. no <= skip + N /\ f <= f
      BY <1>1
    <3> QED
      BY <3>2, <3>3 DEF RowAt
  <2> QED
    BY <1>10, <2>1, <2>2
<1>13. InOrderUpTo(c, f, skip + N)
  BY <1>5, <1>11, <1>12 DEF InOrderUpTo
<1>14. ASSUME NEW other, NEW g, NEW n, HoldsRows(s, other, g, n) PROVE HoldsRows(c, other, g, n)
  <2> SUFFICES ASSUME NEW no \in 1..n, NEW k \in 1..other[no]
               PROVE  \E i \in 1..Len(c) : c[i].file = g /\ c[i].record_no = no /\ c[i].row = k
    BY DEF HoldsRows
  <2>1. PICK i \in 1..Len(s) : s[i].file = g /\ s[i].record_no = no /\ s[i].row = k
    BY <1>14 DEF HoldsRows
  <2> QED
    BY <1>7, <2>1
<1>15. ASSUME HoldsRows(s, all, f, skip) PROVE HoldsRows(c, all, f, skip + N)
  <2> SUFFICES ASSUME NEW no \in 1..(skip + N), NEW k \in 1..all[no]
               PROVE  \E i \in 1..Len(c) : c[i].file = f /\ c[i].record_no = no /\ c[i].row = k
    BY DEF HoldsRows
  <2>1. CASE no \in 1..skip
    <3>1. HoldsRows(c, all, f, skip)
      BY <1>14, <1>15
    <3> QED
      BY <2>1, <3>1 DEF HoldsRows
  <2>2. CASE no \notin 1..skip
    <3>1. no - skip \in 1..N /\ no = skip + (no - skip)
      BY ONLY <1>1, <2>2, no \in 1..(skip + N), skip \in Nat
    <3>2. all[no] = recs[no - skip]
      BY <1>1, <3>1
    <3>3. PICK m \in 1..Len(b) : b[m] = RowAt(f, skip + (no - skip), k)
      BY <1>2, <3>1, <3>2
    <3>4. b[m] = RowAt(f, no, k)
      BY <3>1, <3>3
    <3>5. b[m].file = f /\ b[m].record_no = no /\ b[m].row = k
      BY <3>4 DEF RowAt
    <3> QED
      BY <1>8, <3>5
  <2> QED
    BY <2>1, <2>2
<1> QED
  BY <1>4, <1>10, <1>13, <1>14, <1>15 DEF b, c, N

\* A thread's rows as rows of a sequence.
LEMMA MadeHolds ==
  ASSUME NEW t \in Threads, NEW f, NEW n
  PROVE  MadeUpTo(t, f, n) <=> HoldsRows(Made(t), All(f), f, n)
BY DEF MadeUpTo, HoldsRows

\* The same of the state after a step.
LEMMA MadeHoldsNext ==
  ASSUME NEW t \in Threads, NEW f, NEW n
  PROVE  MadeUpTo(t, f, n)' <=> HoldsRows(Made(t)', All(f)', f, n)
BY DEF MadeUpTo, HoldsRows

\* Rows that are exact and no further than read.
LEMMA RowsUpToRead ==
  ASSUME TypeOK, NEW t \in Threads, RowsOK(t), NEW n,
         \A i \in 1..Len(Made(t)) : Made(t)[i].file = path[t] => Made(t)[i].record_no <= n
  PROVE  InOrderUpTo(Made(t), path[t], n)
<1>1. Made(t) \in Seq(TextRows)
  BY MadeType
<1>2. \A i, j \in 1..Len(Made(t)) : i < j => Before(Made(t)[i], Made(t)[j])
  BY DEF RowsOK
<1>3. ASSUME NEW i \in 1..Len(Made(t))
      PROVE  /\ Made(t)[i].raw = <<Made(t)[i].file, Made(t)[i].record_no>>
             /\ Made(t)[i].file <= path[t]
  BY DEF RowsOK, Exact, Reached
<1> QED
  BY <1>1, <1>2, <1>3 DEF InOrderUpTo

\* Parsing puts exact rows of the thread's file behind those made before.
LEMMA Parsing ==
  ASSUME TypeOK, NEW t \in Threads, RowsOK(t), NEW skip, NEW recs, Parses(t, skip, recs)
  PROVE  /\ pending' \in [Threads -> Seq(TextRows)]
         /\ InOrderUpTo(Made(t)', path[t], skip + Len(recs))
         /\ \A m \in 1..Len(Made(t)') :
              /\ Exact(Made(t)'[m])
              /\ \/ Made(t)'[m].file = path[t]
                 \/ \E i \in 1..Len(Made(t)) : Made(t)'[m] = Made(t)[i]
         /\ \A f, n : MadeUpTo(t, f, n) => MadeUpTo(t, f, n)'
         /\ \A f : f = path[t] /\ MadeUpTo(t, f, skip) => MadeUpTo(t, f, skip + Len(recs))'
<1> DEFINE f == path[t]
           all == All(f)
           s == Made(t)
           c == s \o Rows(f, skip, skip, recs)
           L == skip + Len(recs)
<1>1. /\ f \in 1..Len(paths) /\ skip \in Nat /\ recs \in Seq(Nat)
      /\ L <= Len(all)
      /\ \A i \in 1..Len(recs) : all[skip + i] = recs[i]
      /\ \A i \in 1..Len(s) : s[i].file = f => s[i].record_no <= skip
      /\ pending' = [pending EXCEPT ![t] = pending[t] \o Rows(f, skip, skip, recs)]
      /\ paths' = paths /\ path' = path /\ output' = output
  BY DEF Parses
<1>2. /\ f \in Nat /\ all \in Seq(Nat) /\ Len(all) \in Nat /\ Len(recs) \in Nat /\ L \in Nat
      /\ \A i \in 1..Len(all) : all[i] \in Nat
  <2>1. all \in Seq(Nat) /\ Len(all) \in Nat /\ \A i \in 1..Len(all) : all[i] \in Nat
    BY <1>1, FileFacts
  <2>2. Len(recs) \in Nat
    BY <1>1
  <2>3. f \in Nat
    BY <1>1
  <2>4. L \in Nat
    BY ONLY <1>1, <2>2
  <2> QED
    BY <2>1, <2>2, <2>3, <2>4
<1>3. InOrderUpTo(s, f, skip)
  BY <1>1, RowsUpToRead
<1> HIDE DEF f, all, s
<1>4. /\ Rows(f, skip, skip, recs) \in Seq(TextRows)
      /\ InOrderUpTo(c, f, L)
      /\ \A m \in 1..Len(c) :
           \/ m \in 1..Len(s) /\ c[m] = s[m]
           \/ \E no \in (skip + 1)..L : \E k \in 1..all[no] : c[m] = RowAt(f, no, k)
      /\ \A other, g, n : HoldsRows(s, other, g, n) => HoldsRows(c, other, g, n)
      /\ HoldsRows(s, all, f, skip) => HoldsRows(c, all, f, L)
  BY <1>1, <1>2, <1>3, RowsJoin
<1> HIDE DEF c
<1>5. pending' \in [Threads -> Seq(TextRows)] /\ Made(t)' = c
  <2>1. output[t] \in Seq(TextRows) /\ pending[t] \in Seq(TextRows)
    BY MadeType
  <2> DEFINE b == Rows(f, skip, skip, recs)
  <2>2. b \in Seq(TextRows) /\ pending' = [pending EXCEPT ![t] = pending[t] \o b]
    BY <1>1, <1>4
  <2> HIDE DEF b
  <2>3. pending[t] \o b \in Seq(TextRows)
    BY <2>1, <2>2
  <2>4. pending' \in [Threads -> Seq(TextRows)] /\ pending'[t] = pending[t] \o b
    BY <2>2, <2>3 DEF TypeOK
  <2>5. (output[t] \o pending[t]) \o b = output[t] \o (pending[t] \o b)
    <3> DEFINE o == output[t]
               p == pending[t]
    <3>1. o \in Seq(TextRows) /\ p \in Seq(TextRows) /\ b \in Seq(TextRows)
      BY <2>1, <2>2
    <3> HIDE DEF o, p
    <3>2. (o \o p) \o b = o \o (p \o b)
      BY ONLY <3>1, ConcatAssociative
    <3> QED
      BY <3>2 DEF o, p
  <2>6. c = (output[t] \o pending[t]) \o b
    BY DEF c, s, Made, b
  <2>7. Made(t)' = output[t] \o (pending[t] \o b)
    BY <1>1, <2>4 DEF Made
  <2> QED
    BY <2>4, <2>5, <2>6, <2>7
<1>6. ASSUME NEW m \in 1..Len(c)
      PROVE  Exact(c[m]) /\ (c[m].file = f \/ \E i \in 1..Len(s) : c[m] = s[i])
  <2>1. CASE m \in 1..Len(s) /\ c[m] = s[m]
    <3>1. Exact(s[m])
      BY <2>1 DEF RowsOK, s
    <3> QED
      BY <2>1, <3>1
  <2>2. CASE \E no \in (skip + 1)..L : \E k \in 1..all[no] : c[m] = RowAt(f, no, k)
    <3>1. PICK no \in (skip + 1)..L : \E k \in 1..all[no] : c[m] = RowAt(f, no, k)
      BY <2>2
    <3>2. PICK k \in 1..all[no] : c[m] = RowAt(f, no, k)
      BY <3>1
    <3>3. c[m].file = f /\ c[m].record_no = no /\ c[m].row = k /\ c[m].raw = <<f, no>>
      BY <3>2 DEF RowAt
    <3>4. no \in 1..Len(all)
      <4> DEFINE N == Len(all)
      <4>1. L <= N /\ N \in Nat /\ L \in Nat /\ skip \in Nat
        BY <1>1, <1>2
      <4> HIDE DEF L, N
      <4>2. no \in 1..N
        BY ONLY <4>1, no \in (skip + 1)..L
      <4> QED
        BY <4>2 DEF N
    <3> QED
      BY <1>1, <3>3, <3>4 DEF Exact, all
  <2> QED
    BY <1>4, <2>1, <2>2
<1>7. \A g : All(g)' = All(g)
  BY <1>1 DEF All
<1>8. ASSUME NEW g, NEW n, MadeUpTo(t, g, n) PROVE MadeUpTo(t, g, n)'
  <2>1. HoldsRows(s, All(g), g, n)
    BY <1>8, MadeHolds DEF s
  <2>2. HoldsRows(c, All(g), g, n)
    BY <1>4, <2>1
  <2> QED
    BY <1>5, <1>7, <2>2, MadeHoldsNext
<1>9. ASSUME NEW g, g = path[t], MadeUpTo(t, g, skip) PROVE MadeUpTo(t, g, L)'
  <2>1. HoldsRows(s, all, f, skip)
    BY <1>9, MadeHolds DEF s, all, f
  <2>2. HoldsRows(c, all, f, L)
    BY <1>4, <2>1
  <2>3. HoldsRows(Made(t)', All(g)', g, L)
    BY <1>5, <1>7, <1>9, <2>2 DEF all, f
  <2> QED
    BY <2>3, MadeHoldsNext
<1> QED
  BY <1>4, <1>5, <1>6, <1>8, <1>9 DEF f, s

-----------------------------------------------------------------------------
(* What a step does to each part of the invariant.                         *)

\* ParseSlice and ParseWhole on data that the parser accepts.
ParsesOn(t) ==
  \/ ParseSlice(t) /\ paths[path[t]].slices[source[t] + 1].ok
  \/ ParseWhole(t) /\ ParsesWhole(paths[path[t]])

\* They make rows of records of the thread's file.
LEMMA ParsesSome ==
  ASSUME TypeOK, NEW t \in Threads, SourceOK(t), RowsOK(t), ParsesOn(t)
  PROVE  \E skip, recs : Parses(t, skip, recs)
BY SliceParses, WholeParses DEF ParsesOn

\* The other steps make no rows.
LEMMA MadeSame ==
  ASSUME TypeOK, NEW t \in Threads, Step(t), ~ParsesOn(t)
  PROVE  Made(t)' = Made(t)
<1>1. CASE Emit(t)
  BY <1>1, EmitRows
<1>2. CASE ~Emit(t)
  <2>1. output' = output /\ pending' = pending
    BY <1>2 DEF Step, ParsesOn, CallScan, ScanFull, NextPath, OpenThrows, OpenSource, ParseSlice,
       ParseWhole, Interrupt
  <2> QED
    BY <2>1 DEF Made
<1> QED
  BY <1>1, <1>2

\* Every variable keeps its kind.
LEMMA StepType ==
  ASSUME TypeOK, NEW t \in Threads, SourceOK(t), RowsOK(t), Step(t)
  PROVE  TypeOK'
<1> USE DEF Goto, Stopped, NoSource
<1>1. CASE CallScan(t)
  BY <1>1 DEF CallScan, TypeOK
<1>2. CASE ScanFull(t)
  BY <1>2 DEF ScanFull, TypeOK
<1>3. CASE NextPath(t)
  <2>1. next_text_path + 1 \in Nat
    BY DEF TypeOK
  <2>2. CASE next_text_path >= Len(paths)
    BY <1>3, <2>1, <2>2 DEF NextPath, TypeOK
  <2>3. CASE ~(next_text_path >= Len(paths))
    BY <1>3, <2>1, <2>3 DEF NextPath, TypeOK
  <2> QED
    BY <2>2, <2>3
<1>4. CASE OpenThrows(t)
  BY <1>4 DEF OpenThrows, TypeOK
<1>5. CASE OpenSource(t)
  BY <1>5 DEF OpenSource, TypeOK
<1>6. CASE ParsesOn(t)
  <2>1. pending' \in [Threads -> Seq(TextRows)]
    BY <1>6, ParsesSome, Parsing
  <2>2. CASE ParseSlice(t) /\ paths[path[t]].slices[source[t] + 1].ok
    <3>1. /\ pc' = pc /\ failed' = failed
          /\ source' = [source EXCEPT ![t] = source[t] + 1]
          /\ paths' = paths /\ reader' = reader /\ next_text_path' = next_text_path
          /\ path' = path /\ output' = output
      BY <2>2 DEF ParseSlice
    <3>2. source[t] + 1 \in Nat
      BY <2>2, SliceParses
    <3>3. PICK recs : /\ Parses(t, HasRead(t), recs)
                      /\ record_no' = [record_no EXCEPT ![t] = HasRead(t) + Len(recs)]
      BY <2>2, SliceParses
    <3>4. HasRead(t) \in Nat /\ Len(recs) \in Nat
      BY <3>3 DEF Parses
    <3> DEFINE n == HasRead(t)
               l == Len(recs)
    <3>5. n + l \in Nat
      <4> HIDE DEF n, l
      <4> QED
        BY <3>4 DEF n, l
    <3> HIDE DEF n, l
    <3>6. record_no' = [record_no EXCEPT ![t] = n + l]
      BY <3>3 DEF n, l
    <3> QED
      BY <2>1, <3>1, <3>2, <3>5, <3>6 DEF TypeOK
  <2>3. CASE ParseWhole(t) /\ ParsesWhole(paths[path[t]])
    BY <2>1, <2>3 DEF ParseWhole, TypeOK
  <2> QED
    BY <1>6, <2>2, <2>3 DEF ParsesOn
<1>7. CASE (ParseSlice(t) \/ ParseWhole(t)) /\ ~ParsesOn(t)
  <2>1. CASE ParseSlice(t)
    <3>1. source[t] + 1 \in Nat
      BY <2>1 DEF ParseSlice, HasSlice, TypeOK
    <3> QED
      BY <1>7, <2>1, <3>1 DEF ParseSlice, ParsesOn, TypeOK
  <2>2. CASE ParseWhole(t)
    BY <1>7, <2>2 DEF ParseWhole, ParsesOn, TypeOK
  <2> QED
    BY <1>7, <2>1, <2>2
<1>8. CASE Emit(t)
  <2>1. output' \in [Threads -> Seq(TextRows)] /\ pending' \in [Threads -> Seq(TextRows)]
    BY <1>8, EmitRows
  <2> QED
    BY <1>8, <2>1 DEF Emit, AfterChunk, TypeOK
<1>9. CASE Interrupt(t)
  BY <1>9 DEF Interrupt, TypeOK
<1> QED
  BY <1>1, <1>2, <1>3, <1>4, <1>5, <1>6, <1>7, <1>8, <1>9 DEF Step

\* The rows made so far are no further than the thread has read then.
LEMMA ReachedStays ==
  ASSUME TypeOK, NEW t \in Threads, Step(t), ~ParsesOn(t), SourceOK(t),
         NEW row \in TextRows, Reached(t, row)
  PROVE  Reached(t, row)'
<1> USE DEF Goto, Stopped
<1>0. row.file \in Nat /\ next_text_path \in Nat /\ path[t] \in Nat /\ path[t] <= next_text_path
  BY DEF TextRows, TypeOK, SourceOK
<1>1. CASE path' = path /\ source' = source /\ paths' = paths /\ pc[t] # "open" /\ pc'[t] # "open"
             /\ (pc[t] # "threw" \/ pc'[t] = "threw")
  BY <1>1 DEF Reached, Reading, HasRead
<1>2. CASE path' = path /\ source'[t] = NoSource /\ pc[t] # "open" /\ pc'[t] # "open"
  BY <1>2 DEF Reached, Reading
<1>3. CASE path' = path /\ pc[t] = "open"
  BY <1>3 DEF Reached
<1>4. CASE path' = path /\ pc'[t] = "threw"
  BY <1>4 DEF Reached, Reading
<1>5. CASE path'[t] = next_text_path + 1
  BY <1>0, <1>5 DEF Reached
<1>6. CASE CallScan(t)
  BY <1>1, <1>6 DEF CallScan, TypeOK
<1>7. CASE ScanFull(t)
  BY <1>1, <1>7 DEF ScanFull, TypeOK
<1>8. CASE NextPath(t)
  BY <1>2, <1>5, <1>8 DEF NextPath, TypeOK
<1>9. CASE OpenThrows(t)
  BY <1>3, <1>9 DEF OpenThrows, TypeOK
<1>10. CASE OpenSource(t)
  BY <1>3, <1>10 DEF OpenSource, TypeOK
<1>11. CASE ParseSlice(t)
  BY <1>4, <1>11 DEF ParseSlice, ParsesOn, TypeOK
<1>12. CASE ParseWhole(t)
  BY <1>3, <1>12 DEF ParseWhole
<1>13. CASE Emit(t)
  BY <1>1, <1>13 DEF Emit, AfterChunk, TypeOK
<1>14. CASE Interrupt(t)
  BY <1>1, <1>14 DEF Interrupt, TypeOK
<1> QED
  BY <1>6, <1>7, <1>8, <1>9, <1>10, <1>11, <1>12, <1>13, <1>14 DEF Step

\* The thread's rows stay exact, in order and no further than read.
LEMMA StepRows ==
  ASSUME TypeOK, NEW t \in Threads, SourceOK(t), RowsOK(t), Step(t)
  PROVE  RowsOK(t)'
<1>1. paths' = paths
  BY StepFrame
<1>2. \A row : Exact(row) => Exact(row)'
  BY <1>1 DEF Exact, All
<1>3. CASE ~ParsesOn(t)
  <2>1. Made(t)' = Made(t)
    BY <1>3, MadeSame
  <2>2. ASSUME NEW i \in 1..Len(Made(t)) PROVE Exact(Made(t)[i]) /\ Made(t)[i] \in TextRows /\ Reached(t, Made(t)[i])
    <3>1. Made(t) \in Seq(TextRows)
      BY MadeType
    <3>2. Made(t)[i] \in TextRows
      BY <3>1
    <3> QED
      BY <3>2 DEF RowsOK
  <2>3. ASSUME NEW row, Exact(row), row \in TextRows, Reached(t, row)
        PROVE  Exact(row)' /\ Reached(t, row)'
    BY <1>2, <1>3, <2>3, ReachedStays
  <2>4. \A i \in 1..Len(Made(t)) : \E row : row = Made(t)[i] /\ Exact(row)' /\ Reached(t, row)'
    BY <2>2, <2>3
  <2>5. \A i, j \in 1..Len(Made(t)) : i < j => Before(Made(t)[i], Made(t)[j])
    BY DEF RowsOK
  <2>6. ASSUME NEW i \in 1..Len(Made(t)') PROVE Exact(Made(t)[i])' /\ Reached(t, Made(t)[i])'
    <3>1. PICK row : row = Made(t)[i] /\ Exact(row)' /\ Reached(t, row)'
      BY <2>1, <2>4
    <3>2. row = Made(t)'[i]
      BY <2>1, <3>1
    <3> QED
      BY <3>1, <3>2 DEF Exact, Reached
  <2>7. \A i, j \in 1..Len(Made(t)') : i < j => Before(Made(t)'[i], Made(t)'[j])
    BY <2>1, <2>5
  <2> QED
    BY <2>6, <2>7 DEF RowsOK
<1>4. ASSUME NEW skip, NEW recs, Parses(t, skip, recs), pc'[t] # "open",
             Reading(t)' => HasRead(t)' = skip + Len(recs)
      PROVE  RowsOK(t)'
  <2>1. /\ InOrderUpTo(Made(t)', path[t], skip + Len(recs))
        /\ \A m \in 1..Len(Made(t)') : Exact(Made(t)'[m])
    BY <1>4, Parsing
  <2>2. path' = path
    BY <1>4 DEF Parses
  <2>3. ASSUME NEW i \in 1..Len(Made(t)') PROVE Exact(Made(t)[i])' /\ Reached(t, Made(t)[i])'
    <3>1. Exact(Made(t)'[i])
      BY <2>1
    <3>2. /\ Made(t)'[i].file <= path'[t]
          /\ Made(t)'[i].file = path'[t] => Made(t)'[i].record_no <= skip + Len(recs)
      BY <2>1, <2>2 DEF InOrderUpTo
    <3>3. Exact(Made(t)[i])'
      BY <1>1, <3>1 DEF Exact, All
    <3>4. Reached(t, Made(t)[i])'
      BY <1>4, <3>2 DEF Reached
    <3> QED
      BY <3>3, <3>4
  <2>4. \A i, j \in 1..Len(Made(t)') : i < j => Before(Made(t)'[i], Made(t)'[j])
    BY <2>1 DEF InOrderUpTo
  <2> QED
    BY <2>3, <2>4 DEF RowsOK
<1>5. CASE ParseSlice(t) /\ paths[path[t]].slices[source[t] + 1].ok
  <2>1. PICK recs : Parses(t, HasRead(t), recs) /\ HasRead(t)' = HasRead(t) + Len(recs)
    BY <1>5, SliceParses
  <2>2. pc'[t] # "open"
    BY <1>5 DEF ParseSlice
  <2> QED
    BY <1>4, <2>1, <2>2
<1>6. CASE ParseWhole(t) /\ ParsesWhole(paths[path[t]])
  <2>1. Parses(t, 0, All(path[t])) /\ source'[t] = NoSource /\ pc'[t] = "scan"
    BY <1>6, WholeParses DEF TypeOK
  <2>2. ~Reading(t)'
    BY <2>1 DEF Reading
  <2> QED
    BY <1>4, <2>1, <2>2
<1> QED
  BY <1>3, <1>5, <1>6 DEF ParsesOn

\* The thread's file is one handed out, and its records are counted.
LEMMA StepSource ==
  ASSUME TypeOK, NEW t \in Threads, SourceOK(t), RowsOK(t), Step(t)
  PROVE  SourceOK(t)'
<1> USE DEF Goto, Stopped
<1>0. /\ next_text_path \in Nat /\ path[t] \in Nat /\ Len(paths) \in Nat
      /\ path[t] \in 0..Len(paths) /\ path[t] <= next_text_path
      /\ next_text_path <= next_text_path' /\ paths' = paths /\ reader' = reader
      /\ reader = "whole" => source[t] = NoSource
      /\ next_text_path' \in Nat
  <2>1. TypeOK'
    BY StepType
  <2> QED
    BY <2>1, StepFrame, Glob DEF TypeOK, SourceOK
<1>1. ASSUME path'[t] = path[t]
      PROVE  path'[t] \in 0..Len(paths') /\ path'[t] <= next_text_path'
  BY <1>0, <1>1
<1>2. CASE /\ path' = path /\ source' = source /\ record_no' = record_no
           /\ pc[t] \notin {"open", "threw"} /\ pc'[t] # "open"
  BY <1>0, <1>1, <1>2 DEF SourceOK, Reading, HasRead
<1>3. CASE path' = path /\ source'[t] = NoSource /\ pc'[t] # "open"
  BY <1>0, <1>1, <1>3 DEF SourceOK, Reading
<1>4. CASE path' = path /\ (reader = "whole" => source'[t] = NoSource) /\ pc'[t] = "threw"
  BY <1>0, <1>1, <1>4 DEF SourceOK, Reading
<1>5. CASE CallScan(t)
  BY <1>2, <1>5 DEF CallScan, TypeOK
<1>6. CASE ScanFull(t)
  BY <1>2, <1>6 DEF ScanFull, TypeOK
<1>7. CASE NextPath(t)
  <2>1. CASE next_text_path >= Len(paths)
    BY <1>3, <1>7, <2>1 DEF NextPath, TypeOK
  <2>2. CASE ~(next_text_path >= Len(paths))
    <3>1. /\ path'[t] = next_text_path + 1 /\ pc'[t] = "open" /\ source' = source
          /\ next_text_path' = next_text_path + 1
      BY <1>7, <2>2 DEF NextPath, TypeOK
    <3>2. path'[t] \in 0..Len(paths') /\ path'[t] <= next_text_path' /\ path'[t] # NoPath
      BY <1>0, <2>2, <3>1 DEF NoPath
    <3> QED
      BY <1>0, <3>1, <3>2 DEF SourceOK, Reading
  <2> QED
    BY <2>1, <2>2
<1>8. CASE OpenThrows(t)
  BY <1>0, <1>4, <1>8 DEF OpenThrows, TypeOK
<1>9. CASE OpenSource(t)
  <2>1. /\ pc[t] = "open" /\ path' = path /\ source'[t] = 0 /\ record_no'[t] = 0
        /\ reader = "slices" /\ paths[path[t]].opens
    BY <1>9 DEF OpenSource, TypeOK
  <2>2. path[t] # NoPath
    BY <2>1 DEF SourceOK
  <2>3. path[t] \in 1..Len(paths)
    BY <1>0, <2>2 DEF NoPath
  <2>4. paths[path[t]] \in Files /\ Len(paths[path[t]].slices) \in Nat
    BY <2>3, FileFacts
  <2>5. 0 \in 0..Len(paths[path[t]].slices)
    BY <2>4
  <2>6. RecordsOf(paths[path[t]], 0) = <<>>
    BY <2>4, <2>5, RecordsGrow
  <2>7. HasRead(t)' = 0
    BY <1>0, <2>1, <2>6 DEF HasRead
  <2> QED
    BY <1>0, <1>1, <2>1, <2>2, <2>4, <2>7 DEF SourceOK, Reading
<1>10. CASE ParseSlice(t) /\ ~paths[path[t]].slices[source[t] + 1].ok
  BY <1>4, <1>10 DEF ParseSlice, HasSlice, TypeOK
<1>11. CASE ParseSlice(t) /\ paths[path[t]].slices[source[t] + 1].ok
  <2> DEFINE n == source[t]
             file == paths[path[t]]
  <2>1. /\ Reading(t) /\ pc' = pc /\ n + 1 \in 1..Len(file.slices) /\ source'[t] = n + 1
    BY <1>11, SliceParses
  <2>2. PICK recs : /\ HasRead(t)' = HasRead(t) + Len(recs)
                    /\ record_no' = [record_no EXCEPT ![t] = HasRead(t) + Len(recs)]
    BY <1>11, SliceParses
  <2>3. record_no'[t] = HasRead(t)'
    BY <2>2 DEF TypeOK
  <2>4. path' = path /\ reader = "slices" /\ pc[t] = "scan" /\ file.slices[n + 1].ok
    BY <1>11 DEF ParseSlice, HasSlice
  <2>5. /\ path[t] # NoPath /\ file.opens
        /\ \A k \in 1..n : file.slices[k].ok
    BY <2>1 DEF SourceOK
  <2>6. n \in Nat
    BY <2>1, ReadFacts
  <2>7. \A k \in 1..(n + 1) : file.slices[k].ok
    <3>1. \A k \in 1..(n + 1) : k \in 1..n \/ k = n + 1
      BY <2>6
    <3> QED
      BY <2>4, <2>5, <3>1
  <2>8. /\ path'[t] # NoPath /\ paths'[path'[t]].opens
        /\ source'[t] <= Len(paths'[path'[t]].slices)
        /\ \A k \in 1..source'[t] : paths'[path'[t]].slices[k].ok
    BY <1>0, <2>1, <2>4, <2>5, <2>7
  <2> QED
    BY <1>0, <1>1, <2>1, <2>3, <2>4, <2>8 DEF SourceOK
<1>12. CASE ParseWhole(t)
  <2>1. path' = path /\ source' = source /\ reader = "whole" /\ pc[t] = "open"
        /\ pc'[t] \in {"scan", "threw"}
    BY <1>12 DEF ParseWhole, TypeOK
  <2> QED
    BY <1>0, <1>3, <2>1
<1>13. CASE Emit(t)
  BY <1>2, <1>13 DEF Emit, AfterChunk, TypeOK
<1>14. CASE Interrupt(t)
  BY <1>2, <1>14 DEF Interrupt, TypeOK
<1> QED
  BY <1>5, <1>6, <1>7, <1>8, <1>9, <1>10, <1>11, <1>12, <1>13, <1>14 DEF Step

\* The thread still ends only for a reason.
LEMMA StepEnd ==
  ASSUME TypeOK, NEW t \in Threads, EndOK(t), Step(t)
  PROVE  EndOK(t)'
<1> USE DEF Goto, Stopped
<1>0. /\ Len(paths) \in Nat /\ next_text_path \in Nat /\ paths' = paths
      /\ next_text_path <= next_text_path'
      /\ failed => failed'
      /\ pending[t] \in Seq(TextRows)
  BY StepFrame, Glob DEF TypeOK
<1>1. CASE pc'[t] \notin {"threw", "done", "emit"}
  BY <1>1 DEF EndOK
<1>2. CASE failed'
  BY <1>2 DEF EndOK
<1>3. CASE CallScan(t)
  BY <1>1, <1>3 DEF CallScan, TypeOK
<1>4. CASE ScanFull(t)
  <2>1. pending[t] # <<>> /\ pending' = pending /\ pc'[t] = "emit"
    <3>1. ~WantsMore(t) /\ pending' = pending /\ pc'[t] = "emit"
      BY <1>4 DEF ScanFull, TypeOK
    <3>2. ASSUME pending[t] = <<>> PROVE FALSE
      <4>1. Len(pending[t]) = 0 /\ VECTOR_SIZE \in Nat \ {0}
        BY <3>2, TextAssumption
      <4>2. WantsMore(t)
        BY <3>2, <4>1 DEF WantsMore
      <4> QED
        BY <3>1, <4>2
    <3> QED
      BY <3>1, <3>2
  <2> QED
    BY <2>1 DEF EndOK
<1>5. CASE NextPath(t)
  <2>1. CASE next_text_path >= Len(paths)
    <3>1. /\ source'[t] = NoSource /\ pc'[t] = "emit" /\ next_text_path' = next_text_path + 1
      BY <1>5, <2>1 DEF NextPath, TypeOK
    <3>2. Len(paths') <= next_text_path'
      BY <1>0, <2>1, <3>1
    <3> QED
      BY <3>1, <3>2 DEF EndOK
  <2>2. CASE ~(next_text_path >= Len(paths))
    BY <1>1, <1>5, <2>2 DEF NextPath, TypeOK
  <2> QED
    BY <2>1, <2>2
<1>6. CASE OpenThrows(t)
  BY <1>2, <1>6 DEF OpenThrows
<1>7. CASE OpenSource(t)
  BY <1>1, <1>7 DEF OpenSource, TypeOK
<1>8. CASE ParseSlice(t)
  BY <1>1, <1>2, <1>8 DEF ParseSlice, TypeOK
<1>9. CASE ParseWhole(t)
  BY <1>1, <1>2, <1>9 DEF ParseWhole, TypeOK
<1>10. CASE Emit(t)
  <2>1. CASE ChunkLen(t) = 0
    <3>1. /\ pc[t] = "emit" /\ pc'[t] = "done" /\ source' = source /\ failed' = failed
          /\ next_text_path' = next_text_path
          /\ pending' = [pending EXCEPT ![t] = SubSeq(pending[t], ChunkLen(t) + 1, Len(pending[t]))]
      BY <1>10, <2>1 DEF Emit, AfterChunk, TypeOK
    <3>2. pending[t] = <<>>
      BY <1>10, <2>1, EmitRows
    <3>3. pending'[t] = <<>>
      BY <2>1, <3>1, <3>2 DEF TypeOK
    <3> QED
      BY <1>0, <3>1, <3>2, <3>3 DEF EndOK
  <2>2. CASE ChunkLen(t) # 0
    BY <1>1, <1>10, <2>2 DEF Emit, AfterChunk, TypeOK
  <2> QED
    BY <2>1, <2>2
<1>11. CASE Interrupt(t)
  BY <1>2, <1>11 DEF Interrupt
<1> QED
  BY <1>3, <1>4, <1>5, <1>6, <1>7, <1>8, <1>9, <1>10, <1>11 DEF Step

\* A step of one thread leaves what the invariant says of another.
LEMMA OthersStay ==
  ASSUME TypeOK, NEW t \in Threads, Step(t), NEW u \in Threads \ {t},
         SourceOK(u), EndOK(u), RowsOK(u)
  PROVE  SourceOK(u)' /\ EndOK(u)' /\ RowsOK(u)' /\ Made(u)' = Made(u)
<1>1. /\ paths' = paths /\ reader' = reader
      /\ failed => failed'
      /\ next_text_path \in Nat /\ next_text_path <= next_text_path'
      /\ pc'[u] = pc[u] /\ path'[u] = path[u] /\ source'[u] = source[u]
      /\ record_no'[u] = record_no[u] /\ pending'[u] = pending[u] /\ output'[u] = output[u]
  BY StepFrame DEF OthersKeep
<1>2. next_text_path' \in Nat /\ path[u] \in Nat /\ Len(paths) \in Nat
  <2>1. next_text_path' \in {next_text_path, next_text_path + 1}
    BY DEF Step, CallScan, ScanFull, NextPath, OpenThrows, OpenSource, ParseSlice, ParseWhole, Emit,
       Interrupt
  <2> QED
    BY <1>1, <2>1, Glob DEF TypeOK
<1>3. Made(u)' = Made(u)
  BY <1>1 DEF Made
<1>4. (Reading(u)' <=> Reading(u)) /\ HasRead(u)' = HasRead(u)
  BY <1>1 DEF Reading, HasRead
<1>5. SourceOK(u)'
  BY <1>1, <1>2, <1>4 DEF SourceOK
<1>6. EndOK(u)'
  BY <1>1, <1>2 DEF EndOK
<1>7. \A row : (Exact(row)' <=> Exact(row)) /\ (Reached(u, row)' <=> Reached(u, row))
  BY <1>1, <1>4 DEF Exact, All, Reached
<1>8. RowsOK(u)'
  BY <1>3, <1>7 DEF RowsOK, Exact, Reached
<1> QED
  BY <1>3, <1>5, <1>6, <1>8

\* The file is the thread's current one or one of which it has made rows.
Has(t, f) == path[t] = f \/ \E i \in 1..Len(Made(t)) : Made(t)[i].file = f

\* No file is had by both.
Apart(t, u) == \A f : f # NoPath => ~(Has(t, f) /\ Has(u, f))

\* FilesApart, of both threads, in these terms.
LEMMA ApartIs ==
  ASSUME NEW t \in Threads, NEW u \in Threads, RowsOK(t), RowsOK(u)
  PROVE  FilesApart(t, u) /\ FilesApart(u, t) <=> Apart(t, u)
<1>1. ASSUME NEW v \in {t, u} PROVE \A i \in 1..Len(Made(v)) : Made(v)[i].file # NoPath
  <2>1. \A i \in 1..Len(Made(v)) : Made(v)[i].file \in 1..Len(paths)
    BY DEF RowsOK, Exact
  <2> QED
    BY <2>1 DEF NoPath
<1>2. ASSUME FilesApart(t, u), FilesApart(u, t) PROVE Apart(t, u)
  BY <1>2 DEF FilesApart, Apart, Has
<1>3. ASSUME Apart(t, u) PROVE FilesApart(t, u)
  <2>1. path[t] = path[u] => path[t] = NoPath
    BY <1>3 DEF Apart, Has
  <2>2. ASSUME NEW i \in 1..Len(Made(t))
        PROVE  /\ Made(t)[i].file # path[u]
               /\ \A j \in 1..Len(Made(u)) : Made(t)[i].file # Made(u)[j].file
    <3>1. Has(t, Made(t)[i].file) /\ Made(t)[i].file # NoPath
      BY <1>1 DEF Has
    <3>2. ~Has(u, Made(t)[i].file)
      BY <1>3, <3>1 DEF Apart
    <3> QED
      BY <3>2 DEF Has
  <2> QED
    BY <2>1, <2>2 DEF FilesApart
<1>4. ASSUME Apart(t, u) PROVE FilesApart(u, t)
  <2>1. path[u] = path[t] => path[u] = NoPath
    BY <1>4 DEF Apart, Has
  <2>2. ASSUME NEW i \in 1..Len(Made(u))
        PROVE  /\ Made(u)[i].file # path[t]
               /\ \A j \in 1..Len(Made(t)) : Made(u)[i].file # Made(t)[j].file
    <3>1. Has(u, Made(u)[i].file) /\ Made(u)[i].file # NoPath
      BY <1>1 DEF Has
    <3>2. ~Has(t, Made(u)[i].file)
      BY <1>4, <3>1 DEF Apart
    <3> QED
      BY <3>2 DEF Has
  <2> QED
    BY <2>1, <2>2 DEF FilesApart
<1> QED
  BY <1>2, <1>3, <1>4

\* The same of the state after a step.
LEMMA ApartIsNext ==
  ASSUME NEW t \in Threads, NEW u \in Threads, RowsOK(t)', RowsOK(u)', Apart(t, u)'
  PROVE  FilesApart(t, u)' /\ FilesApart(u, t)'
<1>1. (RowsOK(t) /\ RowsOK(u) => (FilesApart(t, u) /\ FilesApart(u, t) <=> Apart(t, u)))'
  BY ApartIs, PTL
<1> QED
  BY <1>1

\* Every file a thread has was handed out.
LEMMA HandedOut ==
  ASSUME TypeOK, NEW t \in Threads, SourceOK(t), RowsOK(t), NEW f, Has(t, f)
  PROVE  f \in Nat /\ f <= next_text_path
<1>1. path[t] \in Nat /\ path[t] <= next_text_path /\ next_text_path \in Nat
  BY DEF TypeOK, SourceOK
<1>2. ASSUME NEW i \in 1..Len(Made(t)), Made(t)[i].file = f PROVE f \in Nat /\ f <= path[t]
  <2>1. f \in 1..Len(paths) /\ f <= path[t]
    BY <1>2 DEF RowsOK, Exact, Reached
  <2> QED
    BY <2>1
<1> QED
  BY <1>1, <1>2 DEF Has

\* The only file that a step can add is the next one.
LEMMA HasMore ==
  ASSUME TypeOK, NEW t \in Threads, SourceOK(t), RowsOK(t), Step(t), NEW f, Has(t, f)'
  PROVE  Has(t, f) \/ f = next_text_path + 1
<1>1. CASE ParsesOn(t)
  <2>1. PICK skip : \E recs : Parses(t, skip, recs)
    BY <1>1, ParsesSome
  <2>2. PICK recs : Parses(t, skip, recs)
    BY <2>1
  <2>3. path' = path
    BY <2>2 DEF Parses
  <2>4. \A m \in 1..Len(Made(t)') :
          Made(t)'[m].file = path[t] \/ \E i \in 1..Len(Made(t)) : Made(t)'[m] = Made(t)[i]
    BY <2>2, Parsing
  <2> QED
    BY <2>3, <2>4 DEF Has
<1>2. CASE ~ParsesOn(t)
  <2>1. Made(t)' = Made(t)
    BY <1>2, MadeSame
  <2>2. path' = path \/ path'[t] = next_text_path + 1
    BY DEF Step, CallScan, ScanFull, NextPath, OpenThrows, OpenSource, ParseSlice, ParseWhole, Emit,
       Interrupt, TypeOK
  <2> QED
    BY <2>1, <2>2 DEF Has
<1> QED
  BY <1>1, <1>2

\* The threads' files stay apart.
LEMMA StepApart ==
  ASSUME TypeOK, NEW t \in Threads, NEW u \in Threads \ {t}, Step(t),
         SourceOK(t), RowsOK(t), SourceOK(u), RowsOK(u), EndOK(u),
         FilesApart(t, u), FilesApart(u, t)
  PROVE  FilesApart(t, u)' /\ FilesApart(u, t)'
<1>1. Apart(t, u)
  BY ApartIs
<1>2. RowsOK(t)' /\ RowsOK(u)' /\ Made(u)' = Made(u) /\ path'[u] = path[u]
  BY StepRows, OthersStay, StepFrame DEF OthersKeep
<1>3. \A f : Has(u, f)' <=> Has(u, f)
  BY <1>2 DEF Has
<1>4. next_text_path \in Nat
  BY DEF TypeOK
<1>5. ASSUME NEW f, f # NoPath, Has(t, f)', Has(u, f)' PROVE FALSE
  <2>1. Has(u, f)
    BY <1>3, <1>5
  <2>2. f \in Nat /\ f <= next_text_path
    BY <2>1, HandedOut
  <2>3. Has(t, f)
    BY <1>4, <1>5, <2>2, HasMore
  <2> QED
    BY <1>1, <1>5, <2>1, <2>3 DEF Apart
<1>6. Apart(t, u)'
  BY <1>5 DEF Apart, NoPath
<1> QED
  BY <1>2, <1>6, ApartIsNext

\* A file whose slices were all read is wholly made into rows.
LEMMA WhollyRead ==
  ASSUME TypeOK, NEW t \in Threads, SourceOK(t), pc[t] = "scan", ~HasSlice(t),
         NEW f \in 1..Len(paths), HandledBy(t, f)
  PROVE  paths[f].opens /\ ParsesWhole(paths[f]) /\ MadeUpTo(t, f, Len(All(f)))
<1>1. CASE path[t] = f /\ Reading(t) /\ MadeUpTo(t, f, HasRead(t))
  <2>1. /\ paths[f] \in Files /\ source[t] \in 0..Len(paths[f].slices)
        /\ Len(paths[f].slices) \in Nat
    BY <1>1, ReadFacts, FileFacts
  <2>2. reader = "slices" /\ source[t] # NoSource /\ reader \in {"slices", "whole"}
    BY <1>1, TextAssumption DEF SourceOK, Reading, TypeOK
  <2>3. source[t] = Len(paths[f].slices)
    BY <1>1, <2>1, <2>2 DEF HasSlice
  <2>4. paths[f].opens /\ \A k \in 1..Len(paths[f].slices) : paths[f].slices[k].ok
    BY <1>1, <2>3 DEF SourceOK
  <2>5. DOMAIN paths[f].slices = 1..Len(paths[f].slices)
    BY <2>1, FileParts
  <2>6. HasRead(t) = Len(All(f))
    BY <1>1, <2>3 DEF HasRead, All
  <2> QED
    BY <1>1, <2>4, <2>5, <2>6 DEF ParsesWhole
<1> QED
  BY <1>1 DEF HandledBy

\* A file that the thread handles stays handled by it.
LEMMA StepHandles ==
  ASSUME TypeOK, NEW t \in Threads, SourceOK(t), EndOK(t), RowsOK(t), Step(t), ~failed',
         NEW f \in 1..Len(paths), HandledBy(t, f)
  PROVE  HandledBy(t, f)'
<1> USE DEF Goto, Stopped
<1>0. paths' = paths /\ \A g : All(g)' = All(g)
  BY StepFrame DEF All
<1>1. ASSUME paths[f].opens, ParsesWhole(paths[f]), MadeUpTo(t, f, Len(All(f)))'
      PROVE  HandledBy(t, f)'
  BY <1>0, <1>1 DEF HandledBy
<1>2. ASSUME Made(t)' = Made(t) PROVE \A n : MadeUpTo(t, f, n) => MadeUpTo(t, f, n)'
  BY <1>0, <1>2 DEF MadeUpTo
<1>3. CASE /\ path' = path /\ source' = source /\ Made(t)' = Made(t)
           /\ pc[t] \notin {"open", "threw"} /\ pc'[t] \notin {"open", "threw"}
  <2>1. (Reading(t)' <=> Reading(t)) /\ HasRead(t)' = HasRead(t)
    BY <1>0, <1>3 DEF Reading, HasRead
  <2>2. CASE path[t] = f /\ Reading(t) /\ MadeUpTo(t, f, HasRead(t))
    <3>1. MadeUpTo(t, f, HasRead(t))'
      BY <1>0, <1>3, <2>1, <2>2 DEF MadeUpTo
    <3> QED
      BY <1>3, <2>1, <2>2, <3>1 DEF HandledBy
  <2>3. CASE paths[f].opens /\ ParsesWhole(paths[f]) /\ MadeUpTo(t, f, Len(All(f)))
    BY <1>0, <1>1, <1>2, <1>3, <2>3
  <2> QED
    BY <1>3, <2>2, <2>3 DEF HandledBy
<1>4. CASE CallScan(t)
  BY <1>3, <1>4, MadeSame DEF CallScan, TypeOK, Made
<1>5. CASE ScanFull(t)
  BY <1>3, <1>5 DEF ScanFull, TypeOK, Made
<1>6. CASE NextPath(t)
  <2>1. paths[f].opens /\ ParsesWhole(paths[f]) /\ MadeUpTo(t, f, Len(All(f)))
    BY <1>6, WhollyRead DEF NextPath
  <2>2. Made(t)' = Made(t)
    BY <1>6 DEF NextPath, Made
  <2> QED
    BY <1>0, <1>1, <1>2, <2>1, <2>2
<1>7. CASE OpenThrows(t)
  BY <1>7 DEF OpenThrows
<1>8. CASE OpenSource(t)
  <2>1. /\ pc[t] = "open" /\ path' = path /\ source'[t] = 0 /\ pc'[t] = "scan"
        /\ Made(t)' = Made(t)
    BY <1>8 DEF OpenSource, TypeOK, Made
  <2>2. CASE path[t] = f
    <3>1. paths[f] \in Files /\ Len(paths[f].slices) \in Nat
      BY FileFacts
    <3>2. 0 \in 0..Len(paths[f].slices)
      BY <3>1
    <3>3. HasRead(t)' = 0
      BY <1>0, <2>1, <2>2, <3>1, <3>2, RecordsGrow DEF HasRead
    <3>4. Reading(t)' /\ MadeUpTo(t, f, HasRead(t))'
      BY <2>1, <3>3 DEF Reading, NoSource, MadeUpTo
    <3> QED
      BY <2>1, <2>2, <3>4 DEF HandledBy
  <2>3. CASE paths[f].opens /\ ParsesWhole(paths[f]) /\ MadeUpTo(t, f, Len(All(f)))
    BY <1>0, <1>1, <1>2, <2>1, <2>3
  <2> QED
    BY <2>2, <2>3 DEF HandledBy
<1>9. CASE ParseSlice(t)
  <2>1. paths[path[t]].slices[source[t] + 1].ok
    BY <1>9 DEF ParseSlice
  <2>2. PICK recs : Parses(t, HasRead(t), recs) /\ HasRead(t)' = HasRead(t) + Len(recs)
    BY <1>9, <2>1, SliceParses
  <2>3. pc[t] = "scan" /\ path' = path /\ Reading(t)'
    BY <1>9, <2>1, SliceParses DEF ParseSlice
  <2>4. CASE path[t] = f /\ MadeUpTo(t, f, HasRead(t))
    <3>1. \E n : n = HasRead(t)' /\ MadeUpTo(t, f, n)'
      BY <2>2, <2>4, Parsing
    <3>2. MadeUpTo(t, f, HasRead(t))'
      BY <3>1 DEF MadeUpTo
    <3> QED
      BY <2>3, <2>4, <3>2 DEF HandledBy
  <2>5. CASE paths[f].opens /\ ParsesWhole(paths[f]) /\ MadeUpTo(t, f, Len(All(f)))
    <3>1. \E n : n = Len(All(f))' /\ MadeUpTo(t, f, n)'
      BY <1>0, <2>2, <2>5, Parsing
    <3>2. MadeUpTo(t, f, Len(All(f)))'
      BY <3>1 DEF MadeUpTo
    <3> QED
      BY <1>1, <2>5, <3>2
  <2> QED
    BY <2>3, <2>4, <2>5 DEF HandledBy
<1>10. CASE ParseWhole(t)
  <2>1. ParsesWhole(paths[path[t]])
    BY <1>10 DEF ParseWhole
  <2>2. Parses(t, 0, All(path[t])) /\ source[t] = NoSource /\ paths[path[t]].opens
    BY <1>10, <2>1, WholeParses
  <2>3. CASE path[t] = f
    <3>1. MadeUpTo(t, f, 0)
      BY DEF MadeUpTo
    <3>2. \E n : n = 0 + Len(All(f)) /\ MadeUpTo(t, f, n)'
      BY <2>2, <2>3, <3>1, Parsing
    <3>3. Len(All(f)) \in Nat
      BY FileFacts
    <3>4. 0 + Len(All(f)) = Len(All(f))
      BY ONLY <3>3
    <3>5. MadeUpTo(t, f, Len(All(f)))'
      BY <1>0, <3>2, <3>4 DEF MadeUpTo
    <3> QED
      BY <1>1, <2>1, <2>2, <2>3, <3>5
  <2>4. CASE paths[f].opens /\ ParsesWhole(paths[f]) /\ MadeUpTo(t, f, Len(All(f)))
    <3>1. \E n : n = Len(All(f))' /\ MadeUpTo(t, f, n)'
      BY <1>0, <2>2, <2>4, Parsing
    <3>2. MadeUpTo(t, f, Len(All(f)))'
      BY <3>1 DEF MadeUpTo
    <3> QED
      BY <1>1, <2>4, <3>2
  <2> QED
    BY <2>2, <2>3, <2>4 DEF HandledBy, Reading
<1>11. CASE Emit(t)
  <2>1. Made(t)' = Made(t)
    BY <1>11, EmitRows
  <2> QED
    BY <1>3, <1>11, <2>1 DEF Emit, AfterChunk, TypeOK
<1>12. CASE Interrupt(t)
  BY <1>12 DEF Interrupt
<1> QED
  BY <1>4, <1>5, <1>6, <1>7, <1>8, <1>9, <1>10, <1>11, <1>12 DEF Step

\* What another thread handles it still handles.
LEMMA OthersHandle ==
  ASSUME TypeOK, NEW t \in Threads, Step(t), NEW u \in Threads \ {t}, NEW f, HandledBy(u, f)
  PROVE  HandledBy(u, f)'
<1>1. /\ paths' = paths /\ pc'[u] = pc[u] /\ path'[u] = path[u] /\ source'[u] = source[u]
      /\ pending'[u] = pending[u] /\ output'[u] = output[u]
  BY StepFrame DEF OthersKeep
<1>2. /\ Made(u)' = Made(u) /\ (Reading(u)' <=> Reading(u)) /\ HasRead(u)' = HasRead(u)
      /\ \A g : All(g)' = All(g)
  BY <1>1 DEF Made, Reading, HasRead, All
<1>3. /\ MadeUpTo(u, f, HasRead(u)) => MadeUpTo(u, f, HasRead(u))'
      /\ MadeUpTo(u, f, Len(All(f))) => MadeUpTo(u, f, Len(All(f)))'
  BY <1>2 DEF MadeUpTo
<1> QED
  BY <1>1, <1>2, <1>3 DEF HandledBy

\* No file is lost.
LEMMA StepFiles ==
  ASSUME TypeOK, NEW t \in Threads, Step(t), FilesHandled,
         SourceOK(t), EndOK(t), RowsOK(t)
  PROVE  FilesHandled'
<1> SUFFICES ASSUME ~failed', NEW f \in 1..Len(paths), f <= next_text_path'
             PROVE  \E u \in Threads : HandledBy(u, f)'
  BY StepFrame DEF FilesHandled
<1>1. ~failed /\ next_text_path \in Nat /\ Len(paths) \in Nat
  BY StepFrame, Glob DEF TypeOK
<1>2. CASE f <= next_text_path
  <2>1. PICK u \in Threads : HandledBy(u, f)
    BY <1>1, <1>2 DEF FilesHandled
  <2>2. CASE u = t
    BY <2>1, <2>2, StepHandles
  <2>3. CASE u # t
    BY <2>1, <2>3, OthersHandle
  <2> QED
    BY <2>2, <2>3
<1>3. CASE ~(f <= next_text_path)
  <2>1. NextPath(t)
    BY <1>3 DEF Step, CallScan, ScanFull, OpenThrows, OpenSource, ParseSlice, ParseWhole, Emit,
       Interrupt
  <2>2. next_text_path' = next_text_path + 1
    BY <2>1 DEF NextPath
  <2>3. f = next_text_path + 1 /\ ~(next_text_path >= Len(paths))
    BY <1>1, <1>3, <2>2
  <2>4. path'[t] = f /\ pc'[t] = "open"
    BY <2>1, <2>3 DEF NextPath, Goto, TypeOK
  <2> QED
    BY <2>4 DEF HandledBy
<1> QED
  BY <1>2, <1>3

\* The engine is handed as many rows more as the chunk is long.
LEMMA EmitGrows ==
  ASSUME TypeOK, IsFiniteSet(EmittedSet), NEW t \in Threads, Emit(t)
  PROVE  /\ IsFiniteSet(EmittedSet)'
         /\ Cardinality(EmittedSet') = Cardinality(EmittedSet) + ChunkLen(t)
<1> DEFINE out == output[t]
           n == ChunkLen(t)
           L == Len(out)
           f == [i \in 1..n |-> <<t, L + i>>]
<1>1. /\ n \in Nat /\ L \in Nat /\ out \in Seq(TextRows) /\ Chunk(t) \in Seq(TextRows)
      /\ Len(Chunk(t)) = n
      /\ output' = [output EXCEPT ![t] = out \o Chunk(t)]
      /\ output \in [Threads -> Seq(TextRows)]
  BY EmitRows, SMTT(30) DEF TypeOK
<1> HIDE DEF n, L, out
<1>2. DOMAIN output'[t] = 1..(L + n) /\ DOMAIN out = 1..L
  <2>1. Len(out \o Chunk(t)) = L + n /\ out \o Chunk(t) \in Seq(TextRows)
    BY <1>1, Joined DEF L
  <2>2. DOMAIN (out \o Chunk(t)) = 1..(L + n)
    BY <2>1
  <2> QED
    BY <1>1, <2>2 DEF L
<1>3. EmittedSet' = EmittedSet \cup {f[i] : i \in 1..n}
  <2>1. \A u \in Threads \ {t} : output'[u] = output[u]
    BY <1>1
  <2>2. {<<t, i>> : i \in DOMAIN output'[t]} = {<<t, i>> : i \in DOMAIN output[t]} \cup {f[i] : i \in 1..n}
    <3>1. \A k \in 1..(L + n) : k \in 1..L \/ \E i \in 1..n : k = L + i
      <4> SUFFICES ASSUME NEW k \in 1..(L + n), k \notin 1..L PROVE \E i \in 1..n : k = L + i
        OBVIOUS
      <4>1. k - L \in 1..n /\ k = L + (k - L)
        BY <1>1
      <4> QED
        BY <4>1
    <3>2. \A i \in 1..n : L + i \in 1..(L + n)
      BY <1>1
    <3>3. \A k \in 1..L : k \in 1..(L + n)
      BY <1>1
    <3> QED
      BY <1>2, <3>1, <3>2, <3>3 DEF out
  <2> HIDE DEF f
  <2>3. EmittedSet' = {<<t, i>> : i \in DOMAIN output'[t]} \cup
                      UNION {{<<u, i>> : i \in DOMAIN output'[u]} : u \in Threads \ {t}}
    BY DEF EmittedSet
  <2>4. EmittedSet = {<<t, i>> : i \in DOMAIN output[t]} \cup
                     UNION {{<<u, i>> : i \in DOMAIN output[u]} : u \in Threads \ {t}}
    BY DEF EmittedSet
  <2>5. UNION {{<<u, i>> : i \in DOMAIN output'[u]} : u \in Threads \ {t}}
          = UNION {{<<u, i>> : i \in DOMAIN output[u]} : u \in Threads \ {t}}
    BY <2>1
  <2> QED
    BY <2>2, <2>3, <2>4, <2>5
<1>4. \A i \in 1..n : f[i] \notin EmittedSet
  <2> SUFFICES ASSUME NEW i \in 1..n, NEW u \in Threads, NEW k \in DOMAIN output[u],
                      f[i] = <<u, k>>
               PROVE  FALSE
    BY DEF EmittedSet
  <2>1. u = t /\ k = L + i
    OBVIOUS
  <2>2. k \in 1..L
    BY <1>2, <2>1 DEF out
  <2> QED
    BY <1>1, <2>1, <2>2
<1> DEFINE T == {<<t, L + i>> : i \in 1..n}
<1>5. f \in Bijection(1..n, T)
  <2>1. f \in [1..n -> T] /\ \A i \in 1..n : f[i] = <<t, L + i>>
    OBVIOUS
  <2> HIDE DEF f
  <2>2. \A y \in T : \E i \in 1..n : f[i] = y
    BY <2>1
  <2>3. \A i, j \in 1..n : f[i] = f[j] => i = j
    BY <1>1, <2>1
  <2> QED
    BY <2>1, <2>2, <2>3, Fun_IsBij
<1>6. EmittedSet \cap T = {} /\ EmittedSet' = EmittedSet \cup T
  BY <1>3, <1>4
<1> HIDE DEF f, T
<1>7. \A S : IsFiniteSet(S) /\ S \cap T = {} =>
         IsFiniteSet(S \cup T) /\ Cardinality(S \cup T) = Cardinality(S) + n
  BY <1>1, <1>5, Grown, ZenonT(30)
<1> QED
  BY <1>6, <1>7 DEF n

\* Only Emit hands rows to the engine.
LEMMA OutputSame ==
  ASSUME NEW t \in Threads, Step(t), ~Emit(t)
  PROVE  output' = output
BY DEF Step, CallScan, ScanFull, NextPath, OpenThrows, OpenSource, ParseSlice, ParseWhole, Interrupt

-----------------------------------------------------------------------------
(* The invariant.                                                          *)

\* It holds at the start.
LEMMA InitInv == Init => TextInv
<1> SUFFICES ASSUME Init PROVE TextInv
  OBVIOUS
<1>1. paths \in Seq(Files) /\ Len(paths) \in Nat
  BY Glob DEF Init
<1>2. <<>> \in Seq(TextRows) /\ Len(<<>>) = 0 /\ DOMAIN <<>> = {}
  OBVIOUS
<1>3. TypeOK
  BY <1>2 DEF Init, TypeOK, Stopped, NoPath, NoSource
<1>4. ASSUME NEW t \in Threads
      PROVE  /\ path[t] = 0 /\ source[t] = NoSource /\ pc[t] = "ready"
             /\ Made(t) = <<>> /\ Len(Made(t)) = 0
  <2>1. output[t] = <<>> /\ pending[t] = <<>>
    BY DEF Init
  <2>2. <<>> \o <<>> = <<>>
    OBVIOUS
  <2>3. Made(t) = <<>>
    BY <2>1, <2>2 DEF Made
  <2> QED
    BY <1>2, <2>3 DEF Init, NoPath
<1>5. ASSUME NEW t \in Threads PROVE SourceOK(t) /\ EndOK(t) /\ RowsOK(t)
  <2>1. SourceOK(t)
    BY <1>1, <1>4 DEF Init, SourceOK, Reading, NoSource
  <2>2. EndOK(t)
    BY <1>4 DEF EndOK
  <2>3. RowsOK(t)
    BY <1>4 DEF RowsOK
  <2> QED
    BY <2>1, <2>2, <2>3
<1>6. ASSUME NEW t \in Threads, NEW u \in Threads PROVE FilesApart(t, u)
  BY <1>4 DEF FilesApart, NoPath
<1>7. FilesHandled
  <2>1. \A f \in 1..Len(paths) : ~(f <= next_text_path)
    BY <1>1 DEF Init
  <2> QED
    BY <2>1 DEF FilesHandled
<1>8. EmittedSet = {}
  <2>1. \A t \in Threads : DOMAIN output[t] = {}
    BY <1>2 DEF Init
  <2> QED
    BY <2>1 DEF EmittedSet
<1>9. IsFiniteSet(EmittedSet)
  BY <1>8, FS_EmptySet
<1> QED
  BY <1>3, <1>5, <1>6, <1>7, <1>9 DEF TextInv

\* Every step keeps it.
LEMMA StepInv ==
  ASSUME TextInv, NEW t \in Threads, Step(t)
  PROVE  TextInv'
<1>1. /\ TypeOK /\ FilesHandled /\ IsFiniteSet(EmittedSet)
      /\ \A u \in Threads : SourceOK(u) /\ EndOK(u) /\ RowsOK(u)
      /\ \A u, v \in Threads : u # v => FilesApart(u, v)
  BY DEF TextInv
<1>2. TypeOK'
  BY <1>1, StepType
<1>3. ASSUME NEW u \in Threads PROVE SourceOK(u)' /\ EndOK(u)' /\ RowsOK(u)'
  <2>1. CASE u = t
    BY <1>1, <2>1, StepSource, StepEnd, StepRows
  <2>2. CASE u # t
    BY <1>1, <2>2, OthersStay
  <2> QED
    BY <2>1, <2>2
<1>4. ASSUME NEW u \in Threads, NEW v \in Threads, u # v PROVE FilesApart(u, v)'
  <2>1. CASE u = t
    BY <1>1, <1>4, <2>1, StepApart
  <2>2. CASE v = t
    BY <1>1, <1>4, <2>2, StepApart
  <2>3. CASE u # t /\ v # t
    <3>1. Made(u)' = Made(u) /\ Made(v)' = Made(v)
      BY <1>1, <2>3, OthersStay
    <3>2. path'[u] = path[u] /\ path'[v] = path[v]
      BY <1>1, <2>3, StepFrame DEF OthersKeep
    <3>3. FilesApart(u, v)
      BY <1>1, <1>4
    <3> QED
      BY <3>1, <3>2, <3>3 DEF FilesApart, NoPath
  <2> QED
    BY <2>1, <2>2, <2>3
<1>5. FilesHandled'
  BY <1>1, StepFiles
<1>6. IsFiniteSet(EmittedSet)'
  <2>1. CASE Emit(t)
    BY <1>1, <2>1, EmitGrows
  <2>2. CASE ~Emit(t)
    BY <1>1, <2>2, OutputSame DEF EmittedSet
  <2> QED
    BY <2>1, <2>2
<1> QED
  BY <1>2, <1>3, <1>4, <1>5, <1>6 DEF TextInv

\* A step that changes nothing keeps it too.
LEMMA StutterInv ==
  ASSUME TextInv, UNCHANGED vars
  PROVE  TextInv'
<1>1. /\ paths' = paths /\ reader' = reader /\ next_text_path' = next_text_path
      /\ pc' = pc /\ path' = path /\ source' = source /\ record_no' = record_no
      /\ pending' = pending /\ output' = output /\ failed' = failed
  BY DEF vars
<1>2. /\ TypeOK /\ FilesHandled /\ IsFiniteSet(EmittedSet)
      /\ \A u \in Threads : SourceOK(u) /\ EndOK(u) /\ RowsOK(u)
      /\ \A u, v \in Threads : u # v => FilesApart(u, v)
  BY DEF TextInv
<1>3. TypeOK'
  BY <1>1, <1>2 DEF TypeOK
<1>4. ASSUME NEW u \in Threads
      PROVE  /\ Made(u)' = Made(u) /\ (Reading(u)' <=> Reading(u)) /\ HasRead(u)' = HasRead(u)
             /\ \A g : All(g)' = All(g)
  BY <1>1 DEF Made, Reading, HasRead, All
<1>5. ASSUME NEW u \in Threads PROVE SourceOK(u)' /\ EndOK(u)' /\ RowsOK(u)'
  <2>1. SourceOK(u)'
    BY <1>1, <1>2, <1>4 DEF SourceOK
  <2>2. EndOK(u)'
    BY <1>1, <1>2 DEF EndOK
  <2>3. \A row : (Exact(row)' <=> Exact(row)) /\ (Reached(u, row)' <=> Reached(u, row))
    BY <1>1, <1>4 DEF Exact, Reached
  <2>4. RowsOK(u)'
    BY <1>2, <1>4, <2>3, ZenonT(30) DEF RowsOK, Exact, Reached
  <2> QED
    BY <2>1, <2>2, <2>4
<1>6. ASSUME NEW u \in Threads, NEW v \in Threads, u # v PROVE FilesApart(u, v)'
  <2>1. FilesApart(u, v) /\ Made(u)' = Made(u) /\ Made(v)' = Made(v)
    BY <1>2, <1>4, <1>6
  <2> QED
    BY <1>1, <2>1 DEF FilesApart, NoPath
<1>7. ASSUME NEW u \in Threads, NEW f, HandledBy(u, f) PROVE HandledBy(u, f)'
  <2>1. /\ MadeUpTo(u, f, HasRead(u)) => MadeUpTo(u, f, HasRead(u))'
        /\ MadeUpTo(u, f, Len(All(f))) => MadeUpTo(u, f, Len(All(f)))'
    BY <1>4 DEF MadeUpTo
  <2> QED
    BY <1>1, <1>4, <1>7, <2>1 DEF HandledBy
<1>8. FilesHandled'
  BY <1>1, <1>2, <1>7 DEF FilesHandled
<1>9. IsFiniteSet(EmittedSet)'
  BY <1>1, <1>2 DEF EmittedSet
<1> QED
  BY <1>3, <1>5, <1>6, <1>8, <1>9 DEF TextInv

\* The records of every thread are numbered by its file, its files are its
\* own, and no file that was handed out is lost.
THEOREM Inductive == Spec => []TextInv
<1>1. TextInv /\ [Next]_vars => TextInv'
  BY StepInv, StutterInv DEF Next, Terminated
<1> QED
  BY InitInv, <1>1, PTL DEF Spec

\* A returned row is one that was made.
LEMMA OutputOK ==
  ASSUME TextInv, NEW t \in Threads, NEW i \in 1..Len(output[t])
  PROVE  i \in 1..Len(Made(t)) /\ Made(t)[i] = output[t][i] /\ Exact(output[t][i])
<1>1. TypeOK /\ RowsOK(t)
  BY DEF TextInv
<1>2. i \in 1..Len(Made(t)) /\ Made(t)[i] = output[t][i]
  BY <1>1, OutputIsMade
<1>3. Exact(Made(t)[i])
  BY <1>1, <1>2 DEF RowsOK
<1> QED
  BY <1>2, <1>3

\* Every row carries its own file and the number of its record there, over
\* slices of any number of records and over any number of files.
THEOREM NumbersExact == Spec => []OrdinalsExact
<1>1. TextInv => OrdinalsExact
  <2> SUFFICES ASSUME TextInv, NEW t \in Threads, NEW row \in Elements(output[t])
               PROVE  row.file = row.raw[1] /\ row.record_no = row.raw[2]
    BY DEF OrdinalsExact
  <2>1. output[t] \in Seq(TextRows)
    BY DEF TextInv, TypeOK
  <2>2. PICK i \in 1..Len(output[t]) : row = output[t][i]
    BY <2>1 DEF Elements
  <2>3. Exact(row)
    BY <2>2, OutputOK
  <2> QED
    BY <2>3 DEF Exact
<1> QED
  BY <1>1, Inductive, PTL

\* The rows of a file come from one thread, and each thread's rows in the
\* order of the glob.
THEOREM Together == Spec => []FilesStayTogether
<1>1. TextInv => FilesStayTogether
  <2> SUFFICES ASSUME TextInv PROVE FilesStayTogether
    OBVIOUS
  <2>1. ASSUME NEW t \in Threads
        PROVE  /\ DOMAIN output[t] = 1..Len(output[t])
               /\ Elements(output[t]) = {output[t][i] : i \in 1..Len(output[t])}
    <3>1. output[t] \in Seq(TextRows)
      BY DEF TextInv, TypeOK
    <3> QED
      BY <3>1 DEF Elements
  <2>2. ASSUME NEW t \in Threads, NEW i \in DOMAIN output[t], NEW j \in DOMAIN output[t], i < j
        PROVE  Before(output[t][i], output[t][j])
    <3>1. /\ i \in 1..Len(Made(t)) /\ Made(t)[i] = output[t][i]
          /\ j \in 1..Len(Made(t)) /\ Made(t)[j] = output[t][j]
      BY <2>1, OutputOK
    <3>2. Before(Made(t)[i], Made(t)[j])
      BY <2>2, <3>1 DEF TextInv, RowsOK
    <3> QED
      BY <3>1, <3>2
  <2>3. ASSUME NEW t \in Threads, NEW u \in Threads,
               NEW r \in Elements(output[t]), NEW s \in Elements(output[u]), r.file = s.file
        PROVE  t = u
    <3>1. PICK i \in 1..Len(output[t]) : r = output[t][i]
      BY <2>1
    <3>2. PICK j \in 1..Len(output[u]) : s = output[u][j]
      BY <2>1
    <3>3. /\ i \in 1..Len(Made(t)) /\ Made(t)[i] = r
          /\ j \in 1..Len(Made(u)) /\ Made(u)[j] = s
      BY <3>1, <3>2, OutputOK
    <3>4. t # u => FilesApart(t, u)
      BY DEF TextInv
    <3> QED
      BY <2>3, <3>3, <3>4 DEF FilesApart
  <2> QED
    BY <2>2, <2>3 DEF FilesStayTogether
<1> QED
  BY <1>1, Inductive, PTL

-----------------------------------------------------------------------------
(* The refinement of RecordScan.                                           *)

\* The rows owed, one by one.
LEMMA OwedIs ==
  ASSUME TypeOK, NEW row
  PROVE  row \in OwedRows <=>
           \E f \in 1..Len(paths) : \E no \in 1..Len(All(f)) : \E k \in 1..All(f)[no] :
             row = RowAt(f, no, k)
<1>1. ASSUME NEW f \in 1..Len(paths)
      PROVE  row \in Elements(Rows(f, 0, 0, All(f))) <=>
               \E no \in 1..Len(All(f)) : \E k \in 1..All(f)[no] : row = RowAt(f, no, k)
  <2> DEFINE all == All(f)
             s == Rows(f, 0, 0, all)
  <2>1. f \in Nat /\ all \in Seq(Nat) /\ Len(all) \in Nat
    BY FileFacts
  <2> HIDE DEF all
  <2>2. RowsUpTo(s, f, 0, all, Len(all))
    BY <2>1, RowsAre
  <2> HIDE DEF s
  <2>3. \A i \in 1..Len(all) : 0 + i = i
    BY ONLY <2>1
  <2>4. /\ s \in Seq(TextRows)
        /\ \A m \in 1..Len(s) : \E i \in 1..Len(all) : \E k \in 1..all[i] : s[m] = RowAt(f, i, k)
        /\ \A i \in 1..Len(all) : \A k \in 1..all[i] : \E m \in 1..Len(s) : s[m] = RowAt(f, i, k)
    BY <2>2, <2>3 DEF RowsUpTo
  <2>5. Elements(s) = {s[m] : m \in 1..Len(s)}
    BY <2>4 DEF Elements
  <2>6. row \in Elements(s) <=> \E no \in 1..Len(all) : \E k \in 1..all[no] : row = RowAt(f, no, k)
    BY <2>4, <2>5
  <2> QED
    BY <2>6 DEF all, s
<1>2. DOMAIN paths = 1..Len(paths)
  BY Glob DEF TypeOK
<1>3. row \in OwedRows <=> \E f \in 1..Len(paths) : row \in Elements(Rows(f, 0, 0, All(f)))
  BY <1>2 DEF OwedRows, All
<1> QED
  BY <1>1, <1>3

\* An exact row is owed.
LEMMA ExactOwed ==
  ASSUME TypeOK, NEW row \in TextRows, Exact(row)
  PROVE  row \in OwedRows
<1>1. row = RowAt(row.file, row.record_no, row.row)
  BY DEF TextRows, RowAt, Exact
<1>2. \E f \in 1..Len(paths) : \E no \in 1..Len(All(f)) : \E k \in 1..All(f)[no] :
        row = RowAt(f, no, k)
  BY <1>1 DEF Exact
<1> QED
  BY <1>2, OwedIs

\* The glob has finitely many rows.
LEMMA FiniteOwed ==
  ASSUME TypeOK
  PROVE  IsFiniteSet(OwedRows)
<1> DEFINE E(f) == Elements(Rows(f, 0, 0, All(f)))
           T == {E(f) : f \in 1..Len(paths)}
           g == [f \in 1..Len(paths) |-> E(f)]
<1>1. DOMAIN paths = 1..Len(paths) /\ Len(paths) \in Nat
  BY Glob DEF TypeOK
<1>2. \A n \in Nat : IsFiniteSet(1..n)
  <2> SUFFICES ASSUME NEW n \in Nat PROVE IsFiniteSet(1..n)
    OBVIOUS
  <2>1. 1 \in Int /\ n \in Int
    OBVIOUS
  <2> QED
    BY <2>1, FS_Interval
<1>3. ASSUME NEW f \in 1..Len(paths) PROVE IsFiniteSet(E(f))
  <2> DEFINE s == Rows(f, 0, 0, All(f))
             S == DOMAIN s
             U == {s[i] : i \in S}
             h == [i \in S |-> s[i]]
  <2>1. f \in Nat /\ All(f) \in Seq(Nat)
    BY FileFacts
  <2>2. s \in Seq(TextRows)
    BY <2>1, RowsAre DEF RowsUpTo
  <2> HIDE DEF s
  <2>3. S = 1..Len(s) /\ Len(s) \in Nat
    BY <2>2
  <2>4. IsFiniteSet(S)
    BY <1>2, <2>3
  <2> HIDE DEF S
  <2>5. h \in [S -> U] /\ \A y \in U : \E i \in S : h[i] = y
    OBVIOUS
  <2> HIDE DEF h, U
  <2>6. h \in Surjection(S, U)
    BY <2>5, Fun_IsSurj
  <2>7. IsFiniteSet(U)
    BY <2>4, <2>6, FS_Surjection
  <2> QED
    BY <2>7 DEF U, S, s, Elements
<1>4. IsFiniteSet(T)
  <2>1. IsFiniteSet(1..Len(paths))
    BY <1>1, <1>2
  <2> HIDE DEF E
  <2>2. g \in [1..Len(paths) -> T] /\ \A y \in T : \E f \in 1..Len(paths) : g[f] = y
    OBVIOUS
  <2> HIDE DEF g, T
  <2>3. g \in Surjection(1..Len(paths), T)
    BY <2>2, Fun_IsSurj
  <2> QED
    BY <2>1, <2>3, FS_Surjection
<1>5. \A y \in T : IsFiniteSet(y)
  BY <1>3
<1>6. OwedRows = UNION T
  BY <1>1 DEF OwedRows, All
<1> HIDE DEF T
<1>7. IsFiniteSet(UNION T)
  BY <1>4, <1>5, FS_UNION
<1> QED
  BY <1>6, <1>7

\* No row is made twice.
LEMMA MadeOnce ==
  ASSUME TextInv, NEW t \in Threads, NEW u \in Threads,
         NEW i \in 1..Len(Made(t)), NEW j \in 1..Len(Made(u)), Made(t)[i] = Made(u)[j]
  PROVE  t = u /\ i = j
<1>1. TypeOK /\ RowsOK(t) /\ (t # u => FilesApart(t, u))
  BY DEF TextInv
<1>2. t = u
  BY <1>1 DEF FilesApart
<1> DEFINE r == Made(t)[i]
<1>3. Made(t) \in Seq(TextRows) /\ Len(Made(t)) \in Nat
  BY <1>1, MadeType
<1>4. r \in TextRows
  BY <1>3
<1>5. ~Before(r, r)
  <2>1. r.raw \in Nat \X Nat /\ r.row \in Nat
    BY <1>4 DEF TextRows
  <2>2. r.raw[1] \in Nat /\ r.raw[2] \in Nat
    BY <2>1
  <2> HIDE DEF r
  <2> QED
    BY <2>1, <2>2 DEF Before
<1>6. ~(i < j) /\ ~(j < i)
  <2>1. \A x, y \in 1..Len(Made(t)) : x < y => Before(Made(t)[x], Made(t)[y])
    BY <1>1 DEF RowsOK
  <2> QED
    BY <1>2, <1>5, <2>1
<1>7. i \in Nat /\ j \in Nat
  OBVIOUS
<1> QED
  BY <1>2, <1>6, <1>7

\* A row is delivered when some thread has returned it.
LEMMA InDelivered ==
  ASSUME output \in [Threads -> Seq(TextRows)], NEW row
  PROVE  row \in Delivered <=> \E u \in Threads : \E i \in 1..Len(output[u]) : row = output[u][i]
<1>1. ASSUME NEW u \in Threads PROVE Elements(output[u]) = {output[u][i] : i \in 1..Len(output[u])}
  <2>1. output[u] \in Seq(TextRows)
    OBVIOUS
  <2> QED
    BY <2>1 DEF Elements
<1> QED
  BY <1>1 DEF Delivered

\* The same of the state after a step.
LEMMA InDeliveredNext ==
  ASSUME output' \in [Threads -> Seq(TextRows)], NEW row
  PROVE  row \in Delivered' <=> \E u \in Threads : \E i \in 1..Len(output'[u]) : row = output'[u][i]
<1>1. ASSUME NEW u \in Threads PROVE Elements(output'[u]) = {output'[u][i] : i \in 1..Len(output'[u])}
  <2>1. output'[u] \in Seq(TextRows)
    OBVIOUS
  <2> QED
    BY <2>1 DEF Elements
<1> QED
  BY <1>1 DEF Delivered

\* A chunk delivers as many rows as it holds, all owed and none delivered
\* before.
LEMMA Delivers ==
  ASSUME TextInv, NEW t \in Threads, Emit(t)
  PROVE  /\ Delivered \subseteq Delivered' /\ Delivered' \subseteq OwedRows
         /\ IsFiniteSet(Delivered' \ Delivered)
         /\ Cardinality(Delivered' \ Delivered) = ChunkLen(t)
<1> DEFINE n == ChunkLen(t)
           L == Len(output[t])
           out == output[t]
           chunk == Chunk(t)
           K == {pending[t][i] : i \in 1..n}
           f == [i \in 1..n |-> pending[t][i]]
<1>1. /\ TypeOK
      /\ output \in [Threads -> Seq(TextRows)] /\ output' \in [Threads -> Seq(TextRows)]
      /\ pending[t] \in Seq(TextRows)
  BY EmitRows DEF TextInv, TypeOK
<1>2. /\ out \in Seq(TextRows) /\ L \in Nat /\ n \in Nat /\ n <= Len(pending[t])
      /\ chunk \in Seq(TextRows) /\ Len(chunk) = n
      /\ \A i \in 1..n : chunk[i] = pending[t][i]
      /\ output' = [output EXCEPT ![t] = out \o chunk]
      /\ output'[t] = out \o chunk
  BY <1>1, EmitRows, SMTT(30)
<1> HIDE DEF n, L, out, chunk
<1>3. /\ Len(output'[t]) = L + n
      /\ \A i \in 1..L : output'[t][i] = output[t][i]
      /\ \A i \in 1..n : output'[t][L + i] = pending[t][i]
  <2>1. out \in Seq(TextRows) /\ chunk \in Seq(TextRows)
    BY <1>2
  <2>2. /\ Len(out \o chunk) = Len(out) + Len(chunk)
        /\ \A i \in 1..Len(out) : (out \o chunk)[i] = out[i]
        /\ \A i \in 1..Len(chunk) : (out \o chunk)[Len(out) + i] = chunk[i]
    BY ONLY <2>1, Joined
  <2> QED
    BY <1>2, <2>2 DEF L, out
<1>4. \A u \in Threads \ {t} : output'[u] = output[u]
  BY <1>1, <1>2
<1>5. /\ Len(Made(t)) = L + Len(pending[t]) /\ Len(pending[t]) \in Nat
      /\ \A i \in 1..Len(pending[t]) : Made(t)[L + i] = pending[t][i]
  BY <1>1, MadeType DEF L
<1>6. ASSUME NEW i \in 1..n
      PROVE  L + i \in 1..Len(Made(t)) /\ Made(t)[L + i] = pending[t][i] /\ L + i \notin 1..L
  <2> DEFINE p == Len(pending[t])
             m == Len(Made(t))
  <2>1. m = L + p /\ p \in Nat /\ L \in Nat /\ n \in Nat /\ n <= p
    BY <1>2, <1>5
  <2> HIDE DEF p, m
  <2>2. i \in 1..p /\ L + i \in 1..m /\ L + i \notin 1..L
    BY <2>1
  <2> QED
    BY <1>5, <2>2 DEF p, m
<1>7. Delivered' = Delivered \cup K
  <2>1. ASSUME NEW row \in Delivered PROVE row \in Delivered'
    <3>1. PICK u \in Threads : \E i \in 1..Len(output[u]) : row = output[u][i]
      BY <1>1, InDelivered
    <3>2. PICK i \in 1..Len(output[u]) : row = output[u][i]
      BY <3>1
    <3>3. i \in 1..Len(output'[u]) /\ output'[u][i] = output[u][i]
      <4>1. CASE u # t
        BY <1>4, <4>1
      <4>2. CASE u = t
        <5>1. i \in 1..L
          BY <4>2 DEF L
        <5>2. i \in 1..(L + n)
          BY <1>2, <5>1
        <5> QED
          BY <1>3, <4>2, <5>1, <5>2
      <4> QED
        BY <4>1, <4>2
    <3>4. \E v \in Threads : \E k \in 1..Len(output'[v]) : row = output'[v][k]
      BY <3>2, <3>3
    <3> QED
      BY <3>4, <1>1, InDeliveredNext
  <2>2. ASSUME NEW row \in K PROVE row \in Delivered'
    <3>1. PICK i \in 1..n : row = pending[t][i]
      BY <2>2
    <3>2. L + i \in 1..(L + n)
      BY <1>2
    <3>3. L + i \in 1..Len(output'[t]) /\ output'[t][L + i] = pending[t][i]
      BY <1>3, <3>2
    <3> QED
      BY <1>1, <3>1, <3>3, InDeliveredNext
  <2>3. ASSUME NEW row \in Delivered', row \notin Delivered PROVE row \in K
    <3>1. PICK u \in Threads : \E i \in 1..Len(output'[u]) : row = output'[u][i]
      BY <1>1, <2>3, InDeliveredNext
    <3>2. PICK i \in 1..Len(output'[u]) : row = output'[u][i]
      BY <3>1
    <3>3. u = t /\ i \notin 1..L
      <4>1. \A v \in Threads : \A k \in 1..Len(output[v]) : row # output[v][k]
        BY <1>1, <2>3, InDelivered
      <4>2. u = t
        BY <1>4, <3>2, <4>1
      <4> QED
        BY <1>3, <3>2, <4>1, <4>2 DEF L
    <3>4. i \in 1..(L + n)
      BY <1>3, <3>3
    <3>5. i - L \in 1..n /\ i = L + (i - L)
      BY <1>2, <3>3, <3>4
    <3>6. output'[t][i] = pending[t][i - L]
      BY <1>3, <3>5
    <3> QED
      BY <3>2, <3>3, <3>5, <3>6
  <2> HIDE DEF K
  <2> QED
    BY <2>1, <2>2, <2>3
<1>8. Delivered \cap K = {}
  <2> SUFFICES ASSUME NEW row \in Delivered, NEW i \in 1..n, row = pending[t][i]
               PROVE  FALSE
    OBVIOUS
  <2>1. PICK u \in Threads : \E j \in 1..Len(output[u]) : row = output[u][j]
    BY <1>1, InDelivered
  <2>2. PICK j \in 1..Len(output[u]) : row = output[u][j]
    BY <2>1
  <2>3. j \in 1..Len(Made(u)) /\ Made(u)[j] = output[u][j]
    BY <1>1, OutputIsMade
  <2>4. Made(t)[L + i] = Made(u)[j]
    BY <1>6, <2>2, <2>3
  <2>5. t = u /\ L + i = j
    BY <1>6, <2>3, <2>4, MadeOnce
  <2> QED
    BY <1>6, <2>2, <2>5 DEF L
<1>9. IsFiniteSet(K) /\ Cardinality(K) = n
  <2>1. f \in [1..n -> K] /\ \A i \in 1..n : f[i] = pending[t][i]
    OBVIOUS
  <2> HIDE DEF f
  <2>2. \A y \in K : \E i \in 1..n : f[i] = y
    BY <2>1
  <2>3. ASSUME NEW i \in 1..n, NEW j \in 1..n, f[i] = f[j] PROVE i = j
    <3>1. Made(t)[L + i] = Made(t)[L + j]
      BY <1>6, <2>1, <2>3
    <3>2. L + i = L + j
      BY <1>6, <3>1, MadeOnce
    <3> QED
      BY <1>2, <3>2
  <2>4. f \in Bijection(1..n, K)
    BY <2>1, <2>2, <2>3, Fun_IsBij
  <2> HIDE DEF K
  <2> QED
    BY <1>2, <2>4, Grown
<1>10. Delivered \cup K \subseteq OwedRows
  <2>1. ASSUME NEW u \in Threads, NEW i \in 1..Len(Made(u)) PROVE Made(u)[i] \in OwedRows
    <3>1. Exact(Made(u)[i]) /\ Made(u) \in Seq(TextRows)
      BY <1>1, MadeType DEF TextInv, RowsOK
    <3>2. Made(u)[i] \in TextRows
      BY <3>1
    <3> QED
      BY <1>1, <3>1, <3>2, ExactOwed
  <2>2. ASSUME NEW row \in Delivered PROVE row \in OwedRows
    <3>1. PICK u \in Threads : \E j \in 1..Len(output[u]) : row = output[u][j]
      BY <1>1, InDelivered
    <3>2. PICK j \in 1..Len(output[u]) : row = output[u][j]
      BY <3>1
    <3>3. j \in 1..Len(Made(u)) /\ Made(u)[j] = output[u][j]
      BY <1>1, OutputIsMade
    <3> QED
      BY <2>1, <3>2, <3>3
  <2>3. ASSUME NEW row \in K PROVE row \in OwedRows
    <3>1. PICK i \in 1..n : row = pending[t][i]
      BY <2>3
    <3> QED
      BY <1>6, <2>1, <3>1
  <2> QED
    BY <2>2, <2>3
<1> HIDE DEF K
<1>11. Delivered' \ Delivered = K
  BY <1>7, <1>8
<1> QED
  BY <1>7, <1>9, <1>10, <1>11 DEF n

\* A scan that ended without an error has delivered every row, and had no
\* reason to fail.
LEMMA Completed == TextInv /\ AllStopped /\ ~failed => ~MustFail /\ Delivered = OwedRows
<1> SUFFICES ASSUME TextInv, AllStopped, ~failed PROVE ~MustFail /\ Delivered = OwedRows
  OBVIOUS
<1>1. /\ TypeOK /\ FilesHandled /\ output \in [Threads -> Seq(TextRows)]
      /\ DOMAIN paths = 1..Len(paths) /\ Len(paths) \in Nat /\ next_text_path \in Nat
      /\ \A t \in Threads : EndOK(t) /\ RowsOK(t)
  BY Glob DEF TextInv, TypeOK
<1>2. ASSUME NEW t \in Threads
      PROVE  /\ pc[t] = "done" /\ pending[t] = <<>> /\ source[t] = NoSource
             /\ Len(paths) <= next_text_path
  <2>1. pc[t] \in {"done", "threw"} /\ EndOK(t)
    BY <1>1 DEF AllStopped, Stopped
  <2> QED
    BY <2>1 DEF EndOK
<1>3. ASSUME NEW f \in 1..Len(paths)
      PROVE  /\ paths[f].opens /\ ParsesWhole(paths[f])
             /\ \E t \in Threads : MadeUpTo(t, f, Len(All(f)))
  <2>1. f <= next_text_path
    <3>1. PICK t \in Threads : TRUE
      BY TextAssumption
    <3> QED
      BY <1>1, <1>2, <3>1
  <2>2. PICK t \in Threads : HandledBy(t, f)
    BY <1>1, <2>1 DEF FilesHandled
  <2> QED
    BY <1>2, <2>2 DEF HandledBy, Reading
<1>4. ~MustFail
  BY <1>1, <1>3 DEF MustFail
<1>5. ASSUME NEW t \in Threads
      PROVE  Len(Made(t)) = Len(output[t]) /\ \A i \in 1..Len(output[t]) : Made(t)[i] = output[t][i]
  <2>1. Len(pending[t]) = 0
    BY <1>2
  <2>2. /\ Len(Made(t)) = Len(output[t]) + Len(pending[t]) /\ Len(output[t]) \in Nat
        /\ \A i \in 1..Len(output[t]) : Made(t)[i] = output[t][i]
    BY <1>1, MadeType
  <2>3. Len(Made(t)) = Len(output[t])
    BY <2>1, <2>2
  <2> QED
    BY <2>2, <2>3
<1>6. ASSUME NEW row \in OwedRows PROVE row \in Delivered
  <2>1. PICK f \in 1..Len(paths) : \E no \in 1..Len(All(f)) : \E k \in 1..All(f)[no] :
          row = RowAt(f, no, k)
    BY <1>1, OwedIs
  <2>2. PICK no \in 1..Len(All(f)) : \E k \in 1..All(f)[no] : row = RowAt(f, no, k)
    BY <2>1
  <2>3. PICK k \in 1..All(f)[no] : row = RowAt(f, no, k)
    BY <2>2
  <2>4. PICK t \in Threads : MadeUpTo(t, f, Len(All(f)))
    BY <1>3
  <2>5. PICK i \in 1..Len(Made(t)) :
          Made(t)[i].file = f /\ Made(t)[i].record_no = no /\ Made(t)[i].row = k
    BY <2>4 DEF MadeUpTo
  <2>6. Made(t)[i] = row
    <3>1. Made(t) \in Seq(TextRows)
      BY <1>1, MadeType
    <3>2. Made(t)[i] \in TextRows /\ Exact(Made(t)[i])
      BY <1>1, <3>1 DEF RowsOK
    <3> QED
      BY <2>3, <2>5, <3>2 DEF TextRows, Exact, RowAt
  <2>7. i \in 1..Len(output[t]) /\ row = output[t][i]
    BY <1>5, <2>6
  <2> QED
    BY <1>1, <2>7, InDelivered
<1>7. ASSUME NEW row \in Delivered PROVE row \in OwedRows
  <2>1. PICK t \in Threads : \E i \in 1..Len(output[t]) : row = output[t][i]
    BY <1>1, InDelivered
  <2>2. PICK i \in 1..Len(output[t]) : row = output[t][i]
    BY <2>1
  <2>3. Exact(row)
    BY <2>2, OutputOK
  <2>4. output[t] \in Seq(TextRows)
    BY <1>1
  <2>5. row \in TextRows
    BY <2>2, <2>4
  <2> QED
    BY <1>1, <2>3, <2>5, ExactOwed
<1> QED
  BY <1>4, <1>6, <1>7

\* The same of the state after a step.
LEMMA CompletedNext ==
  TextInv' /\ AllStopped' /\ ~failed' => ~MustFail' /\ Delivered' = OwedRows'
<1>1. (TextInv /\ AllStopped /\ ~failed => ~MustFail /\ Delivered = OwedRows)'
  BY Completed, PTL
<1> QED
  BY <1>1

\* The instance speaks of the same sets and numbers.
LEMMA SameNotions ==
  /\ \A S : Abstract!IsFiniteSet(S) <=> IsFiniteSet(S)
  /\ \A S : Abstract!Cardinality(S) = Cardinality(S)
<1>1. \A S : Abstract!IsFiniteSet(S) <=> IsFiniteSet(S)
  BY DEF Abstract!IsFiniteSet, IsFiniteSet
<1>2. \A S : Abstract!Cardinality(S) = Cardinality(S)
  BY DEF Abstract!Cardinality, Cardinality
<1> QED
  BY <1>1, <1>2

\* An error ends the scan only when there is reason for one.
LEMMA FailsRightly ==
  ASSUME TextInv, NEW t \in Threads, Step(t), ~failed, failed'
  PROVE  MustFail
<1>1. TypeOK /\ SourceOK(t) /\ DOMAIN paths = 1..Len(paths) /\ Len(paths) \in Nat
  BY Glob DEF TextInv, TypeOK
<1>2. OpenThrows(t) \/ (ParseSlice(t) /\ ~ParsesOn(t)) \/ (ParseWhole(t) /\ ~ParsesOn(t))
  BY DEF Step, CallScan, ScanFull, NextPath, OpenThrows, OpenSource, ParseSlice, ParseWhole, Emit,
     Interrupt, ParsesOn
<1>3. CASE pc[t] = "open"
  <2>1. path[t] \in 1..Len(paths)
    BY <1>1, <1>3 DEF SourceOK, NoPath
  <2>2. ~paths[path[t]].opens \/ ~ParsesWhole(paths[path[t]])
    BY <1>2, <1>3 DEF OpenThrows, ParseSlice, ParseWhole, ParsesOn
  <2> QED
    BY <1>1, <2>1, <2>2 DEF MustFail
<1>4. CASE ParseSlice(t) /\ ~ParsesOn(t)
  <2> DEFINE file == paths[path[t]]
             n == source[t]
  <2>1. /\ pc[t] = "scan" /\ n # NoSource /\ n < Len(file.slices)
        /\ ~file.slices[n + 1].ok
    BY <1>4 DEF ParseSlice, HasSlice, ParsesOn
  <2>2. path[t] \in 1..Len(paths) /\ file \in Files /\ n \in 0..Len(file.slices)
    BY <1>1, <2>1, ReadFacts DEF Reading
  <2>3. n + 1 \in DOMAIN file.slices
    <3>1. DOMAIN file.slices = 1..Len(file.slices) /\ Len(file.slices) \in Nat
      BY <2>2, FileParts
    <3> HIDE DEF file, n
    <3> QED
      BY <2>1, <2>2, <3>1
  <2>4. ~ParsesWhole(file)
    BY <2>1, <2>3 DEF ParsesWhole
  <2> QED
    BY <1>1, <2>2, <2>4 DEF MustFail
<1> QED
  BY <1>2, <1>3, <1>4 DEF OpenThrows, ParseWhole

\* Every step of the scan is a step of RecordScan or changes nothing there.
LEMMA StepRefines ==
  ASSUME TextInv, TextInv', NEW t \in Threads, Step(t)
  PROVE  [Abstract!Next]_(Abstract!vars)
<1>1. /\ TypeOK /\ IsFiniteSet(EmittedSet) /\ pc[t] \notin Stopped /\ paths' = paths
      /\ failed => failed'
  BY StepFrame DEF TextInv
<1>2. OwedRows' = OwedRows /\ MustFail' = MustFail
  BY <1>1 DEF OwedRows, MustFail
<1>3. ~AllStopped
  BY <1>1 DEF AllStopped
<1>4. CASE Emit(t) /\ ChunkLen(t) # 0
  <2>1. pc'[t] = "ready" /\ failed' = failed
    BY <1>1, <1>4 DEF Emit, AfterChunk, Goto, TypeOK
  <2>2. Status' = Status /\ Status # "complete"
    BY <1>3, <2>1 DEF Status, AllStopped, Stopped
  <2>3. /\ Delivered \subseteq Delivered' /\ Delivered' \subseteq OwedRows
        /\ Cardinality(Delivered' \ Delivered) = ChunkLen(t)
    BY <1>4, Delivers
  <2>4. Emitted' = Emitted + Cardinality(Delivered' \ Delivered)
    BY <1>1, <1>4, <2>3, EmitGrows DEF Emitted, EmittedSet
  <2>5. Delivered' # Delivered
    <3>1. ASSUME Delivered' = Delivered PROVE FALSE
      <4>1. Delivered' \ Delivered = {}
        BY <3>1
      <4> QED
        BY <1>4, <2>3, <4>1, FS_EmptySet
    <3> QED
      BY <3>1
  <2>6. Abstract!Deliver
    BY <1>2, <2>2, <2>3, <2>4, <2>5, SameNotions DEF Abstract!Deliver
  <2> QED
    BY <2>6 DEF Abstract!Next
<1>5. CASE ~(Emit(t) /\ ChunkLen(t) # 0)
  <2>1. Delivered' = Delivered /\ Emitted' = Emitted
    <3>1. CASE Emit(t)
      <4>1. /\ Delivered \subseteq Delivered' /\ ChunkLen(t) = 0
            /\ IsFiniteSet(Delivered' \ Delivered)
            /\ Cardinality(Delivered' \ Delivered) = 0
        BY <1>5, <3>1, Delivers
      <4>2. Delivered' = Delivered
        BY <4>1, FS_EmptySet
      <4>3. Cardinality(EmittedSet') = Cardinality(EmittedSet) + 0 /\ Cardinality(EmittedSet) \in Nat
        BY <1>1, <3>1, <4>1, EmitGrows, FS_CardinalityType
      <4>4. Cardinality(EmittedSet') = Cardinality(EmittedSet)
        BY <4>3
      <4> QED
        BY <4>2, <4>4 DEF Emitted, EmittedSet
    <3>2. CASE ~Emit(t)
      BY <3>2, OutputSame DEF Delivered, Emitted
    <3> QED
      BY <3>1, <3>2
  <2>2. CASE failed
    <3>1. Status = "failed" /\ Status' = "failed"
      BY <1>1, <2>2 DEF Status
    <3> QED
      BY <1>2, <2>1, <3>1 DEF Abstract!vars
  <2>3. CASE ~failed /\ failed'
    <3>1. Status = "running" /\ Status' = "failed"
      BY <1>3, <2>3 DEF Status
    <3>2. MustFail
      BY <2>3, FailsRightly
    <3>3. Abstract!Fail
      BY <1>2, <2>1, <3>1, <3>2 DEF Abstract!Fail
    <3> QED
      BY <3>3 DEF Abstract!Next
  <2>4. CASE ~failed /\ ~failed' /\ AllStopped'
    <3>1. Status = "running" /\ Status' = "complete"
      BY <1>3, <2>4 DEF Status
    <3>2. ~MustFail' /\ Delivered' = OwedRows'
      BY <2>4, CompletedNext
    <3>3. Abstract!Complete
      BY <1>2, <2>1, <3>1, <3>2 DEF Abstract!Complete
    <3> QED
      BY <3>3 DEF Abstract!Next
  <2>5. CASE ~failed /\ ~failed' /\ ~AllStopped'
    <3>1. Status = "running" /\ Status' = "running"
      BY <1>3, <2>5 DEF Status
    <3> QED
      BY <1>2, <2>1, <3>1 DEF Abstract!vars
  <2> QED
    BY <2>2, <2>3, <2>4, <2>5
<1> QED
  BY <1>4, <1>5

\* The text readers keep the promise of the binary ones: every row of the glob
\* is delivered exactly once, and a scan that meets a file it cannot open or
\* parse does not end without an error.
THEOREM Refinement == Spec => ExactlyOnce
<1>1. Init => Abstract!Init
  <2> SUFFICES ASSUME Init PROVE Abstract!Init
    OBVIOUS
  <2>1. TypeOK
    BY InitInv DEF TextInv
  <2>2. IsFiniteSet(OwedRows)
    BY <2>1, FiniteOwed
  <2>3. Delivered = {} /\ EmittedSet = {}
    BY DEF Init, Delivered, Elements, EmittedSet
  <2>4. Emitted = 0
    BY <2>3, FS_EmptySet DEF Emitted, EmittedSet
  <2>5. Status = "running"
    BY TextAssumption DEF Init, Status, AllStopped, Stopped
  <2>6. MustFail \in BOOLEAN
    BY DEF MustFail
  <2> QED
    BY <2>2, <2>3, <2>4, <2>5, <2>6, SameNotions DEF Abstract!Init
<1>2. TextInv /\ TextInv' /\ [Next]_vars => [Abstract!Next]_(Abstract!vars)
  <2> SUFFICES ASSUME TextInv, TextInv', [Next]_vars
               PROVE  [Abstract!Next]_(Abstract!vars)
    OBVIOUS
  <2>1. CASE \E t \in Threads : Step(t)
    BY <2>1, StepRefines
  <2>2. CASE UNCHANGED vars
    BY <2>2 DEF vars, Abstract!vars, OwedRows, MustFail, Delivered, Emitted, Status, AllStopped
  <2> QED
    BY <2>1, <2>2 DEF Next, Terminated
<1> QED
  BY <1>1, <1>2, Inductive, PTL DEF Spec, ExactlyOnce, Abstract!Spec
=============================================================================
