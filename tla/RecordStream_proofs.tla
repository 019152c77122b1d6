------------------------- MODULE RecordStream_proofs -------------------------
(***************************************************************************)
(* Proofs about RecordStream, for files of any length, any READ_CHUNK and  *)
(* every way the reads may end.                                            *)
(***************************************************************************)
EXTENDS RecordStream, GeneralFacts

-----------------------------------------------------------------------------
(* Operators.                                                              *)

\* First is the least element.
LEMMA FirstLeast ==
  ASSUME NEW S \in SUBSET Nat, S # {}
  PROVE  First(S) \in S /\ \A i \in S : First(S) <= i
<1>1. \E n \in S : \A m \in S : n <= m
  BY Least
<1> QED
  BY <1>1 DEF First

\* A part of a sequence.
LEMMA PartType ==
  ASSUME NEW S, NEW s \in Seq(S), NEW m \in 1..(Len(s) + 1), NEW n \in Nat,
         n <= Len(s), m <= n + 1
  PROVE  /\ SubSeq(s, m, n) \in Seq(S)
         /\ Len(SubSeq(s, m, n)) = n - m + 1
         /\ \A i \in 1..(n - m + 1) : SubSeq(s, m, n)[i] = s[m + i - 1]
<1>1. Len(s) \in Nat /\ m \in Int /\ n \in Int /\ \A i \in m..n : s[i] \in S
  OBVIOUS
<1>2. /\ SubSeq(s, m, n) \in Seq(S)
      /\ Len(SubSeq(s, m, n)) = IF m <= n THEN n - m + 1 ELSE 0
      /\ \A i \in 1..(n - m + 1) : SubSeq(s, m, n)[i] = s[m + i - 1]
  BY <1>1, SubSeqProperties
<1> QED
  BY <1>1, <1>2

\* A record's end is not before its beginning, and not behind the file's.
LEMMA EndOfType ==
  ASSUME NEW s \in Seq(Octets), NEW start \in 1..Len(s)
  PROVE  /\ EndOf(s, start) \in start..Len(s)
         /\ \A i \in start..(EndOf(s, start) - 1) : s[i] # RT
         /\ EndOf(s, start) # Len(s) => s[EndOf(s, start)] = RT
<1> DEFINE rts == {i \in start..Len(s) : s[i] = RT}
<1>1. CASE rts = {}
  BY <1>1 DEF EndOf
<1>2. CASE rts # {}
  <2>1. rts \in SUBSET Nat
    OBVIOUS
  <2> DEFINE e == First(rts)
  <2>2. e \in rts /\ \A i \in rts : e <= i
    <3> HIDE DEF rts
    <3> QED
      BY <1>2, <2>1, FirstLeast
  <2>3. EndOf(s, start) = e
    BY <1>2 DEF EndOf
  <2> HIDE DEF e
  <2>4. e \in start..Len(s) /\ s[e] = RT
    BY <2>2
  <2>5. \A i \in start..(e - 1) : s[i] # RT
    BY <2>2, <2>4
  <2> QED
    BY <2>3, <2>4, <2>5
<1> QED
  BY <1>1, <1>2

\* Where the first record behind a position begins, and what stands before it.
LEMMA AfterFirst ==
  ASSUME NEW s \in Seq(Octets), NEW p \in 1..(Len(s) + 1), After(s, p) # {}
  PROVE  /\ First(After(s, p)) \in p..Len(s)
         /\ s[First(After(s, p))] # "blank"
         /\ \A i \in p..(First(After(s, p)) - 1) : s[i] = "blank"
<1>1. After(s, p) \in SUBSET Nat
  BY DEF After
<1> DEFINE start == First(After(s, p))
<1>2. start \in After(s, p) /\ \A i \in After(s, p) : start <= i
  BY <1>1, FirstLeast
<1> HIDE DEF start
<1>3. start \in p..Len(s) /\ s[start] # "blank"
  BY <1>2 DEF After
<1>4. \A i \in p..(start - 1) : s[i] = "blank"
  BY <1>2, <1>3 DEF After
<1> QED
  BY <1>3, <1>4 DEF start

\* The pieces of a sequence: what a record of the file can be.
PiecesOf(s) == {r \in Seq(Octets) : Len(r) <= Len(s)}

\* Splitting from the end of the file is well-founded: SplitFrom obeys its
\* definition, and gives sequences of pieces of the file.
LEMMA SplitFromDef ==
  ASSUME NEW s \in Seq(Octets)
  PROVE  /\ \A p \in 1..(Len(s) + 1) : SplitFrom(s)[p] \in Seq(PiecesOf(s))
         /\ \A p \in 1..(Len(s) + 1) : After(s, p) = {} => SplitFrom(s)[p] = <<>>
         /\ \A p \in 1..(Len(s) + 1) : After(s, p) # {} =>
              LET start == First(After(s, p))
                  record == SubSeq(s, start, EndOf(s, start)) IN
              /\ record \in PiecesOf(s)
              /\ EndOf(s, start) + 1 \in (p + 1)..(Len(s) + 1)
              /\ SplitFrom(s)[p] = <<record>> \o SplitFrom(s)[EndOf(s, start) + 1]
<1> DEFINE N == Len(s) + 1
           S == Seq(PiecesOf(s))
           start(p) == First(After(s, p))
           record(p) == SubSeq(s, start(p), EndOf(s, start(p)))
           Stop == {p \in 1..N : After(s, p) = {}}
           jump == [p \in 1..N |-> EndOf(s, start(p)) + 1]
           step == [x \in (1..N) \X S |-> IF x[1] \in Stop THEN x[2] ELSE <<record(x[1])>> \o x[2]]
           rule(f) == [p \in 1..N |-> IF After(s, p) = {} THEN <<>>
                                      ELSE <<record(p)>> \o f[EndOf(s, start(p)) + 1]]
<1>1. N \in Nat /\ Len(s) \in Nat
  OBVIOUS
<1>2. ASSUME NEW p \in 1..N, p \notin Stop
      PROVE  jump[p] \in (p + 1)..N /\ record(p) \in PiecesOf(s)
  <2>1. start(p) \in p..Len(s)
    BY <1>2, AfterFirst
  <2>2. start(p) \in 1..Len(s)
    BY <2>1
  <2>3. EndOf(s, start(p)) \in start(p)..Len(s)
    BY <2>2, EndOfType
  <2> HIDE DEF start
  <2>4. record(p) \in Seq(Octets) /\ Len(record(p)) = EndOf(s, start(p)) - start(p) + 1
    <3>1. EndOf(s, start(p)) \in Nat /\ EndOf(s, start(p)) <= Len(s)
          /\ start(p) \in 1..(Len(s) + 1) /\ start(p) <= EndOf(s, start(p)) + 1
      BY <2>2, <2>3
    <3> QED
      BY <3>1, PartType
  <2>5. jump[p] \in (p + 1)..N
    BY <2>1, <2>3
  <2>6. Len(record(p)) <= Len(s)
    BY <2>2, <2>3, <2>4
  <2> QED
    BY <2>4, <2>5, <2>6 DEF PiecesOf
<1> HIDE DEF record, start
<1>3. step \in Steps(1..N, S)
  <2> SUFFICES ASSUME NEW p \in 1..N, NEW t \in S, p \notin Stop
               PROVE  <<record(p)>> \o t \in S
    BY DEF Steps
  <2>1. <<record(p)>> \in S
    BY <1>2
  <2> QED
    BY <2>1, ConcatProperties
<1>4. <<>> \in S
  OBVIOUS
<1>5. PICK f : Backward(N, f, S, Stop, jump, <<>>, step)
  <2> HIDE DEF N, S, Stop, jump, step
  <2>1. \A p \in 1..N : p \notin Stop => jump[p] \in (p + 1)..N
    BY <1>2
  <2> QED
    BY <2>1, <1>1, <1>3, <1>4, BackwardRecursion
<1>6. f \in [1..N -> S] /\ \A p \in 1..N : f[p] = IF p \in Stop THEN <<>> ELSE step[<<p, f[jump[p]]>>]
  BY <1>5 DEF Backward
<1>7. f = rule(f)
  <2>1. ASSUME NEW p \in 1..N PROVE f[p] = rule(f)[p]
    <3>1. CASE p \in Stop
      BY <1>6, <3>1
    <3>2. CASE p \notin Stop
      <4>1. jump[p] \in 1..N /\ jump[p] = EndOf(s, start(p)) + 1
        BY <3>2, <1>2
      <4>2. f[jump[p]] \in S
        BY <4>1, <1>6
      <4> QED
        BY <1>6, <3>2, <4>1, <4>2
    <3> QED
      BY <3>1, <3>2
  <2> QED
    BY <2>1, <1>6
<1> DEFINE g == CHOOSE f1 : f1 = rule(f1)
<1>8. SplitFrom(s) = g
  BY DEF SplitFrom, record, start
<1>9. g = rule(g)
  <2> HIDE DEF rule
  <2> QED
    BY <1>7
<1> HIDE DEF g, N, S
<1>10. ASSUME NEW p \in 1..N
       PROVE  /\ After(s, p) = {} => g[p] = <<>>
              /\ After(s, p) # {} => g[p] = <<record(p)>> \o g[EndOf(s, start(p)) + 1]
  BY <1>9
<1> HIDE DEF rule
<1>11. \A p \in 1..N : g[p] \in S
  <2> DEFINE T == {p \in 1..N : g[p] \in S}
  <2>1. ASSUME NEW p \in 1..N, \A q \in (p + 1)..N : q \in T
        PROVE  p \in T
    <3>1. CASE p \in Stop
      BY <3>1, <1>4, <1>10
    <3>2. CASE p \notin Stop
      <4> DEFINE q == EndOf(s, start(p)) + 1
      <4>1. q \in (p + 1)..N /\ record(p) \in PiecesOf(s)
        BY <3>2, <1>2
      <4>2. g[q] \in S
        BY <4>1, <2>1
      <4>3. <<record(p)>> \in Seq(PiecesOf(s))
        BY <4>1
      <4>4. <<record(p)>> \o g[q] \in S
        BY <4>2, <4>3, ConcatProperties DEF S
      <4> QED
        BY <3>2, <4>4, <1>10
    <3> QED
      BY <3>1, <3>2
  <2> HIDE DEF T
  <2>2. \A p \in 1..N : p \in T
    BY <1>1, <2>1, BackwardInduction
  <2> QED
    BY <2>2 DEF T
<1>12. ASSUME NEW p \in 1..N, After(s, p) # {}
       PROVE  /\ SubSeq(s, start(p), EndOf(s, start(p))) \in PiecesOf(s)
              /\ EndOf(s, start(p)) + 1 \in (p + 1)..N
              /\ g[p] = <<SubSeq(s, start(p), EndOf(s, start(p)))>> \o g[EndOf(s, start(p)) + 1]
  BY <1>2, <1>10, <1>12 DEF record
<1> QED
  BY <1>8, <1>10, <1>11, <1>12 DEF N, S, start

\* A record begins at every octet that is not a separator.
LEMMA SplitAt ==
  ASSUME NEW s \in Seq(Octets), NEW k \in 1..Len(s), s[k] # "blank"
  PROVE  /\ EndOf(s, k) \in k..Len(s)
         /\ SubSeq(s, k, EndOf(s, k)) \in PiecesOf(s)
         /\ SplitFrom(s)[k] = <<SubSeq(s, k, EndOf(s, k))>> \o SplitFrom(s)[EndOf(s, k) + 1]
<1>1. k \in After(s, k) /\ k \in 1..(Len(s) + 1) /\ Len(s) \in Nat
  BY DEF After
<1> DEFINE start == First(After(s, k))
<1>2. start = k
  <2>1. start \in k..Len(s) /\ \A i \in k..(start - 1) : s[i] = "blank"
    BY <1>1, AfterFirst
  <2> HIDE DEF start
  <2> QED
    BY <2>1, <1>1
<1>3. EndOf(s, k) \in k..Len(s)
  BY EndOfType
<1> QED
  BY <1>1, <1>2, <1>3, SplitFromDef

\* Separators make no difference to where splitting goes on.
LEMMA SplitPastBlanks ==
  ASSUME NEW s \in Seq(Octets), NEW k \in 1..(Len(s) + 1), NEW m \in k..(Len(s) + 1),
         \A i \in k..(m - 1) : s[i] = "blank"
  PROVE  SplitFrom(s)[k] = SplitFrom(s)[m]
<1>1. m \in 1..(Len(s) + 1)
  OBVIOUS
<1>2. After(s, k) = After(s, m)
  BY DEF After
<1>3. CASE After(s, k) = {}
  BY <1>1, <1>2, <1>3, SplitFromDef
<1>4. CASE After(s, k) # {}
  <2>1. LET start == First(After(s, k)) IN
        SplitFrom(s)[k] = <<SubSeq(s, start, EndOf(s, start))>> \o SplitFrom(s)[EndOf(s, start) + 1]
    BY <1>4, SplitFromDef
  <2>2. LET start == First(After(s, m)) IN
        SplitFrom(s)[m] = <<SubSeq(s, start, EndOf(s, start))>> \o SplitFrom(s)[EndOf(s, start) + 1]
    BY <1>1, <1>2, <1>4, SplitFromDef
  <2> QED
    BY <2>1, <2>2, <1>2
<1> QED
  BY <1>3, <1>4

\* Behind the file there is no record.
LEMMA SplitAtEnd ==
  ASSUME NEW s \in Seq(Octets)
  PROVE  SplitFrom(s)[Len(s) + 1] = <<>>
<1>1. After(s, Len(s) + 1) = {} /\ Len(s) + 1 \in 1..(Len(s) + 1)
  BY DEF After
<1> QED
  BY <1>1, SplitFromDef

\* Skipped drops the separators at the head and nothing else.
LEMMA SkippedType ==
  ASSUME NEW s \in Seq(Octets)
  PROVE  /\ Skipped(s) \in Seq(Octets)
         /\ Len(Skipped(s)) \in 0..Len(s)
         /\ \A i \in 1..Len(Skipped(s)) : Skipped(s)[i] = s[Len(s) - Len(Skipped(s)) + i]
         /\ \A i \in 1..(Len(s) - Len(Skipped(s))) : s[i] = "blank"
         /\ Skipped(s) # <<>> => Skipped(s)[1] # "blank"
<1>1. Len(s) \in Nat
  OBVIOUS
<1>2. CASE Significant(s) = {}
  <2>1. Skipped(s) = <<>> /\ Len(<<>>) = 0 /\ <<>> \in Seq(Octets)
    BY <1>2 DEF Skipped
  <2>2. \A i \in 1..Len(s) : s[i] = "blank"
    BY <1>2 DEF Significant
  <2> QED
    BY <2>1, <2>2, <1>1
<1>3. CASE Significant(s) # {}
  <2> DEFINE m == First(Significant(s))
  <2>1. m \in Significant(s) /\ \A i \in Significant(s) : m <= i
    <3>1. Significant(s) \in SUBSET Nat
      BY DEF Significant
    <3> QED
      BY <3>1, <1>3, FirstLeast
  <2>2. Skipped(s) = SubSeq(s, m, Len(s))
    BY <1>3 DEF Skipped, From
  <2> HIDE DEF m
  <2>3. m \in 1..Len(s) /\ s[m] # "blank" /\ \A i \in 1..(m - 1) : s[i] = "blank"
    BY <2>1, <1>1 DEF Significant
  <2>4. /\ SubSeq(s, m, Len(s)) \in Seq(Octets)
        /\ Len(SubSeq(s, m, Len(s))) = Len(s) - m + 1
        /\ \A i \in 1..(Len(s) - m + 1) : SubSeq(s, m, Len(s))[i] = s[m + i - 1]
    <3>1. m \in 1..(Len(s) + 1) /\ Len(s) <= Len(s) /\ m <= Len(s) + 1
      BY <2>3, <1>1
    <3> QED
      BY <3>1, <1>1, PartType
  <2>5. Len(Skipped(s)) \in 0..Len(s) /\ Len(s) - Len(Skipped(s)) = m - 1
    BY <2>2, <2>3, <2>4, <1>1
  <2>6. \A i \in 1..Len(Skipped(s)) : Skipped(s)[i] = s[(m - 1) + i]
    BY <2>2, <2>3, <2>4, <1>1
  <2>7. 1 \in 1..(Len(s) - m + 1) /\ m + 1 - 1 = m
    BY <2>3, <1>1
  <2>8. Skipped(s)[1] = s[m]
    BY <2>2, <2>4, <2>7
  <2> QED
    BY <2>2, <2>3, <2>4, <2>5, <2>6, <2>8
<1> QED
  BY <1>2, <1>3

\* The first n octets of b were read at k, and are a record: no terminator
\* stands before the n-th, and the n-th is one or the last of the file.
RecordRead(s, k, b, n) ==
  /\ \A i \in 1..n : b[i] = s[k + i - 1]
  /\ \A i \in 1..(n - 1) : b[i] # RT
  /\ b[n] = RT \/ k + n - 1 = Len(s)

\* Such octets are the record at k.
LEMMA RecordAt ==
  ASSUME NEW s \in Seq(Octets), NEW k \in 1..Len(s), s[k] # "blank",
         NEW b \in Seq(Octets), NEW n \in 1..Len(b), k + n - 1 <= Len(s),
         RecordRead(s, k, b, n)
  PROVE  /\ SubSeq(b, 1, n) \in PiecesOf(s)
         /\ Len(SubSeq(b, 1, n)) = n
         /\ SplitFrom(s)[k] = <<SubSeq(b, 1, n)>> \o SplitFrom(s)[k + n]
<1>0. /\ \A i \in 1..n : b[i] = s[k + i - 1]
      /\ \A i \in 1..(n - 1) : b[i] # RT
      /\ b[n] = RT \/ k + n - 1 = Len(s)
  BY DEF RecordRead
<1>1. Len(s) \in Nat /\ Len(b) \in Nat
  OBVIOUS
<1> DEFINE e == EndOf(s, k)
<1>2. /\ e \in k..Len(s)
      /\ \A i \in k..(e - 1) : s[i] # RT
      /\ e # Len(s) => s[e] = RT
  BY EndOfType
<1> HIDE DEF e
<1>3. e = k + n - 1
  <2>1. ASSUME e < k + n - 1 PROVE FALSE
    <3> DEFINE i == e - k + 1
    <3>1. i \in 1..(n - 1) /\ k + i - 1 = e /\ e # Len(s) /\ i \in 1..n
      BY <1>1, <1>2, <2>1
    <3> HIDE DEF i
    <3> QED
      BY <3>1, <1>0, <1>2
  <2>2. ASSUME e > k + n - 1 PROVE FALSE
    <3>1. k + n - 1 \in k..(e - 1) /\ n \in 1..n /\ k + n - 1 # Len(s)
      BY <1>1, <1>2, <2>2
    <3>2. s[k + n - 1] # RT /\ b[n] = s[k + n - 1]
      BY <3>1, <1>0, <1>2
    <3> QED
      BY <3>1, <3>2, <1>0
  <2> QED
    BY <1>1, <1>2, <2>1, <2>2
<1> DEFINE r == SubSeq(b, 1, n)
           t == SubSeq(s, k, e)
<1>4. r \in Seq(Octets) /\ Len(r) = n /\ \A i \in 1..n : r[i] = b[i]
  <2>1. 1 \in 1..(Len(b) + 1) /\ n \in Nat /\ n <= Len(b) /\ 1 <= n + 1 /\ n - 1 + 1 = n
        /\ \A i \in 1..n : 1 + i - 1 = i
    BY <1>1
  <2>2. r \in Seq(Octets) /\ Len(r) = n - 1 + 1 /\ \A i \in 1..(n - 1 + 1) : r[i] = b[1 + i - 1]
    BY <2>1, PartType
  <2> HIDE DEF r
  <2> QED
    BY <2>1, <2>2
<1>5. t \in Seq(Octets) /\ Len(t) = n /\ \A i \in 1..n : t[i] = s[k + i - 1]
  <2>1. k \in 1..(Len(s) + 1) /\ e \in Nat /\ e <= Len(s) /\ k <= e + 1 /\ e - k + 1 = n
    BY <1>1, <1>2, <1>3
  <2>2. t \in Seq(Octets) /\ Len(t) = e - k + 1 /\ \A i \in 1..(e - k + 1) : t[i] = s[k + i - 1]
    BY <2>1, PartType
  <2> HIDE DEF t
  <2> QED
    BY <2>1, <2>2
<1> HIDE DEF r, t
<1>6. r = t
  <2>1. r \in Seq(Octets) /\ t \in Seq(Octets) /\ Len(r) = Len(t)
    BY <1>4, <1>5
  <2>2. \A i \in 1..n : r[i] = b[i] /\ b[i] = s[k + i - 1] /\ t[i] = s[k + i - 1]
    BY <1>0, <1>4, <1>5
  <2>3. \A i \in 1..Len(r) : r[i] = t[i]
    BY <2>2, <1>4
  <2> QED
    BY ONLY <2>1, <2>3, SeqEqual
<1>7. t \in PiecesOf(s) /\ SplitFrom(s)[k] = <<t>> \o SplitFrom(s)[e + 1]
  BY SplitAt DEF t, e
<1>8. e + 1 = k + n
  BY <1>1, <1>2, <1>3
<1> QED
  BY <1>4, <1>6, <1>7, <1>8 DEF r

\* A record appended to those before it, instead of put before those after it.
LEMMA Handed ==
  ASSUME NEW S, NEW u \in Seq(S), NEW r \in S, NEW v \in Seq(S)
  PROVE  /\ Append(u, r) \o v = u \o (<<r>> \o v)
         /\ Len(u) + 1 \in 1..Len(u \o (<<r>> \o v))
         /\ (u \o (<<r>> \o v))[Len(u) + 1] = r
<1>1. <<r>> \in Seq(S) /\ Len(<<r>>) = 1 /\ <<r>>[1] = r /\ Len(u) \in Nat /\ Len(v) \in Nat
  OBVIOUS
<1>2. Append(u, r) = u \o <<r>>
  <2>1. u \o <<r>> \in Seq(S) /\ Len(u \o <<r>>) = Len(u) + 1
        /\ \A i \in 1..Len(u) : (u \o <<r>>)[i] = u[i]
    BY <1>1, ConcatProperties
  <2>2. (u \o <<r>>)[Len(u) + 1] = r
    BY <1>1
  <2>3. Append(u, r) \in Seq(S) /\ Len(Append(u, r)) = Len(u) + 1
        /\ \A i \in 1..Len(u) : Append(u, r)[i] = u[i]
    OBVIOUS
  <2>4. Append(u, r)[Len(u) + 1] = r
    OBVIOUS
  <2>5. \A i \in 1..(Len(u) + 1) : i \in 1..Len(u) \/ i = Len(u) + 1
    BY <1>1
  <2> QED
    BY <2>1, <2>2, <2>3, <2>4, <2>5
<1>3. (u \o <<r>>) \o v = u \o (<<r>> \o v)
  BY <1>1, ConcatAssociative
<1>4. <<r>> \o v \in Seq(S) /\ Len(<<r>> \o v) = 1 + Len(v) /\ (<<r>> \o v)[1] = r
  BY <1>1, ConcatProperties
<1> DEFINE w == <<r>> \o v
<1> HIDE DEF w
<1>5. w \in Seq(S) /\ Len(w) = 1 + Len(v) /\ w[1] = r
  BY <1>4 DEF w
<1>6. Len(u \o w) = Len(u) + Len(w) /\ (u \o w)[Len(u) + 1] = w[1]
  BY <1>1, <1>5
<1>7. Len(u) + 1 \in 1..Len(u \o w)
  BY <1>1, <1>5, <1>6
<1> QED
  BY <1>2, <1>3, <1>5, <1>6, <1>7 DEF w

-----------------------------------------------------------------------------
(* The stream.                                                             *)

\* No record of the file is longer than Longest.
LEMMA LongestBounds ==
  ASSUME file \in Contents
  PROVE  /\ Split(file) \in Seq(PiecesOf(file))
         /\ Longest \in Nat
         /\ \A i \in 1..Len(Split(file)) : Len(Split(file)[i]) <= Longest
<1>1. file \in Seq(Octets) /\ Len(file) \in Nat
  BY StreamAssumption
<1>2. Split(file) \in Seq(PiecesOf(file))
  <2>1. 1 \in 1..(Len(file) + 1)
    BY <1>1
  <2> QED
    BY <1>1, <2>1, SplitFromDef DEF Split
<1>3. \A i \in DOMAIN Split(file) : Len(Split(file)[i]) \in Nat /\ Len(Split(file)[i]) <= Len(file)
  BY <1>2 DEF PiecesOf
<1>4. Lengths \in SUBSET Nat /\ Lengths # {} /\ \A n \in Lengths : n <= Len(file)
  BY <1>1, <1>3 DEF Lengths
<1>5. \E n \in Lengths : \A m \in Lengths : m <= n
  BY <1>1, <1>4, Greatest
<1>6. Longest \in Lengths /\ \A m \in Lengths : m <= Longest
  BY <1>5 DEF Longest
<1>7. \A i \in 1..Len(Split(file)) : Len(Split(file)[i]) \in Lengths
  BY <1>2 DEF Lengths
<1> QED
  BY <1>2, <1>4, <1>6, <1>7

\* Dropping the separators leaves the stream as it is.
LEMMA SkipKeeps ==
  ASSUME IndInv, ~failed
  PROVE  LET b == Skipped(buf) IN
         /\ file \in Seq(Octets) /\ Len(file) \in Nat /\ pos \in 0..Len(file)
         /\ b \in Seq(Octets) /\ Len(b) \in 0..Len(buf) /\ Len(buf) \in Nat
         /\ ReadLast(b)
         /\ Place(b) \in 1..(pos + 1)
         /\ b # <<>> => Place(b) \in 1..Len(file) /\ file[Place(b)] # "blank"
         /\ SplitFrom(file)[Place(b)] = SplitFrom(file)[Place(buf)]
         /\ SplitFrom(file)[Place(b)] \in Seq(PiecesOf(file))
         /\ records \o SplitFrom(file)[Place(b)] = Split(file)
<1> DEFINE b == Skipped(buf)
           d == Len(buf) - Len(b)
<1>1. /\ file \in Seq(Octets) /\ Len(file) \in Nat /\ pos \in 0..Len(file)
      /\ buf \in Seq(Octets) /\ Len(buf) \in Nat
  BY StreamAssumption DEF IndInv, TypeOK
<1>2. /\ b \in Seq(Octets) /\ Len(b) \in 0..Len(buf)
      /\ \A i \in 1..Len(b) : b[i] = buf[d + i]
      /\ \A i \in 1..d : buf[i] = "blank"
      /\ b # <<>> => b[1] # "blank"
  BY <1>1, SkippedType
<1>3. /\ Len(buf) <= pos
      /\ \A i \in 1..Len(buf) : buf[i] = file[Place(buf) + i - 1]
      /\ records \o SplitFrom(file)[Place(buf)] = Split(file)
  BY DEF IndInv, StreamOK, ReadLast
<1> HIDE DEF b
<1>4. /\ Place(b) \in Int /\ Place(buf) \in Int /\ d \in Int /\ Place(b) = Place(buf) + d
      /\ Place(buf) \in 1..(pos + 1) /\ Place(b) \in Place(buf)..(pos + 1)
      /\ d \in 0..Len(buf) /\ d + Len(b) = Len(buf)
  BY <1>1, <1>2, <1>3 DEF Place
<1> HIDE DEF d
<1>5. \A i \in 1..Len(b) : b[i] = file[Place(b) + i - 1]
  <2>1. \A i \in 1..Len(b) : d + i \in 1..Len(buf) /\ Place(buf) + (d + i) - 1 = Place(b) + i - 1
    <3>1. Len(b) \in Int /\ Len(buf) \in Int /\ Place(b) \in Int /\ Place(buf) \in Int /\ d \in Int
          /\ d >= 0 /\ d + Len(b) = Len(buf) /\ Place(b) = Place(buf) + d
      BY <1>1, <1>2, <1>4
    <3> DEFINE x == Len(b)  y == Len(buf)  u == Place(b)  v == Place(buf)
    <3> HIDE DEF x, y, u, v
    <3>2. x \in Int /\ y \in Int /\ u \in Int /\ v \in Int /\ d \in Int
          /\ d >= 0 /\ d + x = y /\ u = v + d
      BY <3>1 DEF x, y, u, v
    <3>3. \A i \in 1..x : d + i \in 1..y /\ v + (d + i) - 1 = u + i - 1
      BY ONLY <3>2
    <3> QED
      BY <3>3 DEF x, y, u, v
  <2>2. \A i \in 1..Len(b) : buf[d + i] = file[Place(buf) + (d + i) - 1]
    BY <2>1, <1>3
  <2> QED
    BY <2>1, <2>2, <1>2
<1>6. ReadLast(b)
  BY <1>1, <1>2, <1>3, <1>5 DEF ReadLast
<1>7. ASSUME b # <<>> PROVE Place(b) \in 1..Len(file) /\ file[Place(b)] # "blank"
  <2>1. Len(b) # 0 /\ 1 \in 1..Len(b)
    BY <1>2, <1>7
  <2>2. Place(b) + 1 - 1 = Place(b) /\ Place(b) \in 1..Len(file)
    BY <1>1, <1>2, <1>3, <2>1 DEF Place
  <2> QED
    BY <2>1, <2>2, <1>2, <1>5, <1>7
<1>8. SplitFrom(file)[Place(buf)] = SplitFrom(file)[Place(b)]
  <2>1. ASSUME NEW i \in Place(buf)..(Place(b) - 1) PROVE file[i] = "blank"
    <3> DEFINE j == i - Place(buf) + 1
    <3>1. j \in 1..d /\ j \in 1..Len(buf) /\ Place(buf) + j - 1 = i
      <4> DEFINE y == Len(buf)  u == Place(b)  v == Place(buf)
      <4> HIDE DEF y, u, v
      <4>1. y \in Int /\ u \in Int /\ v \in Int /\ d \in Int /\ d <= y /\ u = v + d
            /\ i \in v..(u - 1)
        BY <1>1, <1>4, <2>1 DEF y, u, v
      <4>2. i - v + 1 \in 1..d /\ i - v + 1 \in 1..y /\ v + (i - v + 1) - 1 = i
        BY ONLY <4>1
      <4> QED
        BY <4>2 DEF y, u, v
    <3> HIDE DEF j
    <3> QED
      BY <3>1, <1>2, <1>3
  <2>2. Place(buf) \in 1..(Len(file) + 1) /\ Place(b) \in Place(buf)..(Len(file) + 1)
    BY <1>1, <1>4
  <2> QED
    BY <2>1, <2>2, <1>1, SplitPastBlanks
<1>9. SplitFrom(file)[Place(b)] \in Seq(PiecesOf(file))
  <2>1. Place(b) \in 1..(Len(file) + 1)
    BY <1>1, <1>4
  <2> QED
    BY <2>1, <1>1, SplitFromDef
<1>10. Place(b) \in 1..(pos + 1)
  BY <1>1, <1>4
<1> QED
  BY <1>1, <1>2, <1>3, <1>6, <1>7, <1>8, <1>9, <1>10 DEF b

\* What the buffer is in every state, failed or not.
LEMMA BufferType ==
  ASSUME IndInv
  PROVE  /\ file \in Contents /\ pos \in 0..Len(file) /\ eof \in BOOLEAN
         /\ records \in Seq(Seq(Octets)) /\ ended \in BOOLEAN /\ failed \in BOOLEAN
         /\ buf \in Seq(Octets) /\ Len(buf) \in Nat
         /\ Skipped(buf) \in Seq(Octets) /\ Len(Skipped(buf)) \in 0..Len(buf)
         /\ file \in Seq(Octets) /\ Len(file) \in Nat /\ READ_CHUNK \in Nat \ {0}
<1>1. buf \in Seq(Octets) /\ file \in Seq(Octets)
  BY StreamAssumption DEF IndInv, TypeOK
<1> QED
  BY <1>1, SkippedType, StreamAssumption DEF IndInv, TypeOK

\* A terminator in the buffer ends the first record.
LEMMA TakeRecordStep ==
  ASSUME IndInv, TakeRecord
  PROVE  IndInv'
<1> DEFINE b == Skipped(buf)
           rt == First(Terminators(b))
           r == SubSeq(b, 1, rt)
<1>1. /\ file \in Contents /\ pos \in 0..Len(file) /\ eof \in BOOLEAN
      /\ records \in Seq(Seq(Octets)) /\ ended \in BOOLEAN /\ failed \in BOOLEAN
      /\ b \in Seq(Octets) /\ Len(b) \in 0..Len(buf) /\ Len(buf) \in Nat /\ Len(b) \in Nat
  BY BufferType
<1>2. /\ ~ended /\ Terminators(b) # {}
      /\ records' = Append(records, r)
      /\ buf' = SubSeq(b, rt + 1, Len(b))
      /\ file' = file /\ pos' = pos /\ eof' = eof /\ ended' = ended /\ failed' = failed
  BY DEF TakeRecord, From
<1> HIDE DEF b
<1>3. rt \in Terminators(b) /\ \A i \in Terminators(b) : rt <= i
  <2>1. Terminators(b) \in SUBSET Nat
    BY <1>1 DEF Terminators
  <2> QED
    BY <1>2, <2>1, FirstLeast
<1> HIDE DEF rt
<1>4. rt \in 1..Len(b) /\ b[rt] = RT /\ \A i \in 1..(rt - 1) : b[i] # RT
  BY <1>1, <1>3 DEF Terminators
<1>5. r \in Seq(Octets)
  <2>1. 1 \in 1..(Len(b) + 1) /\ rt \in Nat /\ rt <= Len(b) /\ 1 <= rt + 1
    BY <1>1, <1>4
  <2> QED
    BY <2>1, <1>1, PartType
<1>6. /\ buf' \in Seq(Octets)
      /\ Len(buf') = Len(b) - rt
      /\ \A i \in 1..(Len(b) - rt) : buf'[i] = b[rt + i]
  <2> DEFINE t == SubSeq(b, rt + 1, Len(b))
  <2>1. rt + 1 \in 1..(Len(b) + 1) /\ Len(b) <= Len(b) /\ rt + 1 <= Len(b) + 1
        /\ Len(b) - (rt + 1) + 1 = Len(b) - rt /\ \A i \in 1..(Len(b) - rt) : (rt + 1) + i - 1 = rt + i
    BY <1>1, <1>4
  <2>2. t \in Seq(Octets) /\ Len(t) = Len(b) - (rt + 1) + 1
        /\ \A i \in 1..(Len(b) - (rt + 1) + 1) : t[i] = b[(rt + 1) + i - 1]
    BY <2>1, <1>1, PartType
  <2> HIDE DEF t
  <2>3. t \in Seq(Octets) /\ Len(t) = Len(b) - rt /\ \A i \in 1..(Len(b) - rt) : t[i] = b[rt + i]
    BY <2>1, <2>2
  <2>4. buf' = t
    BY <1>2 DEF t
  <2> QED
    BY <2>3, <2>4
<1> HIDE DEF r
<1>7. TypeOK'
  BY <1>1, <1>2, <1>5, <1>6 DEF TypeOK
<1>8. ASSUME ~failed PROVE StreamOK'
  <2>1. /\ file \in Seq(Octets) /\ Len(file) \in Nat
        /\ Len(b) <= pos /\ \A i \in 1..Len(b) : b[i] = file[Place(b) + i - 1]
        /\ b # <<>> => Place(b) \in 1..Len(file) /\ file[Place(b)] # "blank"
        /\ records \o SplitFrom(file)[Place(b)] = Split(file)
    BY <1>8, SkipKeeps DEF b, ReadLast
  <2>2. (eof => pos = Len(file)) /\ Len(buf) <= Longest + READ_CHUNK /\ Longest \in Nat /\ READ_CHUNK \in Nat
    BY <1>1, <1>8, LongestBounds, StreamAssumption DEF IndInv, StreamOK
  <2> DEFINE k == Place(b)
  <2>3. b # <<>>
    BY <1>1, <1>4
  <2>4. k \in 1..Len(file) /\ file[k] # "blank" /\ k = pos - Len(b) + 1
    BY <2>1, <2>3 DEF Place
  <2> HIDE DEF k
  <2>5. \A i \in 1..Len(b) : b[i] = file[k + i - 1]
    BY <2>1 DEF k
  <2>6. /\ k + rt - 1 <= Len(file) /\ k + rt \in 1..(Len(file) + 1)
        /\ rt \in 1..Len(b) /\ \A i \in 1..rt : i \in 1..Len(b)
    BY <1>1, <1>4, <2>1, <2>4, SMTT(30)
  <2>7. r \in PiecesOf(file) /\ SplitFrom(file)[k] = <<r>> \o SplitFrom(file)[k + rt]
    <3>1. \A i \in 1..rt : b[i] = file[k + i - 1]
      BY <2>5, <2>6
    <3>2. /\ SubSeq(b, 1, rt) \in PiecesOf(file)
          /\ SplitFrom(file)[k] = <<SubSeq(b, 1, rt)>> \o SplitFrom(file)[k + rt]
      <4>1. RecordRead(file, k, b, rt)
        BY <3>1, <1>4 DEF RecordRead
      <4> QED
        BY <4>1, <1>1, <2>1, <2>4, <2>6, RecordAt
    <3> QED
      BY <3>2 DEF r
  <2>8. SplitFrom(file)[k + rt] \in Seq(Seq(Octets))
    <3>1. SplitFrom(file)[k + rt] \in Seq(PiecesOf(file))
      BY <2>1, <2>6, SplitFromDef
    <3>2. PiecesOf(file) \subseteq Seq(Octets)
      BY DEF PiecesOf
    <3> QED
      BY <3>1, <3>2
  <2>9. records' \o SplitFrom(file)[k + rt] = Split(file)
    <3>1. Append(records, r) \o SplitFrom(file)[k + rt] = records \o (<<r>> \o SplitFrom(file)[k + rt])
      <4> DEFINE rest == SplitFrom(file)[k + rt]
                 S == Seq(Octets)
      <4>1. records \in Seq(S) /\ r \in S /\ rest \in Seq(S)
        BY <1>1, <1>5, <2>8
      <4> HIDE DEF rest, S
      <4>2. Append(records, r) \o rest = records \o (<<r>> \o rest)
        BY <4>1, Handed
      <4> QED
        BY <4>2 DEF rest
    <3> QED
      BY <3>1, <1>2, <2>1, <2>7 DEF k
  <2>10. Place(buf)' = k + rt
    <3>1. Place(buf)' = pos - Len(buf') + 1
      BY <1>2 DEF Place
    <3> QED
      BY <3>1, <1>1, <1>4, <1>6, <2>4
  <2>11. ReadLast(buf)'
    <3>0. Len(buf') = Len(b) - rt /\ Len(b) \in Nat /\ Len(b) <= pos /\ pos \in Nat /\ k \in Nat /\ rt \in 1..Len(b)
      BY <1>1, <1>4, <1>6, <2>1, <2>4
    <3>1. Len(buf') <= pos /\ \A i \in 1..Len(buf') : rt + i \in 1..Len(b) /\ k + (rt + i) - 1 = k + rt + i - 1
      <4> DEFINE x == Len(buf')
                 y == Len(b)
      <4>1. x = y - rt /\ y \in Nat /\ y <= pos /\ pos \in Nat /\ k \in Nat /\ rt \in 1..y
        BY <3>0
      <4> HIDE DEF x, y
      <4>2. x <= pos /\ \A i \in 1..x : rt + i \in 1..y /\ k + (rt + i) - 1 = k + rt + i - 1
        BY <4>1
      <4> QED
        BY <4>2 DEF x, y
    <3>2. \A i \in 1..Len(buf') : buf'[i] = file[k + rt + i - 1]
      BY <3>1, <1>6, <2>5
    <3> QED
      BY <3>1, <3>2, <1>2, <2>10 DEF ReadLast
  <2>12. Len(buf') <= Longest + READ_CHUNK
    BY <1>1, <1>4, <1>6, <2>2
  <2>13. (Split(file))' = Split(file) /\ (SplitFrom(file))' = SplitFrom(file) /\ Longest' = Longest
    BY <1>2 DEF Split, SplitFrom, Longest, Lengths, After, EndOf
  <2> QED
    BY <1>2, <2>2, <2>9, <2>10, <2>11, <2>12, <2>13 DEF StreamOK
<1> QED
  BY <1>2, <1>7, <1>8 DEF IndInv, StreamOK

\* At the end of the file, what is left is the last record.
LEMMA TakeTailStep ==
  ASSUME IndInv, TakeTail
  PROVE  IndInv'
<1> DEFINE b == Skipped(buf)
<1>1. /\ file \in Contents /\ pos \in 0..Len(file) /\ eof \in BOOLEAN
      /\ records \in Seq(Seq(Octets)) /\ ended \in BOOLEAN /\ failed \in BOOLEAN
      /\ b \in Seq(Octets) /\ Len(b) \in 0..Len(buf) /\ Len(buf) \in Nat /\ Len(b) \in Nat
  BY BufferType
<1>2. /\ ~ended /\ eof /\ Terminators(b) = {} /\ b # <<>>
      /\ records' = Append(records, b)
      /\ buf' = <<>>
      /\ file' = file /\ pos' = pos /\ eof' = eof /\ ended' = ended /\ failed' = failed
  BY DEF TakeTail
<1> HIDE DEF b
<1>3. <<>> \in Seq(Octets) /\ Len(<<>>) = 0
  OBVIOUS
<1>4. TypeOK'
  BY <1>1, <1>2, <1>3 DEF TypeOK
<1>5. ASSUME ~failed PROVE StreamOK'
  <2>1. /\ file \in Seq(Octets) /\ Len(file) \in Nat
        /\ Len(b) <= pos /\ \A i \in 1..Len(b) : b[i] = file[Place(b) + i - 1]
        /\ b # <<>> => Place(b) \in 1..Len(file) /\ file[Place(b)] # "blank"
        /\ records \o SplitFrom(file)[Place(b)] = Split(file)
    BY <1>5, SkipKeeps DEF b, ReadLast
  <2>2. pos = Len(file) /\ Longest \in Nat /\ READ_CHUNK \in Nat
    BY <1>1, <1>2, <1>5, LongestBounds, StreamAssumption DEF IndInv, StreamOK
  <2> DEFINE k == Place(b)
  <2>3. k \in 1..Len(file) /\ file[k] # "blank" /\ k = pos - Len(b) + 1
    BY <2>1, <1>2 DEF Place
  <2> HIDE DEF k
  <2>4. Len(b) \in 1..Len(b) /\ k + Len(b) - 1 = Len(file) /\ k + Len(b) = Len(file) + 1
        /\ k + Len(b) - 1 <= Len(file)
    BY <1>1, <1>2, <2>1, <2>2, <2>3
  <2>5. RecordRead(file, k, b, Len(b))
    <3>1. \A i \in 1..Len(b) : b[i] # RT
      BY <1>2 DEF Terminators
    <3>2. \A i \in 1..(Len(b) - 1) : i \in 1..Len(b)
      BY <1>1
    <3> QED
      BY <3>1, <3>2, <2>1, <2>4 DEF RecordRead, k
  <2>6. SubSeq(b, 1, Len(b)) \in PiecesOf(file)
        /\ SplitFrom(file)[k] = <<SubSeq(b, 1, Len(b))>> \o SplitFrom(file)[k + Len(b)]
    BY <1>1, <2>1, <2>3, <2>4, <2>5, RecordAt, ZenonT(30)
  <2>7. SubSeq(b, 1, Len(b)) = b
    <3>1. 1 \in 1..(Len(b) + 1) /\ Len(b) <= Len(b) /\ 1 <= Len(b) + 1 /\ Len(b) - 1 + 1 = Len(b)
          /\ \A i \in 1..Len(b) : 1 + i - 1 = i
      BY <1>1
    <3> DEFINE t == SubSeq(b, 1, Len(b))
    <3>2. t \in Seq(Octets) /\ Len(t) = Len(b) - 1 + 1 /\ \A i \in 1..(Len(b) - 1 + 1) : t[i] = b[1 + i - 1]
      BY <3>1, <1>1, PartType
    <3> HIDE DEF t
    <3>3. t \in Seq(Octets) /\ Len(t) = Len(b) /\ \A i \in 1..Len(b) : t[i] = b[i]
      BY <3>1, <3>2
    <3>4. t = b
      BY <1>1, <3>3
    <3> QED
      BY <3>4 DEF t
  <2>8. SplitFrom(file)[Len(file) + 1] = <<>>
    BY <2>1, SplitAtEnd
  <2>9. Append(records, b) \o <<>> = Split(file)
    <3> DEFINE S == Seq(Octets)
    <3>1. records \in Seq(S) /\ b \in S /\ <<>> \in Seq(S)
      BY <1>1
    <3> HIDE DEF S
    <3>2. Append(records, b) \o <<>> = records \o (<<b>> \o <<>>)
      BY <3>1, Handed
    <3> QED
      BY <3>2, <2>1, <2>4, <2>6, <2>7, <2>8 DEF k
  <2>10. Place(buf)' = Len(file) + 1
    <3>1. Place(buf)' = pos - Len(buf') + 1
      BY <1>2 DEF Place
    <3> QED
      BY <3>1, <1>1, <1>2, <1>3, <2>1, <2>2
  <2>11. ReadLast(buf)'
    BY <1>1, <1>2, <1>3 DEF ReadLast
  <2>12. Len(buf') <= Longest + READ_CHUNK
    BY <1>2, <1>3, <2>2
  <2>13. (Split(file))' = Split(file) /\ (SplitFrom(file))' = SplitFrom(file) /\ Longest' = Longest
    BY <1>2 DEF Split, SplitFrom, Longest, Lengths, After, EndOf
  <2> QED
    BY <1>2, <2>2, <2>8, <2>9, <2>10, <2>11, <2>12, <2>13 DEF StreamOK
<1> QED
  BY <1>2, <1>4, <1>5 DEF IndInv, StreamOK

\* At the end of the file, with nothing left, there was no record left either.
LEMMA ReturnFalseStep ==
  ASSUME IndInv, ReturnFalse
  PROVE  IndInv'
<1>1. /\ file \in Contents /\ pos \in 0..Len(file) /\ eof \in BOOLEAN
      /\ records \in Seq(Seq(Octets)) /\ ended \in BOOLEAN /\ failed \in BOOLEAN
  BY BufferType
<1>2. /\ ~ended /\ eof /\ Skipped(buf) = <<>>
      /\ buf' = <<>> /\ ended' = TRUE
      /\ file' = file /\ pos' = pos /\ eof' = eof /\ records' = records /\ failed' = failed
  BY DEF ReturnFalse
<1>3. <<>> \in Seq(Octets) /\ Len(<<>>) = 0
  OBVIOUS
<1>4. TypeOK'
  BY <1>1, <1>2, <1>3 DEF TypeOK
<1>5. ASSUME ~failed PROVE StreamOK'
  <2>1. /\ file \in Seq(Octets) /\ Len(file) \in Nat
        /\ records \o SplitFrom(file)[Place(<<>>)] = Split(file)
    BY <1>2, <1>5, SkipKeeps
  <2>2. pos = Len(file) /\ Longest \in Nat /\ READ_CHUNK \in Nat
    BY <1>1, <1>2, <1>5, LongestBounds, StreamAssumption DEF IndInv, StreamOK
  <2>3. Place(<<>>) = Len(file) + 1
    BY <1>3, <2>1, <2>2 DEF Place
  <2>4. SplitFrom(file)[Len(file) + 1] = <<>>
    BY <2>1, SplitAtEnd
  <2>5. Place(buf)' = Len(file) + 1
    <3>1. Place(buf)' = pos - Len(buf') + 1
      BY <1>2 DEF Place
    <3> QED
      BY <3>1, <1>1, <1>2, <1>3, <2>1, <2>2
  <2>6. ReadLast(buf)'
    BY <1>1, <1>2, <1>3 DEF ReadLast
  <2>7. (Split(file))' = Split(file) /\ (SplitFrom(file))' = SplitFrom(file) /\ Longest' = Longest
    BY <1>2 DEF Split, SplitFrom, Longest, Lengths, After, EndOf
  <2>8. Len(buf') <= Longest + READ_CHUNK
    BY <1>2, <1>3, <2>2
  <2> QED
    BY <1>2, <2>1, <2>2, <2>3, <2>4, <2>5, <2>6, <2>7, <2>8 DEF StreamOK
<1> QED
  BY <1>2, <1>4, <1>5 DEF IndInv, StreamOK

\* A buffer without a terminator holds part of one record.
LEMMA PartialRecord ==
  ASSUME IndInv, ~failed, Terminators(Skipped(buf)) = {}
  PROVE  Len(Skipped(buf)) <= Longest
<1> DEFINE b == Skipped(buf)
<1>1. /\ records \in Seq(Seq(Octets)) /\ pos \in 0..Len(file)
      /\ b \in Seq(Octets) /\ Len(b) \in Nat
  BY BufferType
<1>2. /\ file \in Seq(Octets) /\ Len(file) \in Nat
      /\ Len(b) <= pos /\ \A i \in 1..Len(b) : b[i] = file[Place(b) + i - 1]
      /\ b # <<>> => Place(b) \in 1..Len(file) /\ file[Place(b)] # "blank"
      /\ records \o SplitFrom(file)[Place(b)] = Split(file)
  BY SkipKeeps DEF ReadLast
<1>3. /\ Split(file) \in Seq(PiecesOf(file)) /\ Longest \in Nat
      /\ \A i \in 1..Len(Split(file)) : Len(Split(file)[i]) <= Longest
  BY LongestBounds DEF IndInv, TypeOK
<1> HIDE DEF b
<1>4. CASE b = <<>>
  BY <1>3, <1>4 DEF b
<1>5. CASE b # <<>>
  <2> DEFINE k == Place(b)
             e == EndOf(file, k)
             r == SubSeq(file, k, e)
             rest == SplitFrom(file)[e + 1]
  <2>1. k \in 1..Len(file) /\ file[k] # "blank" /\ k = pos - Len(b) + 1
    BY <1>2, <1>5 DEF Place
  <2> HIDE DEF k
  <2>2. /\ e \in k..Len(file)
        /\ e # Len(file) => file[e] = RT
        /\ r \in PiecesOf(file)
        /\ SplitFrom(file)[k] = <<r>> \o rest
    BY <1>2, <2>1, SplitAt, EndOfType
  <2> HIDE DEF e
  <2>3. Len(b) <= e - k + 1
    <3>1. CASE e = Len(file)
      BY <1>1, <1>2, <2>1, <3>1
    <3>2. CASE e # Len(file)
      <4>1. ASSUME e - k + 1 \in 1..Len(b) PROVE FALSE
        <5>1. k + (e - k + 1) - 1 = e
          BY <2>1, <2>2
        <5>2. b[e - k + 1] = file[e]
          BY <1>2, <4>1, <5>1 DEF k
        <5>3. b[e - k + 1] = RT
          BY <2>2, <3>2, <5>2
        <5> QED
          BY <4>1, <5>3 DEF Terminators, b
      <4> QED
        BY <1>1, <2>1, <2>2, <4>1
    <3> QED
      BY <3>1, <3>2
  <2>4. Len(r) = e - k + 1
    <3>1. k \in 1..(Len(file) + 1) /\ e \in Nat /\ e <= Len(file) /\ k <= e + 1
      BY <1>2, <2>1, <2>2
    <3> QED
      BY <3>1, <1>2, PartType
  <2>5. rest \in Seq(Seq(Octets)) /\ r \in Seq(Octets)
    <3>1. e + 1 \in 1..(Len(file) + 1)
      BY <1>2, <2>1, <2>2
    <3>2. rest \in Seq(PiecesOf(file))
      BY <1>2, <3>1, SplitFromDef
    <3>3. PiecesOf(file) \subseteq Seq(Octets)
      BY DEF PiecesOf
    <3>4. r \in Seq(Octets)
      BY <2>2, <3>3
    <3> HIDE DEF r, rest
    <3>5. rest \in Seq(Seq(Octets))
      BY <3>2, <3>3
    <3> QED
      BY <3>4, <3>5
  <2> HIDE DEF r, rest
  <2>6. Len(records) + 1 \in 1..Len(Split(file)) /\ Split(file)[Len(records) + 1] = r
    <3> DEFINE S == Seq(Octets)
    <3>1. records \in Seq(S) /\ r \in S /\ rest \in Seq(S)
      BY <1>1, <2>5
    <3> HIDE DEF S
    <3>2. /\ Len(records) + 1 \in 1..Len(records \o (<<r>> \o rest))
          /\ (records \o (<<r>> \o rest))[Len(records) + 1] = r
      BY <3>1, Handed
    <3>3. records \o (<<r>> \o rest) = Split(file)
      BY <1>2, <2>2 DEF k
    <3> QED
      BY <3>2, <3>3
  <2>7. Len(r) <= Longest
    BY <1>3, <2>6
  <2> QED
    BY <1>1, <1>3, <2>1, <2>2, <2>3, <2>4, <2>7 DEF b
<1> QED
  BY <1>4, <1>5

\* Octets are read behind what the buffer holds.
LEMMA ReadStep ==
  ASSUME IndInv, Read
  PROVE  IndInv'
<1> DEFINE b == Skipped(buf)
<1>1. /\ file \in Contents /\ pos \in 0..Len(file) /\ eof \in BOOLEAN
      /\ records \in Seq(Seq(Octets)) /\ ended \in BOOLEAN /\ failed \in BOOLEAN
      /\ b \in Seq(Octets) /\ Len(b) \in 0..Len(buf) /\ Len(buf) \in Nat /\ Len(b) \in Nat
      /\ file \in Seq(Octets) /\ Len(file) \in Nat /\ READ_CHUNK \in Nat
  BY BufferType
<1>2. PICK n \in ReadSizes :
        /\ buf' = b \o SubSeq(file, pos + 1, pos + n)
        /\ pos' = pos + n
        /\ eof' = (n = 0)
  BY DEF Read
<1>3. /\ ~ended /\ Terminators(b) = {}
      /\ file' = file /\ records' = records /\ ended' = ended /\ failed' = failed
  BY DEF Read, Reads
<1>4. n \in 0..READ_CHUNK /\ n <= Len(file) - pos /\ (n = 0 => pos = Len(file))
  BY DEF ReadSizes
<1> HIDE DEF b
<1> DEFINE t == SubSeq(file, pos + 1, pos + n)
<1>5. t \in Seq(Octets) /\ Len(t) = n /\ \A i \in 1..n : t[i] = file[pos + i]
  <2>1. pos + 1 \in 1..(Len(file) + 1) /\ pos + n \in Nat /\ pos + n <= Len(file) /\ pos + 1 <= pos + n + 1
        /\ (pos + n) - (pos + 1) + 1 = n /\ \A i \in 1..n : (pos + 1) + i - 1 = pos + i
    BY <1>1, <1>4
  <2> DEFINE m == pos + n
             f == pos + 1
  <2>2. f \in 1..(Len(file) + 1) /\ m \in Nat /\ m <= Len(file) /\ f <= m + 1 /\ m - f + 1 = n
        /\ \A i \in 1..n : f + i - 1 = pos + i
    BY <2>1
  <2> HIDE DEF m, f
  <2> DEFINE u == SubSeq(file, f, m)
  <2>3. u \in Seq(Octets) /\ Len(u) = m - f + 1 /\ \A i \in 1..(m - f + 1) : u[i] = file[f + i - 1]
    BY <1>1, <2>2, PartType
  <2> HIDE DEF u
  <2>4. u \in Seq(Octets) /\ Len(u) = n /\ \A i \in 1..n : u[i] = file[pos + i]
    BY <2>2, <2>3
  <2>5. u = t
    BY DEF u, m, f
  <2> HIDE DEF t
  <2> QED
    BY <2>4, <2>5
<1>6. buf' = b \o t
  BY <1>2
<1> HIDE DEF t
<1>7. /\ buf' \in Seq(Octets) /\ Len(buf') = Len(b) + n
      /\ \A i \in 1..Len(b) : buf'[i] = b[i]
      /\ \A i \in (Len(b) + 1)..(Len(b) + n) : buf'[i] = t[i - Len(b)]
  <2>1. /\ b \o t \in Seq(Octets) /\ Len(b \o t) = Len(b) + Len(t)
        /\ \A i \in 1..Len(b \o t) : (b \o t)[i] = IF i <= Len(b) THEN b[i] ELSE t[i - Len(b)]
    <3>1. b \in Seq(Octets) /\ t \in Seq(Octets)
      BY <1>1, <1>5
    <3> QED
      BY <3>1, ConcatProperties
  <2> DEFINE c == b \o t
  <2>2. c = buf'
    BY <1>6
  <2> HIDE DEF c
  <2>3. c \in Seq(Octets) /\ Len(c) = Len(b) + n
        /\ \A i \in 1..(Len(b) + n) : c[i] = IF i <= Len(b) THEN b[i] ELSE t[i - Len(b)]
    BY <2>1, <1>5 DEF c
  <2>4. /\ \A i \in 1..Len(b) : c[i] = b[i]
        /\ \A i \in (Len(b) + 1)..(Len(b) + n) : c[i] = t[i - Len(b)]
    BY <2>3, <1>1, <1>4, SMTT(30)
  <2> QED
    BY <2>2, <2>3, <2>4
<1>8. TypeOK'
  <2>1. pos' \in 0..Len(file)
    BY <1>1, <1>2, <1>4
  <2> QED
    BY <1>1, <1>2, <1>3, <1>7, <2>1 DEF TypeOK
<1>9. ASSUME ~failed PROVE StreamOK'
  <2>1. /\ Len(b) <= pos /\ \A i \in 1..Len(b) : b[i] = file[Place(b) + i - 1]
        /\ records \o SplitFrom(file)[Place(b)] = Split(file)
    BY <1>9, SkipKeeps DEF b, ReadLast
  <2> DEFINE k == Place(b)
  <2>2. k \in Int /\ k = pos - Len(b) + 1
    BY <1>1 DEF Place
  <2> HIDE DEF k
  <2>3. Place(buf)' = k
    <3>1. Place(buf)' = pos' - Len(buf') + 1
      BY DEF Place
    <3> QED
      <4>1. pos' = pos + n /\ Len(buf') = Len(b) + n /\ pos \in Nat /\ n \in Nat /\ Len(b) \in Nat
            /\ k = pos - Len(b) + 1
        BY <1>1, <1>2, <1>4, <1>7, <2>2
      <4>2. pos' - Len(buf') + 1 = k
        BY <4>1
      <4> QED
        BY <3>1, <4>2
  <2>4. ReadLast(buf)'
    <3>1. \A i \in 1..Len(b) : buf'[i] = file[k + i - 1]
      BY <1>7, <2>1 DEF k
    <3>2. ASSUME NEW i \in (Len(b) + 1)..(Len(b) + n) PROVE buf'[i] = file[k + i - 1]
      <4>1. i - Len(b) \in 1..n /\ pos + (i - Len(b)) = k + i - 1
        BY <1>1, <1>4, <2>2
      <4>2. buf'[i] = t[i - Len(b)] /\ t[i - Len(b)] = file[pos + (i - Len(b))]
        BY <4>1, <1>5, <1>7
      <4> QED
        BY <4>1, <4>2
    <3>3. \A i \in 1..(Len(b) + n) : i \in 1..Len(b) \/ i \in (Len(b) + 1)..(Len(b) + n)
      BY <1>1, <1>4
    <3>4. \A i \in 1..(Len(b) + n) : buf'[i] = file[k + i - 1]
      BY <3>1, <3>2, <3>3
    <3>5. Len(buf') <= pos'
      BY <1>1, <1>2, <1>4, <1>7, <2>1
    <3> QED
      BY <3>4, <3>5, <1>3, <1>7, <2>3 DEF ReadLast
  <2>5. Len(b) <= Longest /\ Longest \in Nat
    BY <1>3, <1>9, PartialRecord, LongestBounds DEF b, IndInv, TypeOK
  <2>6. Len(buf') <= Longest + READ_CHUNK
    BY <1>1, <1>4, <1>7, <2>5
  <2>7. eof' => pos' = Len(file)
    <3>1. eof' => n = 0
      BY <1>2
    <3>2. n = 0 => pos' = Len(file)
      BY <1>1, <1>2, <1>4
    <3> QED
      BY <3>1, <3>2
  <2>8. (Split(file))' = Split(file) /\ (SplitFrom(file))' = SplitFrom(file) /\ Longest' = Longest
    BY <1>3 DEF Split, SplitFrom, Longest, Lengths, After, EndOf
  <2>9. records' \o SplitFrom(file)[k] = Split(file)
    BY <1>3, <2>1 DEF k
  <2> QED
    BY <1>3, <2>3, <2>4, <2>6, <2>7, <2>8, <2>9 DEF StreamOK
<1> QED
  BY <1>3, <1>8, <1>9 DEF IndInv, StreamOK

\* A read that throws leaves zeros behind what the buffer holds, and the
\* invariant promises no more than its type.
LEMMA ReadThrowsStep ==
  ASSUME IndInv, ReadThrows
  PROVE  IndInv'
<1> DEFINE zeros == [i \in 1..READ_CHUNK |-> "nul"]
<1>1. /\ file \in Contents /\ pos \in 0..Len(file) /\ eof \in BOOLEAN
      /\ records \in Seq(Seq(Octets)) /\ ended \in BOOLEAN /\ failed \in BOOLEAN
      /\ Skipped(buf) \in Seq(Octets) /\ READ_CHUNK \in Nat
  BY BufferType
<1>2. /\ buf' = Skipped(buf) \o zeros /\ failed' = TRUE
      /\ file' = file /\ pos' = pos /\ eof' = eof /\ records' = records /\ ended' = ended
  BY DEF ReadThrows
<1>3. zeros \in Seq(Octets)
  BY <1>1 DEF Octets
<1> HIDE DEF zeros
<1>4. buf' \in Seq(Octets)
  BY <1>1, <1>2, <1>3, ConcatProperties
<1> QED
  BY <1>1, <1>2, <1>4 DEF IndInv, TypeOK, StreamOK

\* Nothing has been read of the file.
LEMMA InitIndInv ==
  ASSUME Init
  PROVE  IndInv
<1>1. /\ file \in Contents /\ file \in Seq(Octets) /\ Len(file) \in Nat /\ pos = 0 /\ buf = <<>>
      /\ eof = FALSE /\ records = <<>> /\ ended = FALSE /\ failed = FALSE /\ READ_CHUNK \in Nat
  BY StreamAssumption DEF Init
<1>2. <<>> \in Seq(Octets) /\ <<>> \in Seq(Seq(Octets)) /\ Len(<<>>) = 0
  OBVIOUS
<1>3. TypeOK
  <2>1. /\ pos \in 0..Len(file)
        /\ eof \in BOOLEAN /\ ended \in BOOLEAN /\ failed \in BOOLEAN
    <3>1. pos \in 0..Len(file)
      BY <1>1
    <3>2. eof \in BOOLEAN /\ ended \in BOOLEAN /\ failed \in BOOLEAN
      BY <1>1, Zenon
    <3> QED
      BY <3>1, <3>2
  <2>2. buf \in Seq(Octets)
    BY <1>1, <1>2
  <2>3. records \in Seq(Seq(Octets))
    BY <1>1, <1>2
  <2> QED
    BY <1>1, <2>1, <2>2, <2>3 DEF TypeOK
<1>4. Place(buf) = 1
  BY <1>1, <1>2 DEF Place
<1>5. SplitFrom(file)[1] = Split(file) /\ Split(file) \in Seq(PiecesOf(file)) /\ Longest \in Nat
  BY <1>1, LongestBounds DEF Split
<1>6. <<>> \o Split(file) = Split(file)
  BY <1>5, ConcatEmptySeq
<1>7. ReadLast(buf) /\ Len(buf) <= Longest + READ_CHUNK
  BY <1>1, <1>2, <1>5 DEF ReadLast
<1> QED
  BY <1>1, <1>3, <1>4, <1>5, <1>6, <1>7 DEF IndInv, StreamOK

\* A step that changes nothing.
LEMMA StutterStep ==
  ASSUME IndInv, UNCHANGED vars
  PROVE  IndInv'
<1>1. /\ file' = file /\ pos' = pos /\ buf' = buf /\ eof' = eof /\ records' = records
      /\ ended' = ended /\ failed' = failed
  BY DEF vars
<1>2. TypeOK'
  BY <1>1 DEF IndInv, TypeOK
<1>3. /\ (Split(file))' = Split(file) /\ (SplitFrom(file))' = SplitFrom(file) /\ Longest' = Longest
      /\ Place(buf)' = Place(buf) /\ ReadLast(buf)' = ReadLast(buf)
  BY <1>1 DEF Split, SplitFrom, Longest, Lengths, After, EndOf, Place, ReadLast
<1> QED
  BY <1>1, <1>2, <1>3 DEF IndInv, StreamOK

-----------------------------------------------------------------------------
(* The theorems.                                                           *)

\* The invariant holds in every reachable state: until a read fails, what was
\* handed out and what splitting finds from the buffer's place on are the
\* records of the whole file.
THEOREM Inductive == Spec => []IndInv
<1>1. Init => IndInv
  BY InitIndInv
<1>2. IndInv /\ [Next]_vars => IndInv'
  <2> SUFFICES ASSUME IndInv, [Next]_vars PROVE IndInv'
    OBVIOUS
  <2>1. CASE TakeRecord
    BY <2>1, TakeRecordStep
  <2>2. CASE TakeTail
    BY <2>2, TakeTailStep
  <2>3. CASE ReturnFalse
    BY <2>3, ReturnFalseStep
  <2>4. CASE Read
    BY <2>4, ReadStep
  <2>5. CASE ReadThrows
    BY <2>5, ReadThrowsStep
  <2>6. CASE Ended
    BY <2>6, StutterStep DEF Ended
  <2>7. CASE UNCHANGED vars
    BY <2>7, StutterStep
  <2> QED
    BY <2>1, <2>2, <2>3, <2>4, <2>5, <2>6, <2>7 DEF Next
<1> QED
  BY <1>1, <1>2, PTL DEF Spec

\* Until a read fails, what was handed out is the beginning of what the
\* splitter finds in the whole file, and at the end all of it.
LEMMA HandedOut ==
  ASSUME IndInv, ~failed
  PROVE  /\ IsPrefixOf(records, Split(file))
         /\ ended => records = Split(file)
         /\ \A n \in DOMAIN records :
              n \in DOMAIN Split(file) /\ records[n] = Split(file)[n]
<1> DEFINE rest == SplitFrom(file)[Place(buf)]
           S == Seq(Octets)
<1>1. /\ records \in Seq(S)
      /\ records \o rest = Split(file)
      /\ ended => rest = <<>>
  BY DEF IndInv, TypeOK, StreamOK
<1>2. rest \in Seq(S)
  <2>1. rest \in Seq(PiecesOf(file))
    BY SkipKeeps
  <2>2. PiecesOf(file) \subseteq S
    BY DEF PiecesOf
  <2> QED
    BY <2>1, <2>2
<1> HIDE DEF rest, S
<1>3. /\ Len(records) \in Nat /\ Len(rest) \in Nat
      /\ records \o rest \in Seq(S)
      /\ Len(records \o rest) = Len(records) + Len(rest)
      /\ \A i \in 1..Len(records) : (records \o rest)[i] = records[i]
  <2> DEFINE c == records \o rest
  <2>1. /\ c \in Seq(S) /\ Len(c) = Len(records) + Len(rest)
        /\ \A i \in 1..Len(c) : c[i] = IF i <= Len(records) THEN records[i] ELSE rest[i - Len(records)]
    BY <1>1, <1>2, ConcatProperties, ZenonT(30)
  <2>2. Len(records) \in Nat /\ Len(rest) \in Nat
    BY <1>1, <1>2
  <2> HIDE DEF c
  <2>3. \A i \in 1..Len(records) : i \in 1..Len(c) /\ i <= Len(records)
    BY <2>1, <2>2
  <2>4. \A i \in 1..Len(records) : c[i] = records[i]
    BY <2>1, <2>3
  <2> QED
    BY <2>1, <2>2, <2>4 DEF c
<1>4. records = SubSeq(Split(file), 1, Len(records))
  <2> DEFINE w == Split(file)
             n == Len(records)
  <2>1. w \in Seq(S) /\ Len(w) \in Nat /\ n \in Nat /\ n <= Len(w) /\ \A i \in 1..n : w[i] = records[i]
    BY <1>1, <1>3
  <2> HIDE DEF w, n
  <2>2. 1 \in 1..(Len(w) + 1) /\ 1 <= n + 1 /\ n - 1 + 1 = n /\ \A i \in 1..n : 1 + i - 1 = i
    BY <2>1
  <2> DEFINE u == SubSeq(w, 1, n)
  <2>3. u \in Seq(S) /\ Len(u) = n - 1 + 1 /\ \A i \in 1..(n - 1 + 1) : u[i] = w[1 + i - 1]
    BY <2>1, <2>2, PartType
  <2> HIDE DEF u
  <2>4. u \in Seq(S) /\ Len(u) = n /\ \A i \in 1..n : u[i] = records[i]
    BY <2>1, <2>2, <2>3
  <2>5. u = records
    BY <1>1, <2>4 DEF n
  <2> QED
    BY <2>5 DEF u, w, n
<1>5. Len(records) <= Len(Split(file))
  BY <1>1, <1>3
<1>6. ended => records = Split(file)
  BY <1>1, ConcatEmptySeq
<1>7. \A n \in DOMAIN records : n \in DOMAIN Split(file) /\ records[n] = Split(file)[n]
  BY <1>1, <1>3, <1>5
<1> QED
  BY <1>4, <1>5, <1>6, <1>7 DEF IsPrefixOf

-----------------------------------------------------------------------------
(* After a read has failed.                                                *)

\* Separators at the head of the buffer do not matter.
LEMMA NulBehindBlanks ==
  ASSUME NEW s \in Seq(Octets), NulFirst(s)
  PROVE  NulFirst(Skipped(s))
<1> DEFINE b == Skipped(s)
           d == Len(s) - Len(b)
<1>1. PICK k \in 1..Len(s) : s[k] = "nul" /\ \A j \in 1..k : s[j] # RT
  BY DEF NulFirst
<1>2. /\ b \in Seq(Octets) /\ Len(b) \in 0..Len(s) /\ Len(s) \in Nat /\ Len(b) \in Nat
      /\ \A i \in 1..Len(b) : b[i] = s[d + i]
      /\ \A i \in 1..d : s[i] = "blank"
  BY SkippedType
<1> HIDE DEF b
<1>3. d \in Nat /\ Len(s) = d + Len(b)
  BY <1>2
<1>4. k \notin 1..d
  BY <1>1, <1>2
<1> HIDE DEF d
<1>5. k - d \in 1..Len(b) /\ d + (k - d) = k
  BY <1>2, <1>3, <1>4
<1>6. b[k - d] = "nul"
  BY <1>1, <1>2, <1>5
<1>7. ASSUME NEW j \in 1..(k - d) PROVE b[j] # RT
  <2>1. j \in 1..Len(b) /\ d + j \in 1..k
    BY <1>2, <1>3, <1>5
  <2> QED
    BY <1>1, <1>2, <2>1
<1> QED
  BY <1>5, <1>6, <1>7 DEF NulFirst, b

\* What is read behind it does not, either.
LEMMA NulBeforeRead ==
  ASSUME NEW s \in Seq(Octets), NEW t \in Seq(Octets), NulFirst(s)
  PROVE  NulFirst(s \o t)
<1>1. PICK k \in 1..Len(s) : s[k] = "nul" /\ \A j \in 1..k : s[j] # RT
  BY DEF NulFirst
<1> DEFINE c == s \o t
<1>2. Len(s) \in Nat /\ Len(t) \in Nat /\ Len(c) = Len(s) + Len(t) /\ \A i \in 1..Len(s) : c[i] = s[i]
  <2>1. /\ Len(s \o t) = Len(s) + Len(t)
        /\ \A i \in 1..Len(s \o t) : (s \o t)[i] = IF i <= Len(s) THEN s[i] ELSE t[i - Len(s)]
    BY ConcatProperties
  <2>2. Len(s) \in Nat /\ Len(t) \in Nat
    OBVIOUS
  <2> HIDE DEF c
  <2>3. Len(c) = Len(s) + Len(t) /\ \A i \in 1..Len(c) : c[i] = IF i <= Len(s) THEN s[i] ELSE t[i - Len(s)]
    BY <2>1 DEF c
  <2>4. \A i \in 1..Len(s) : i \in 1..Len(c) /\ i <= Len(s)
    BY <2>2, <2>3
  <2>5. \A i \in 1..Len(s) : c[i] = s[i]
    BY <2>3, <2>4
  <2> QED
    BY <2>2, <2>3, <2>5
<1> HIDE DEF c
<1>3. k \in 1..Len(c) /\ \A j \in 1..k : j \in 1..Len(s)
  BY <1>2
<1> QED
  BY <1>1, <1>2, <1>3 DEF NulFirst, c

\* The record that is taken is the spoiled one.
LEMMA NulTaken ==
  ASSUME NEW b \in Seq(Octets), NulFirst(b), NEW n \in 1..Len(b), b[n] = RT \/ n = Len(b)
  PROVE  Spoiled(SubSeq(b, 1, n))
<1>1. PICK k \in 1..Len(b) : b[k] = "nul" /\ \A j \in 1..k : b[j] # RT
  BY DEF NulFirst
<1>2. k \in 1..n
  BY <1>1
<1> DEFINE r == SubSeq(b, 1, n)
<1>3. r \in Seq(Octets) /\ Len(r) = n /\ \A i \in 1..n : r[i] = b[i]
  <2>1. 1 \in 1..(Len(b) + 1) /\ n \in Nat /\ n <= Len(b) /\ 1 <= n + 1 /\ n - 1 + 1 = n
        /\ \A i \in 1..n : 1 + i - 1 = i
    OBVIOUS
  <2>2. r \in Seq(Octets) /\ Len(r) = n - 1 + 1 /\ \A i \in 1..(n - 1 + 1) : r[i] = b[1 + i - 1]
    BY <2>1, PartType
  <2> HIDE DEF r
  <2> QED
    BY <2>1, <2>2
<1> HIDE DEF r
<1>4. k \in DOMAIN r /\ r[k] = "nul"
  BY <1>1, <1>2, <1>3
<1> QED
  BY <1>4 DEF Spoiled, r

\* What FailOK says of the records handed out.
RecordsRight ==
  \A n \in DOMAIN records : Intact(n) => n \in DOMAIN Split(file) /\ records[n] = Split(file)[n]

\* A spoiled record is handed out: nothing is said of it and those behind it.
LEMMA HandsOutSpoiled ==
  ASSUME NEW r, records \in Seq(Seq(Octets)), r \in Seq(Octets), Spoiled(r),
         records' = Append(records, r), file' = file, RecordsRight
  PROVE  RecordsRight' /\ ~Intact(Len(records))'
<1>6. PICK m \in Nat : m = Len(records)
  BY LenProperties
<1>1. /\ m \in Nat /\ Len(records') = m + 1 /\ records'[m + 1] = r
      /\ DOMAIN records = 1..m /\ DOMAIN records' = 1..(m + 1)
      /\ \A i \in 1..m : records'[i] = records[i]
  BY <1>6, AppendProperties
<1>2. Split(file)' = Split(file)
  BY DEF Split, SplitFrom, After, EndOf
<1>3. ~Intact(m + 1)'
  BY <1>1 DEF Intact
<1>4. ASSUME NEW n \in 1..m, Intact(n)'
      PROVE  n \in DOMAIN Split(file) /\ records'[n] = Split(file)[n]
  <2>1. Intact(n)
    BY <1>1, <1>4 DEF Intact
  <2> QED
    BY <1>1, <2>1 DEF RecordsRight
<1>5. ASSUME NEW n \in DOMAIN records', Intact(n)'
      PROVE  n \in DOMAIN Split(file)' /\ records'[n] = Split(file)'[n]
  <2>1. n # m + 1
    BY <1>3, <1>5
  <2>2. n \in 1..m
    BY <1>1, <2>1
  <2> QED
    BY <1>2, <1>4, <1>5, <2>2
<1> QED
  BY <1>1, <1>3, <1>5 DEF RecordsRight

\* A record is handed out after one that was spoiled.
LEMMA HandsOutBehind ==
  ASSUME NEW r, records \in Seq(Seq(Octets)), r \in Seq(Octets), ~Intact(Len(records)),
         records' = Append(records, r), file' = file, RecordsRight
  PROVE  RecordsRight' /\ ~Intact(Len(records))'
<1>6. PICK m \in Nat : m = Len(records)
  BY LenProperties
<1>1. /\ m \in Nat /\ Len(records') = m + 1 /\ records'[m + 1] = r
      /\ DOMAIN records = 1..m /\ DOMAIN records' = 1..(m + 1)
      /\ \A i \in 1..m : records'[i] = records[i]
  BY <1>6, AppendProperties
<1>0. PICK i \in 1..m : Spoiled(records[i])
  BY <1>6 DEF Intact
<1>2. Split(file)' = Split(file)
  BY DEF Split, SplitFrom, After, EndOf
<1>3. ~Intact(m + 1)'
  BY <1>0, <1>1 DEF Intact
<1>4. ASSUME NEW n \in 1..m, Intact(n)'
      PROVE  n \in DOMAIN Split(file) /\ records'[n] = Split(file)[n]
  <2>1. Intact(n)
    BY <1>1, <1>4 DEF Intact
  <2> QED
    BY <1>1, <2>1 DEF RecordsRight
<1>5. ASSUME NEW n \in DOMAIN records', Intact(n)'
      PROVE  n \in DOMAIN Split(file)' /\ records'[n] = Split(file)'[n]
  <2>1. n # m + 1
    BY <1>3, <1>5
  <2>2. n \in 1..m
    BY <1>1, <2>1
  <2> QED
    BY <1>2, <1>4, <1>5, <2>2
<1> QED
  BY <1>1, <1>3, <1>5 DEF RecordsRight

\* Nothing is handed out.
LEMMA HandsOutNothing ==
  ASSUME records' = records, file' = file, RecordsRight
  PROVE  RecordsRight' /\ (Intact(Len(records))' <=> Intact(Len(records)))
<1>1. Split(file)' = Split(file)
  BY DEF Split, SplitFrom, After, EndOf
<1>2. \A n : Intact(n)' <=> Intact(n)
  BY DEF Intact
<1> QED
  BY <1>1, <1>2 DEF RecordsRight

\* The same of the records after a step.
LEMMA HandedOutNext ==
  IndInv' /\ ~failed' =>
    \A n \in DOMAIN records' : n \in DOMAIN Split(file)' /\ records'[n] = Split(file)'[n]
<1>1. IndInv /\ ~failed =>
        \A n \in DOMAIN records : n \in DOMAIN Split(file) /\ records[n] = Split(file)[n]
  BY HandedOut
<1>2. (IndInv /\ ~failed =>
        \A n \in DOMAIN records : n \in DOMAIN Split(file) /\ records[n] = Split(file)[n])'
  BY <1>1, PTL
<1> QED
  BY <1>2

\* The zero octets of a failed read stay in front until their record is
\* handed out.
LEMMA FailStep ==
  ASSUME IndInv, IndInv', FailOK, [Next]_vars
  PROVE  FailOK'
<1> DEFINE b == Skipped(buf)
<1>1. /\ records \in Seq(Seq(Octets)) /\ buf \in Seq(Octets) /\ b \in Seq(Octets)
      /\ Len(b) \in Nat /\ READ_CHUNK \in Nat \ {0} /\ file \in Seq(Octets)
  BY BufferType
<1>2. RecordsRight /\ (failed /\ Intact(Len(records)) => NulFirst(b))
  BY <1>1, NulBehindBlanks DEF FailOK, RecordsRight
<1> HIDE DEF b
<1>3. SUFFICES RecordsRight' /\ (failed' /\ Intact(Len(records))' => NulFirst(buf)')
  BY DEF FailOK, RecordsRight, NulFirst
<1>4. CASE ~failed'
  <2>1. \A n \in DOMAIN records' : n \in DOMAIN Split(file)' /\ records'[n] = Split(file)'[n]
    BY <1>4, HandedOutNext
  <2> QED
    BY <1>4, <2>1 DEF RecordsRight
<1>5. CASE TakeRecord /\ failed
  <2> DEFINE n == First(Terminators(b))
             r == SubSeq(b, 1, n)
  <2>1. records' = Append(records, r) /\ file' = file /\ Terminators(b) # {}
    BY <1>5 DEF TakeRecord, b
  <2>2. n \in 1..Len(b) /\ b[n] = RT
    <3>1. Terminators(b) \in SUBSET Nat
      BY <1>1 DEF Terminators
    <3>2. n \in Terminators(b)
      BY <2>1, <3>1, FirstLeast
    <3> QED
      BY <3>2 DEF Terminators
  <2> HIDE DEF n
  <2>3. r \in Seq(Octets)
    <3>1. 1 \in 1..(Len(b) + 1) /\ n \in Nat /\ n <= Len(b) /\ 1 <= n + 1
      BY <1>1, <2>2
    <3> QED
      BY <1>1, <3>1, PartType
  <2>4. ~Intact(Len(records))' /\ RecordsRight'
    <3>1. CASE Intact(Len(records))
      <4>1. Spoiled(r)
        BY <1>1, <1>2, <1>5, <2>2, <3>1, NulTaken
      <4> HIDE DEF r
      <4> QED
        BY <1>1, <1>2, <2>1, <2>3, <4>1, HandsOutSpoiled
    <3>2. CASE ~Intact(Len(records))
      <4> HIDE DEF r
      <4> QED
        BY <1>1, <1>2, <2>1, <2>3, <3>2, HandsOutBehind
    <3> QED
      BY <3>1, <3>2
  <2> QED
    BY <2>4
<1>6. CASE TakeTail /\ failed
  <2>1. records' = Append(records, b) /\ file' = file /\ b # <<>>
    BY <1>6 DEF TakeTail, b
  <2>2. ~Intact(Len(records))' /\ RecordsRight'
    <3>1. CASE Intact(Len(records))
      <4>1. PICK k \in 1..Len(b) : b[k] = "nul"
        BY <1>2, <1>6, <3>1 DEF NulFirst
      <4>2. Spoiled(b)
        BY <1>1, <4>1 DEF Spoiled
      <4> QED
        BY <1>1, <1>2, <2>1, <4>2, HandsOutSpoiled
    <3>2. CASE ~Intact(Len(records))
      BY <1>1, <1>2, <2>1, <3>2, HandsOutBehind
    <3> QED
      BY <3>1, <3>2
  <2> QED
    BY <2>2
<1>7. CASE ReturnFalse /\ failed
  <2>1. records' = records /\ file' = file /\ b = <<>>
    BY <1>7 DEF ReturnFalse, b
  <2>2. ~NulFirst(b)
    BY <2>1 DEF NulFirst
  <2>3. RecordsRight' /\ (Intact(Len(records))' <=> Intact(Len(records)))
    BY <1>2, <2>1, HandsOutNothing
  <2> QED
    BY <1>2, <1>7, <2>2, <2>3
<1>8. CASE Read /\ failed
  <2>1. PICK n \in ReadSizes : buf' = b \o SubSeq(file, pos + 1, pos + n)
    BY <1>8 DEF Read, b
  <2>2. records' = records /\ file' = file
    BY <1>8 DEF Read
  <2>3. RecordsRight' /\ (Intact(Len(records))' <=> Intact(Len(records)))
    BY <1>2, <2>2, HandsOutNothing
  <2>4. SubSeq(file, pos + 1, pos + n) \in Seq(Octets)
    <3>1. pos \in 0..Len(file) /\ Len(file) \in Nat /\ n \in Nat /\ n <= Len(file) - pos
      BY BufferType DEF ReadSizes
    <3> DEFINE i == pos + 1
               j == pos + n
    <3>2. i \in 1..(Len(file) + 1) /\ j \in Nat /\ j <= Len(file) /\ i <= j + 1
      BY <3>1
    <3> HIDE DEF i, j
    <3>3. SubSeq(file, i, j) \in Seq(Octets)
      BY <1>1, <3>2, PartType
    <3> QED
      BY <3>3 DEF i, j
  <2> DEFINE t == SubSeq(file, pos + 1, pos + n)
  <2> HIDE DEF t
  <2>5. buf' = b \o t /\ t \in Seq(Octets)
    BY <2>1, <2>4 DEF t
  <2>6. NulFirst(b) => NulFirst(b \o t)
    BY <1>1, <2>5, NulBeforeRead
  <2>7. NulFirst(b \o t) => NulFirst(buf)'
    BY <2>5 DEF NulFirst
  <2> QED
    BY <1>2, <1>8, <2>3, <2>6, <2>7
<1>9. CASE ReadThrows
  <2> DEFINE zeros == [i \in 1..READ_CHUNK |-> "nul"]
  <2>1. records' = records /\ file' = file /\ buf' = b \o zeros /\ Terminators(b) = {}
    BY <1>9 DEF ReadThrows, Reads, b
  <2>2. RecordsRight'
    BY <1>2, <2>1, HandsOutNothing
  <2>3. /\ zeros \in Seq(Octets) /\ Len(zeros) = READ_CHUNK /\ zeros[1] = "nul"
    BY <1>1 DEF Octets
  <2> HIDE DEF zeros
  <2> DEFINE c == b \o zeros
  <2>4. /\ Len(c) = Len(b) + Len(zeros)
        /\ \A i \in 1..Len(c) : c[i] = IF i <= Len(b) THEN b[i] ELSE zeros[i - Len(b)]
    BY <1>1, <2>3, ConcatProperties
  <2> HIDE DEF c
  <2>5. Len(b) + 1 \in 1..Len(c) /\ ~(Len(b) + 1 <= Len(b)) /\ (Len(b) + 1) - Len(b) = 1
    BY <1>1, <2>3, <2>4
  <2>6. c[Len(b) + 1] = "nul"
    BY <2>3, <2>4, <2>5
  <2>7. ASSUME NEW j \in 1..(Len(b) + 1) PROVE c[j] # RT
    <3>1. CASE j = Len(b) + 1
      BY <2>6, <3>1 DEF RT
    <3>2. CASE j # Len(b) + 1
      <4>1. j \in 1..Len(b) /\ j \in 1..Len(c) /\ j <= Len(b)
        BY <1>1, <2>5, <3>2
      <4>2. c[j] = b[j]
        BY <2>4, <4>1
      <4> QED
        BY <2>1, <4>1, <4>2 DEF Terminators
    <3> QED
      BY <3>1, <3>2
  <2>8. NulFirst(c)
    BY <2>5, <2>6, <2>7 DEF NulFirst
  <2>9. NulFirst(c) => NulFirst(buf)'
    BY <2>1 DEF NulFirst, c
  <2> QED
    BY <2>2, <2>8, <2>9
<1>10. CASE UNCHANGED vars
  <2>1. records' = records /\ file' = file /\ buf' = buf /\ failed' = failed
    BY <1>10 DEF vars
  <2>2. RecordsRight' /\ (Intact(Len(records))' <=> Intact(Len(records)))
    BY <1>2, <2>1, HandsOutNothing
  <2>3. NulFirst(buf)' <=> NulFirst(buf)
    BY <2>1 DEF NulFirst
  <2> QED
    BY <2>1, <2>2, <2>3 DEF FailOK
<1>11. TakeRecord \/ TakeTail \/ ReturnFalse \/ Read => failed' = failed
  BY DEF TakeRecord, TakeTail, ReturnFalse, Read
<1> QED
  BY <1>4, <1>5, <1>6, <1>7, <1>8, <1>9, <1>10, <1>11 DEF Next, Ended

-----------------------------------------------------------------------------

\* Wherever the reads end, NextRaw hands out the records that RecordSplitter
\* finds in the whole file (marc_extension.cpp:73-74); after a read has failed
\* still those, up to the one that holds its zero octets.
THEOREM SplitsAlike == Spec => []SplitsLikeWholeFile
<1>1. Init => FailOK
  BY DEF Init, FailOK
<1>2. Spec => []FailOK
  BY <1>1, FailStep, Inductive, PTL DEF Spec
<1>3. IndInv /\ FailOK => SplitsLikeWholeFile
  BY HandedOut DEF SplitsLikeWholeFile, FailOK
<1> QED
  BY <1>2, <1>3, Inductive, PTL

\* NextRaw never holds more than one record and one read, however long the
\* file is.
THEOREM Bounded == Spec => []BufferBounded
<1>1. IndInv => BufferBounded
  BY DEF IndInv, StreamOK, BufferBounded
<1> QED
  BY <1>1, Inductive, PTL

=============================================================================
