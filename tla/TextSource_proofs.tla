------------------------- MODULE TextSource_proofs -------------------------
(***************************************************************************)
(* Proofs about TextSource, for files of any length, any READ_CHUNK and    *)
(* every way the reads may end.                                            *)
(***************************************************************************)
EXTENDS TextSource, GeneralFacts

-----------------------------------------------------------------------------
(* What is found in a text is found in every text that begins like it.     *)

\* First is the least element.
LEMMA FirstLeast ==
  ASSUME NEW S \in SUBSET Nat, S # {}
  PROVE  First(S) \in S /\ \A i \in S : First(S) <= i
<1>1. \E n \in S : \A m \in S : n <= m
  BY Least
<1> QED
  BY <1>1 DEF First

\* Text s begins with text p.
Begins(s, p) ==
  /\ Len(p) \in Nat /\ Len(s) \in Nat
  /\ Len(p) <= Len(s)
  /\ \A i \in 1..Len(p) : p[i] = s[i]

\* Leaders that lie in the beginning are leaders of both.
LEMMA LeadersOfBeginning ==
  ASSUME NEW s, NEW p, Begins(s, p)
  PROVE  LeaderLines(p) = {i \in LeaderLines(s) : i < Len(p)}
<1>1. Len(p) \in Nat /\ Len(s) \in Nat /\ Len(p) <= Len(s) /\ \A i \in 1..Len(p) : p[i] = s[i]
  BY DEF Begins
<1>2. ASSUME NEW i \in 1..Len(p), i < Len(p) PROVE i \in LineStarts(p) <=> i \in LineStarts(s)
  BY <1>1, <1>2 DEF LineStarts
<1>3. ASSUME NEW i \in 1..Len(p), i < Len(p) PROVE p[i] = s[i] /\ p[i + 1] = s[i + 1]
  <2>1. i + 1 \in 1..Len(p)
    BY <1>1, <1>3
  <2> QED
    BY <1>1, <2>1
<1>4. ASSUME NEW i PROVE i \in LeaderLines(p) <=> i \in LeaderLines(s) /\ i < Len(p)
  <2>1. i \in LeaderLines(p) => i \in 1..Len(p) /\ i < Len(p)
    BY DEF LeaderLines, LineStarts
  <2>2. i \in LeaderLines(s) /\ i < Len(p) => i \in 1..Len(p)
    BY <1>1 DEF LeaderLines, LineStarts
  <2>3. CASE i \in 1..Len(p) /\ i < Len(p)
    <3>1. i < Len(s)
      BY <1>1, <2>3
    <3> QED
      BY <2>3, <3>1, <1>2, <1>3 DEF LeaderLines
  <2> QED
    BY <2>1, <2>2, <2>3
<1> QED
  BY <1>4

\* Leaders stand in the text, with a mark behind them.
LEMMA LeadersType ==
  ASSUME NEW s, Len(s) \in Nat
  PROVE  LeaderLines(s) \in SUBSET Nat /\ \A i \in LeaderLines(s) : i \in 1..Len(s) /\ i < Len(s)
BY DEF LeaderLines, LineStarts

\* Whether a field comes before a position depends on what is before it.
LEMMA ContentOfBeginning ==
  ASSUME NEW s, NEW p, Begins(s, p), NEW limit \in 1..Len(p)
  PROVE  HasContentBefore(p, limit) = HasContentBefore(s, limit)
<1> DEFINE D(r) == {i \in LineStarts(r) : i < limit /\ r[i] \notin {"nl", "blank"}}
<1>1. /\ Len(p) \in Nat /\ Len(s) \in Nat /\ Len(p) <= Len(s) /\ \A i \in 1..Len(p) : p[i] = s[i]
      /\ limit \in Nat
  BY DEF Begins
<1>2. ASSUME NEW i \in 1..Len(p) PROVE i \in LineStarts(p) <=> i \in LineStarts(s)
  BY <1>1, <1>2 DEF LineStarts
<1>3. D(p) = D(s)
  <2>1. ASSUME NEW i PROVE i \in D(p) <=> i \in D(s)
    <3>1. i \in D(p) => i \in 1..Len(p)
      BY DEF LineStarts
    <3>2. i \in D(s) => i \in 1..Len(p)
      BY <1>1 DEF LineStarts
    <3>3. CASE i \in 1..Len(p)
      BY <3>3, <1>1, <1>2
    <3> QED
      BY <3>1, <3>2, <3>3
  <2> HIDE DEF D
  <2> QED
    BY <2>1
<1>4. CASE D(s) = {}
  BY <1>3, <1>4 DEF HasContentBefore
<1>5. CASE D(s) # {}
  <2>1. D(s) \in SUBSET Nat /\ \A i \in D(s) : i \in 1..Len(p)
    BY <1>1 DEF LineStarts
  <2> DEFINE first == First(D(s))
  <2>2. first \in D(s)
    <3> HIDE DEF D
    <3> QED
      BY <2>1, <1>5, FirstLeast
  <2>3. p[first] = s[first]
    <3>1. first \in 1..Len(p)
      BY <2>1, <2>2
    <3> HIDE DEF first
    <3> QED
      BY <1>1, <3>1
  <2>4. /\ HasContentBefore(p, limit) = (p[First(D(p))] = "=")
        /\ HasContentBefore(s, limit) = (s[First(D(s))] = "=")
    BY <1>3, <1>5 DEF HasContentBefore
  <2> QED
    BY <1>3, <2>3, <2>4
<1> QED
  BY <1>4, <1>5

\* A name begins at the first mark from which on there are only its marks.
LEMMA NameStartIs ==
  ASSUME NEW s, NEW i \in Nat \ {0}
  PROVE  /\ NameStart(s, i) \in 1..i
         /\ \A j \in NameStart(s, i)..(i - 1) : s[j] \in {"name", ":"}
         /\ \A k \in 1..i : (\A j \in k..(i - 1) : s[j] \in {"name", ":"}) => NameStart(s, i) <= k
<1> DEFINE S == {k \in 1..i : \A j \in k..(i - 1) : s[j] \in {"name", ":"}}
<1>1. i \in S /\ S \in SUBSET Nat
  OBVIOUS
<1>2. NameStart(s, i) = First(S)
  BY DEF NameStart
<1>3. First(S) \in S /\ \A k \in S : First(S) <= k
  <2> HIDE DEF S
  <2> QED
    BY <1>1, FirstLeast
<1> QED
  BY <1>2, <1>3

\* A name begins at or before the position it is looked for from.
LEMMA NameStartType ==
  ASSUME NEW s, NEW i \in Nat \ {0}
  PROVE  NameStart(s, i) \in 1..i
BY NameStartIs

\* Names in the beginning are names of both.
LEMMA NameStartOfFirst ==
  ASSUME NEW s, NEW p, Begins(s, p), NEW i \in 1..Len(p)
  PROVE  NameStart(p, i) = NameStart(s, i)
<1>1. ASSUME NEW k \in 1..i, NEW j \in k..(i - 1) PROVE p[j] = s[j]
  BY DEF Begins
<1>2. {k \in 1..i : \A j \in k..(i - 1) : p[j] \in {"name", ":"}}
        = {k \in 1..i : \A j \in k..(i - 1) : s[j] \in {"name", ":"}}
  BY <1>1
<1> QED
  BY <1>2 DEF NameStart

\* An end tag in the beginning is an end tag of both.
LEMMA ClosesInBeginning ==
  ASSUME NEW s, NEW p, Begins(s, p), NEW i \in 1..Len(p)
  PROVE  ClosesRecord(p, i) <=> ClosesRecord(s, i)
<1>1. /\ Len(p) \in Nat /\ Len(s) \in Nat /\ Len(p) <= Len(s) /\ \A j \in 1..Len(p) : p[j] = s[j]
      /\ i \in Nat \ {0}
  BY DEF Begins
<1>2. NameStart(p, i) = NameStart(s, i)
  BY NameStartOfFirst
<1> DEFINE n == NameStart(s, i)
<1>3. n \in 1..i
  BY <1>1, NameStartType
<1> HIDE DEF n
<1>4. CASE n > 2
  <2>1. n - 2 \in 1..Len(p) /\ n - 1 \in 1..Len(p) /\ i \in 1..Len(p)
    BY <1>1, <1>3, <1>4
  <2>2. p[n - 2] = s[n - 2] /\ p[n - 1] = s[n - 1] /\ p[i] = s[i]
    BY <1>1, <2>1
  <2>3. p[i - 1] = s[i - 1]
    <3>1. i - 1 \in 1..Len(p)
      BY <1>1, <1>3, <1>4
    <3> QED
      BY <1>1, <3>1
  <2>4. NameStart(p, i) = n /\ NameStart(s, i) = n
    BY <1>2 DEF n
  <2> QED
    BY <2>2, <2>3, <2>4 DEF ClosesRecord
<1>5. CASE ~(n > 2)
  BY <1>2, <1>5 DEF ClosesRecord, n
<1> QED
  BY <1>4, <1>5

-----------------------------------------------------------------------------
(* Where the cutter cuts.                                                  *)

\* Boundaries lie in the text.
LEMMA BoundariesType ==
  ASSUME NEW s, Len(s) \in Nat
  PROVE  Boundaries(s) \in SUBSET Nat /\ \A i \in Boundaries(s) : i \in 0..Len(s)
<1>1. CASE file.format = "xml"
  <2>1. Boundaries(s) = {i \in 1..Len(s) : ClosesRecord(s, i)}
    BY <1>1 DEF Boundaries
  <2> QED
    BY <2>1
<1>2. CASE file.format # "xml"
  <2>1. Boundaries(s) = BreakerBoundaries(s)
    BY <1>2 DEF Boundaries
  <2>2. ASSUME NEW i \in BreakerBoundaries(s) PROVE i \in 0..Len(s)
    <3>1. \E k \in LeaderLines(s) : i = k - 1
      BY DEF BreakerBoundaries
    <3> QED
      BY <3>1, LeadersType
  <2> QED
    BY <2>1, <2>2
<1> QED
  BY <1>1, <1>2

\* Of the leaders of a breaker text only the first may be no boundary.
LEMMA LeaderIsBoundary ==
  ASSUME NEW s, file.format # "xml", NEW i \in LeaderLines(s)
  PROVE  \/ i - 1 \in Boundaries(s)
         \/ i = First(LeaderLines(s)) /\ ~HasContentBefore(s, i)
BY DEF Boundaries, BreakerBoundaries

\* A boundary that lies in the beginning of a text, with the leader behind it
\* if there is one, is a boundary of the beginning.
LEMMA BoundaryOfBeginning ==
  ASSUME NEW s, NEW p, Begins(s, p), NEW i \in Boundaries(s),
         i + (IF file.format = "xml" THEN 0 ELSE 2) <= Len(p)
  PROVE  i \in Boundaries(p)
<1>1. Len(p) \in Nat /\ Len(s) \in Nat /\ Len(p) <= Len(s)
  BY DEF Begins
<1>2. CASE file.format = "xml"
  <2>1. i \in 1..Len(s) /\ ClosesRecord(s, i)
    BY <1>2 DEF Boundaries
  <2>2. i \in 1..Len(p)
    BY <1>1, <1>2, <2>1
  <2>3. ClosesRecord(p, i)
    BY <2>1, <2>2, ClosesInBeginning
  <2> QED
    BY <1>2, <2>2, <2>3 DEF Boundaries
<1>3. CASE file.format # "xml"
  <2>1. PICK k \in LeaderLines(s) :
          i = k - 1 /\ ~(k = First(LeaderLines(s)) /\ ~HasContentBefore(s, k))
    BY <1>3 DEF Boundaries, BreakerBoundaries
  <2>2. k \in 1..Len(s) /\ k < Len(p)
    BY <1>1, <1>3, <2>1, LeadersType
  <2>3. k \in LeaderLines(p)
    BY <2>2, LeadersOfBeginning
  <2>4. First(LeaderLines(p)) = First(LeaderLines(s))
    <3>1. LeaderLines(s) \in SUBSET Nat /\ LeaderLines(p) \in SUBSET Nat
      BY <1>1, LeadersType
    <3> DEFINE f == First(LeaderLines(s))
               g == First(LeaderLines(p))
    <3>2. f \in LeaderLines(s) /\ \A j \in LeaderLines(s) : f <= j
      BY <2>1, <3>1, FirstLeast
    <3>3. g \in LeaderLines(p) /\ \A j \in LeaderLines(p) : g <= j
      BY <2>3, <3>1, FirstLeast
    <3> HIDE DEF f, g
    <3>4. f <= k /\ f \in Nat /\ k \in Nat
      BY <2>1, <3>1, <3>2
    <3>5. f \in LeaderLines(p)
      BY <1>1, <2>2, <3>2, <3>4, LeadersOfBeginning
    <3>6. g \in LeaderLines(s) /\ g \in Nat
      BY <3>1, <3>3, LeadersOfBeginning
    <3>7. f <= g /\ g <= f
      BY <3>2, <3>3, <3>5, <3>6
    <3> QED
      BY <3>4, <3>6, <3>7 DEF f, g
  <2>5. HasContentBefore(p, k) = HasContentBefore(s, k)
    <3>1. k \in 1..Len(p)
      BY <1>1, <2>2
    <3> QED
      BY <3>1, ContentOfBeginning
  <2>6. k - 1 \in BreakerBoundaries(p)
    BY <2>1, <2>3, <2>4, <2>5 DEF BreakerBoundaries
  <2> QED
    BY <1>3, <2>1, <2>6 DEF Boundaries
<1> QED
  BY <1>2, <1>3

\* A text that begins another one and ends where the other is cut first - in
\* a breaker text, before the leader there is whole - has no more than one
\* mark of a record.
LEMMA OneMark ==
  ASSUME NEW s, NEW p, Begins(s, p),
         \A i \in Boundaries(s) : Len(p) < i + (IF file.format = "xml" THEN 1 ELSE 2),
         NEW i \in RecordMarks(p), NEW j \in RecordMarks(p)
  PROVE  i = j
<1>1. Len(p) \in Nat /\ Len(s) \in Nat /\ Len(p) <= Len(s)
  BY DEF Begins
<1>2. CASE file.format = "xml"
  <2>1. ASSUME NEW k \in RecordMarks(p) PROVE k = Len(p)
    <3>1. k \in 1..Len(p) /\ ClosesRecord(p, k)
      BY <1>2 DEF RecordMarks
    <3>2. ClosesRecord(s, k) /\ k \in 1..Len(s)
      BY <1>1, <3>1, ClosesInBeginning
    <3>3. k \in Boundaries(s)
      BY <1>2, <3>2 DEF Boundaries
    <3>4. Len(p) < k + 1
      BY <1>2, <3>3
    <3> QED
      BY <1>1, <3>1, <3>4
  <2> QED
    BY <2>1
<1>3. CASE file.format # "xml"
  <2>1. ASSUME NEW k \in RecordMarks(p) PROVE k = First(LeaderLines(s))
    <3>1. k \in LeaderLines(s) /\ k < Len(p)
      BY <1>3, LeadersOfBeginning DEF RecordMarks
    <3>2. k \in Nat
      BY <1>1, <3>1, LeadersType
    <3>3. k - 1 \notin Boundaries(s)
      <4>1. ~(Len(p) < (k - 1) + 2)
        BY <1>1, <3>1, <3>2
      <4> QED
        BY <1>3, <4>1
    <3> QED
      BY <1>3, <3>1, <3>3, LeaderIsBoundary
  <2> QED
    BY <2>1
<1> QED
  BY <1>2, <1>3

-----------------------------------------------------------------------------
(* SourceInv is inductive: one lemma per action.                           *)

\* A part of a text from its beginning, the part behind it, and what the two
\* have to do with the text.
LEMMA CutAt ==
  ASSUME NEW s \in Seq(Marks), NEW n \in 0..Len(s)
  PROVE  /\ SubSeq(s, 1, n) \in Seq(Marks) /\ Len(SubSeq(s, 1, n)) = n
         /\ SubSeq(s, n + 1, Len(s)) \in Seq(Marks) /\ Len(SubSeq(s, n + 1, Len(s))) = Len(s) - n
         /\ SubSeq(s, 1, n) \o SubSeq(s, n + 1, Len(s)) = s
         /\ Begins(s, SubSeq(s, 1, n))
<1>1. Len(s) \in Nat /\ n \in Nat /\ n <= Len(s)
  OBVIOUS
<1>2. /\ SubSeq(s, 1, n) \in Seq(Marks) /\ Len(SubSeq(s, 1, n)) = n
      /\ \A i \in 1..n : SubSeq(s, 1, n)[i] = s[i]
      /\ SubSeq(s, n + 1, Len(s)) \in Seq(Marks) /\ Len(SubSeq(s, n + 1, Len(s))) = Len(s) - n
      /\ SubSeq(s, 1, n) \o SubSeq(s, n + 1, Len(s)) = s
  BY Parted
<1> QED
  BY <1>1, <1>2 DEF Begins

\* A boundary of a text that a read grew came with the read.
LEMMA ReadBoundaries ==
  ASSUME NEW old \in Seq(Marks), NEW chunk \in Seq(Marks), Len(chunk) <= READ_CHUNK,
         Boundaries(old) = {}, NEW i \in Boundaries(old \o chunk)
  PROVE  i + (IF file.format = "xml" THEN 0 ELSE 2) > Len(old \o chunk) - READ_CHUNK
<1> DEFINE new == old \o chunk
           late == IF file.format = "xml" THEN 0 ELSE 2
<1>1. /\ new \in Seq(Marks) /\ Len(old) \in Nat /\ Len(chunk) \in Nat
      /\ Len(new) = Len(old) + Len(chunk)
      /\ \A k \in 1..Len(old) : new[k] = old[k]
  BY Joined
<1> HIDE DEF new
<1>2. Begins(new, old)
  BY <1>1 DEF Begins
<1>3. i \in Boundaries(new) /\ i \in Nat /\ late \in {0, 2}
  <2>1. i \in Boundaries(new)
    BY DEF new
  <2>2. Len(new) \in Nat
    BY <1>1
  <2> QED
    BY <2>1, <2>2, BoundariesType
<1>4. ~(i + late <= Len(old))
  BY <1>2, <1>3, BoundaryOfBeginning
<1>5. READ_CHUNK \in Nat
  BY SourceAssumption
<1> HIDE DEF late
<1>6. i + late > Len(new) - READ_CHUNK
  BY <1>1, <1>3, <1>4, <1>5
<1> QED
  BY <1>6 DEF new, late

\* A text that is hardly longer than a read leaves no room for an early
\* boundary.
LEMMA ShortBuffer ==
  ASSUME NEW s, Len(s) \in Nat, NEW i \in Boundaries(s),
         Len(s) < READ_CHUNK + (IF file.format = "xml" THEN 0 ELSE 2)
  PROVE  i + (IF file.format = "xml" THEN 0 ELSE 2) > Len(s) - READ_CHUNK
<1>1. i \in Nat /\ READ_CHUNK \in Nat
  BY BoundariesType, SourceAssumption
<1> QED
  BY <1>1

\* Neither what is a boundary nor what is a mark changes.
LEMMA SameFile ==
  ASSUME file' = file
  PROVE  /\ Boundaries(buf)' = Boundaries(buf')
         /\ \A k : RecordMarks(slices[k])' = RecordMarks(slices'[k])
BY DEF Boundaries, RecordMarks

\* What makes the invariant hold behind a step.
LEMMA StepInv ==
  ASSUME file' = file, file \in Files, TypeOK', NothingLost',
         \A i \in Boundaries(buf') :
           i + (IF file.format = "xml" THEN 0 ELSE 2) > Len(buf') - READ_CHUNK,
         \A k \in 1..Len(slices') : \A i, j \in RecordMarks(slices'[k]) : i = j
  PROVE  SourceInv'
<1>1. BoundariesAreNew'
  BY SameFile DEF BoundariesAreNew
<1>2. (\A k \in 1..Len(slices) : \A i, j \in RecordMarks(slices[k]) : i = j)'
  BY SameFile
<1> QED
  BY <1>1, <1>2 DEF SourceInv

\* The texts that TypeOK is about.
LEMMA Texts ==
  ASSUME TypeOK
  PROVE  /\ file \in Files /\ file.text \in Seq(Marks) /\ Len(file.text) \in Nat
         /\ pos \in 0..Len(file.text)
         /\ SubSeq(file.text, pos + 1, Len(file.text)) \in Seq(Marks)
         /\ buf \in Seq(Marks) /\ Len(buf) \in Nat
         /\ slices \in Seq(Seq(Marks)) /\ Len(slices) \in Nat
<1>1. /\ file \in Files /\ pos \in 0..Len(file.text) /\ buf \in Seq(Marks)
      /\ slices \in Seq(Seq(Marks))
  BY DEF TypeOK
<1>2. file.text \in Seq(Marks)
  BY <1>1 DEF Files
<1>3. SubSeq(file.text, pos + 1, Len(file.text)) \in Seq(Marks)
  BY <1>1, <1>2, CutAt
<1> QED
  BY <1>1, <1>2, <1>3

\* One more slice of one record is handed out.
LEMMA OneMore ==
  ASSUME NEW slice \in Seq(Marks), TypeOK,
         \A k \in 1..Len(slices) : \A i, j \in RecordMarks(slices[k]) : i = j,
         \A i, j \in RecordMarks(slice) : i = j,
         slices' = Append(slices, slice)
  PROVE  /\ slices' \in Seq(Seq(Marks))
         /\ FlattenSeq(slices) \in Seq(Marks)
         /\ FlattenSeq(slices') = FlattenSeq(slices) \o slice
         /\ \A k \in 1..Len(slices') : \A i, j \in RecordMarks(slices'[k]) : i = j
<1>1. slices \in Seq(Seq(Marks))
  BY DEF TypeOK
<1>2. /\ slices' \in Seq(Seq(Marks)) /\ Len(slices') = Len(slices) + 1 /\ Len(slices) \in Nat
      /\ \A k \in 1..Len(slices) : slices'[k] = slices[k]
      /\ slices'[Len(slices) + 1] = slice
  BY <1>1, AppendProperties
<1>3. FlattenSeq(slices) \in Seq(Marks) /\ FlattenSeq(slices') = FlattenSeq(slices) \o slice
  BY <1>1, FlattenAppend
<1>4. ASSUME NEW k \in 1..Len(slices') PROVE \A i, j \in RecordMarks(slices'[k]) : i = j
  <2>1. k \in 1..Len(slices) \/ k = Len(slices) + 1
    BY <1>2
  <2>2. CASE k \in 1..Len(slices)
    BY <1>2, <2>2
  <2>3. CASE k = Len(slices) + 1
    BY <1>2, <2>3
  <2> QED
    BY <2>1, <2>2, <2>3
<1> QED
  BY <1>2, <1>3, <1>4

\* Cutting the text up to the first boundary off the buffer keeps the invariant:
\* what is left has no boundary that was there before.
LEMMA TakeSliceStep == SourceInv /\ TakeSlice => SourceInv'
<1> SUFFICES ASSUME SourceInv, TakeSlice PROVE SourceInv'
  OBVIOUS
<1> DEFINE end == First(Boundaries(buf))
           slice == SubSeq(buf, 1, end)
           rest == SubSeq(buf, end + 1, Len(buf))
           after == SubSeq(file.text, pos + 1, Len(file.text))
           late == IF file.format = "xml" THEN 0 ELSE 2
<1>1. /\ slices' = Append(slices, slice) /\ buf' = rest
      /\ file' = file /\ pos' = pos /\ drained' = drained /\ ended' = ended
      /\ Boundaries(buf) # {}
  BY DEF TakeSlice
<1>2. TypeOK /\ NothingLost /\ BoundariesAreNew
      /\ \A k \in 1..Len(slices) : \A i, j \in RecordMarks(slices[k]) : i = j
  BY DEF SourceInv
<1>3. /\ file \in Files /\ after \in Seq(Marks) /\ buf \in Seq(Marks) /\ Len(buf) \in Nat
      /\ slices \in Seq(Seq(Marks))
  BY <1>2, Texts
<1>4. end \in Boundaries(buf) /\ (\A i \in Boundaries(buf) : end <= i) /\ end \in 0..Len(buf)
  <2>1. Boundaries(buf) \in SUBSET Nat /\ \A i \in Boundaries(buf) : i \in 0..Len(buf)
    BY <1>3, BoundariesType
  <2> QED
    BY <1>1, <2>1, FirstLeast
<1> HIDE DEF end
<1>5. /\ slice \in Seq(Marks) /\ Len(slice) = end
      /\ rest \in Seq(Marks) /\ Len(rest) = Len(buf) - end
      /\ slice \o rest = buf
      /\ Begins(buf, slice)
  BY <1>3, <1>4, CutAt
<1> HIDE DEF slice, rest, after
<1>6. \A i, j \in RecordMarks(slice) : i = j
  <2>1. \A i \in Boundaries(buf) : i \in Nat
    BY <1>3, BoundariesType
  <2>2. \A i \in Boundaries(buf) : Len(slice) < i + (IF file.format = "xml" THEN 1 ELSE 2)
    BY <1>4, <1>5, <2>1
  <2> QED
    BY <1>5, <2>2, OneMark
<1>7. /\ slices' \in Seq(Seq(Marks))
      /\ FlattenSeq(slices) \in Seq(Marks)
      /\ FlattenSeq(slices') = FlattenSeq(slices) \o slice
      /\ \A k \in 1..Len(slices') : \A i, j \in RecordMarks(slices'[k]) : i = j
  BY <1>1, <1>2, <1>5, <1>6, OneMore
<1>8. TypeOK'
  BY <1>1, <1>2, <1>5, <1>7 DEF TypeOK
<1>9. NothingLost'
  <2> DEFINE handed == FlattenSeq(slices)
  <2>1. (handed \o slice) \o rest = handed \o buf
    <3>1. handed \in Seq(Marks) /\ slice \in Seq(Marks) /\ rest \in Seq(Marks)
      BY <1>5, <1>7
    <3> HIDE DEF handed
    <3>2. (handed \o slice) \o rest = handed \o (slice \o rest)
      BY ONLY <3>1, ConcatAssociative
    <3> QED
      BY <1>5, <3>2
  <2>2. (FlattenSeq(slices') \o buf') \o after = file.text
    BY <1>1, <1>2, <1>7, <2>1 DEF NothingLost, after
  <2> QED
    BY <1>1, <2>2 DEF NothingLost, after
<1>10. ASSUME NEW i \in Boundaries(buf') PROVE i + late > Len(buf') - READ_CHUNK
  <2>1. end + late > Len(buf) - READ_CHUNK
    BY <1>2, <1>4 DEF BoundariesAreNew
  <2>2. READ_CHUNK \in Nat /\ late \in Nat /\ end \in Nat /\ Len(buf') = Len(buf) - end
    BY <1>1, <1>4, <1>5, SourceAssumption
  <2> HIDE DEF late
  <2>3. Len(buf') < READ_CHUNK + late
    BY <1>3, <2>1, <2>2
  <2>4. Len(buf') \in Nat
    BY <1>1, <1>5
  <2> QED
    BY <2>3, <2>4, ShortBuffer DEF late
<1> QED
  BY <1>1, <1>3, <1>7, <1>8, <1>9, <1>10, StepInv

\* So does a read, which is only made when the buffer has no boundary, so that
\* none lies further back than a mark or two before what was read.
LEMMA FillStep == SourceInv /\ Fill => SourceInv'
<1> SUFFICES ASSUME SourceInv, Fill PROVE SourceInv'
  OBVIOUS
<1>1. PICK n \in 1..READ_CHUNK :
        /\ n <= Len(file.text) - pos
        /\ buf' = buf \o SubSeq(file.text, pos + 1, pos + n)
        /\ pos' = pos + n
  BY DEF Fill
<1>2. Boundaries(buf) = {} /\ file' = file /\ drained' = drained /\ slices' = slices
      /\ ended' = ended
  BY DEF Fill
<1>3. TypeOK /\ NothingLost
      /\ \A k \in 1..Len(slices) : \A i, j \in RecordMarks(slices[k]) : i = j
  BY DEF SourceInv
<1> DEFINE text == file.text
           chunk == SubSeq(text, pos + 1, pos + n)
           after == SubSeq(text, pos + n + 1, Len(text))
<1>4. /\ file \in Files /\ text \in Seq(Marks) /\ Len(text) \in Nat /\ pos \in 0..Len(text)
      /\ buf \in Seq(Marks) /\ slices \in Seq(Seq(Marks)) /\ READ_CHUNK \in Nat
  BY <1>3, Texts, SourceAssumption
<1>5. pos + 1 \in 1..(Len(text) + 1) /\ pos + n \in 0..Len(text) /\ n \in Nat /\ n <= READ_CHUNK
      /\ pos + n \in (pos + 1) - 1..Len(text) /\ Len(text) \in pos + n..Len(text)
  BY <1>1, <1>4
<1> HIDE DEF text
<1>6. /\ chunk \in Seq(Marks) /\ Len(chunk) = n
      /\ after \in Seq(Marks)
      /\ chunk \o after = SubSeq(text, pos + 1, Len(text))
  <2>1. \A i \in (pos + 1)..(pos + n) : text[i] \in Marks
    BY <1>4, <1>5
  <2>2. chunk \in Seq(Marks) /\ Len(chunk) = IF pos + 1 <= pos + n THEN pos + n - (pos + 1) + 1 ELSE 0
    BY <1>4, <1>5, <2>1, SubSeqProperties
  <2>3. pos + n - (pos + 1) + 1 = n /\ (pos + 1 <= pos + n)
    BY <1>1, <1>4, <1>5
  <2>4. after \in Seq(Marks)
    BY <1>4, <1>5, CutAt
  <2>5. SubSeq(text, pos + 1, pos + n) \o SubSeq(text, pos + n + 1, Len(text))
          = SubSeq(text, pos + 1, Len(text))
    BY <1>4, <1>5, ConcatAdjacentSubSeq
  <2> QED
    BY <2>2, <2>3, <2>4, <2>5
<1>7. buf' = buf \o chunk
  BY <1>1 DEF text
<1>8. buf' \in Seq(Marks)
  BY <1>4, <1>6, <1>7
<1>9. TypeOK'
  BY <1>1, <1>2, <1>3, <1>5, <1>8 DEF TypeOK, text
<1> HIDE DEF chunk, after
<1>10. NothingLost'
  <2> DEFINE handed == FlattenSeq(slices)
  <2>1. handed \in Seq(Marks)
    BY <1>4, FlattenIn
  <2>2. (handed \o buf) \o (chunk \o after) = text
    BY <1>3, <1>6 DEF NothingLost, text
  <2> HIDE DEF handed
  <2>3. (handed \o (buf \o chunk)) \o after = text
    <3> DEFINE both == handed \o buf
    <3>1. handed \in Seq(Marks) /\ buf \in Seq(Marks) /\ chunk \in Seq(Marks)
          /\ after \in Seq(Marks) /\ both \in Seq(Marks)
      BY <1>4, <1>6, <2>1
    <3>2. both \o chunk = handed \o (buf \o chunk)
      BY ONLY <3>1, ConcatAssociative, SMTT(30) DEF both
    <3> HIDE DEF both
    <3>3. both \in Seq(Marks) /\ chunk \in Seq(Marks) /\ after \in Seq(Marks)
      BY <3>1
    <3>4. (both \o chunk) \o after = both \o (chunk \o after)
      BY ONLY <3>3, ConcatAssociative
    <3> QED
      BY <2>2, <3>2, <3>4 DEF both
  <2> QED
    BY <1>1, <1>2, <1>7, <2>3 DEF NothingLost, handed, after, text
<1>11. ASSUME NEW i \in Boundaries(buf')
       PROVE  i + (IF file.format = "xml" THEN 0 ELSE 2) > Len(buf') - READ_CHUNK
  BY <1>2, <1>4, <1>5, <1>6, <1>7, ReadBoundaries
<1> QED
  BY <1>2, <1>3, <1>4, <1>9, <1>10, <1>11, StepInv

\* So does handing out the rest of the buffer at the end of the file.
LEMMA DrainStep == SourceInv /\ Drain => SourceInv'
<1> SUFFICES ASSUME SourceInv, Drain PROVE SourceInv'
  OBVIOUS
<1>1. /\ file' = file /\ pos' = pos /\ drained' = TRUE /\ Boundaries(buf) = {}
  BY DEF Drain, AtEnd
<1>2. TypeOK /\ NothingLost /\ BoundariesAreNew
      /\ \A k \in 1..Len(slices) : \A i, j \in RecordMarks(slices[k]) : i = j
  BY DEF SourceInv
<1> DEFINE after == SubSeq(file.text, pos + 1, Len(file.text))
<1>3. file \in Files /\ after \in Seq(Marks) /\ buf \in Seq(Marks) /\ Len(buf) \in Nat
  BY <1>2, Texts
<1>4. CASE buf = <<>>
  <2>1. ended' = TRUE /\ buf' = buf /\ slices' = slices
    BY <1>4 DEF Drain
  <2>2. TypeOK' /\ NothingLost'
    BY <1>1, <1>2, <2>1 DEF TypeOK, NothingLost
  <2>3. Boundaries(buf') = {}
    BY <1>1, <2>1
  <2> QED
    BY <1>1, <1>2, <1>3, <2>1, <2>2, <2>3, StepInv
<1>5. CASE buf # <<>>
  <2>1. slices' = Append(slices, buf) /\ buf' = <<>> /\ ended' = ended
    BY <1>5 DEF Drain
  <2>2. \A i, j \in RecordMarks(buf) : i = j
    <3>1. Begins(buf, buf)
      BY <1>3 DEF Begins
    <3> QED
      BY <1>1, <3>1, OneMark
  <2>3. /\ slices' \in Seq(Seq(Marks))
        /\ FlattenSeq(slices) \in Seq(Marks)
        /\ FlattenSeq(slices') = FlattenSeq(slices) \o buf
        /\ \A k \in 1..Len(slices') : \A i, j \in RecordMarks(slices'[k]) : i = j
    BY <1>2, <1>3, <2>1, <2>2, OneMore
  <2>4. TypeOK'
    BY <1>1, <1>2, <2>1, <2>3 DEF TypeOK
  <2>5. NothingLost'
    <3>1. (FlattenSeq(slices) \o buf) \o <<>> = FlattenSeq(slices) \o buf
      BY <1>3, <2>3
    <3>2. (FlattenSeq(slices) \o buf) \o after = file.text
      BY <1>2 DEF NothingLost
    <3> HIDE DEF after
    <3>3. (FlattenSeq(slices') \o buf') \o after = file.text
      BY <2>1, <2>3, <3>1, <3>2
    <3> QED
      BY <1>1, <3>3 DEF NothingLost, after
  <2>6. ASSUME NEW i \in Boundaries(buf')
        PROVE  i + (IF file.format = "xml" THEN 0 ELSE 2) > Len(buf') - READ_CHUNK
    <3>1. Len(buf') = 0 /\ READ_CHUNK \in Nat \ {0}
      BY <2>1, SourceAssumption
    <3>2. Len(buf') < READ_CHUNK + (IF file.format = "xml" THEN 0 ELSE 2)
      BY <3>1
    <3> QED
      BY <3>1, <3>2, ShortBuffer
  <2> QED
    BY <1>1, <1>3, <2>3, <2>4, <2>5, <2>6, StepInv
<1> QED
  BY <1>4, <1>5

\* The flags alone do not bear on it.
LEMMA QuietStep ==
  SourceInv /\ UNCHANGED <<file, pos, buf, slices>> /\ drained' \in BOOLEAN /\ ended' \in BOOLEAN
    => SourceInv'
BY DEF SourceInv, TypeOK, NothingLost, BoundariesAreNew, Boundaries, RecordMarks

\* It holds at the start of a file, with nothing read.
LEMMA InitInv == Init => SourceInv
<1> SUFFICES ASSUME Init PROVE SourceInv
  OBVIOUS
<1>1. file \in Files /\ pos = 0 /\ buf = <<>> /\ drained = FALSE /\ slices = <<>> /\ ended = FALSE
  BY SourceAssumption DEF Init
<1>2. file.text \in Seq(Marks)
  BY <1>1 DEF Files
<1>3. TypeOK
  <2>1. pos \in 0..Len(file.text)
    BY <1>1, <1>2
  <2>2. buf \in Seq(Marks) /\ slices \in Seq(Seq(Marks))
    BY <1>1
  <2> QED
    BY <1>1, <2>1, <2>2 DEF TypeOK
<1>4. NothingLost
  <2>1. FlattenSeq(<<>>) = <<>>
    BY DEF FlattenSeq
  <2>2. SubSeq(file.text, 0 + 1, Len(file.text)) = file.text
    BY <1>2
  <2>3. (<<>> \o <<>>) \o file.text = file.text
    BY <1>2
  <2> QED
    BY <1>1, <2>1, <2>2, <2>3 DEF NothingLost
<1>5. BoundariesAreNew
  <2>1. Len(buf) = 0 /\ READ_CHUNK \in Nat \ {0}
    BY <1>1, SourceAssumption
  <2>2. Len(buf) < READ_CHUNK + (IF file.format = "xml" THEN 0 ELSE 2)
    BY <2>1
  <2> QED
    BY <2>1, <2>2, ShortBuffer DEF BoundariesAreNew
<1> QED
  BY <1>1, <1>3, <1>4, <1>5 DEF SourceInv

-----------------------------------------------------------------------------
(* What each parser finds, mark by mark: a line of a breaker text.         *)

\* A function that goes by base and step wherever it is in S is in S.
LEMMA RunsIn ==
  ASSUME NEW N \in Nat, NEW S, NEW base \in S, NEW step \in Steps(1..N, S), NEW h,
         h[0] = base, \A n \in 1..N : h[n - 1] \in S => h[n] = step[<<n, h[n - 1]>>]
  PROVE  \A n \in 0..N : h[n] \in S
<1> DEFINE T == {n \in Nat : n <= N => h[n] \in S}
<1>1. 0 \in T
  OBVIOUS
<1>2. ASSUME NEW n \in T PROVE n + 1 \in T
  <2> SUFFICES ASSUME n + 1 <= N PROVE h[n + 1] \in S
    OBVIOUS
  <2>1. n + 1 \in 1..N /\ (n + 1) - 1 = n /\ h[n] \in S
    OBVIOUS
  <2>2. h[n + 1] = step[<<n + 1, h[n]>>]
    BY <2>1
  <2>3. <<n + 1, h[n]>> \in (1..N) \X S
    BY <2>1
  <2> QED
    BY <2>2, <2>3 DEF Steps
<1>3. T \in SUBSET Nat
  OBVIOUS
<1> HIDE DEF T
<1>4. T = Nat
  BY <1>1, <1>2, <1>3, Induct
<1> QED
  BY <1>4 DEF T

Lists == Seq(Seq(Seq(Marks)))

\* f is what ParseBreaker has found behind each mark of s.
BreakerRun(f, s) ==
  /\ f \in [0..Len(s) -> Lists]
  /\ f[0] = <<>>
  /\ \A n \in 1..Len(s) :
       f[n] = IF n \in LineStarts(s) /\ s[n] = "=" THEN AddLine(f[n - 1], Line(s, n)) ELSE f[n - 1]

\* Where a line ends, and what it is.
LineEnd(s, i) ==
  LET ends == {k \in i..Len(s) : s[k] = "nl"}
  IN IF ends = {} THEN Len(s) ELSE First(ends) - 1

\* See LineEnd.
LEMMA LineIs ==
  ASSUME NEW s \in Seq(Marks), NEW i \in 1..Len(s)
  PROVE  /\ Line(s, i) = SubSeq(s, i, LineEnd(s, i)) /\ Line(s, i) \in Seq(Marks)
         /\ LineEnd(s, i) \in (i - 1)..Len(s)
<1> DEFINE ends == {k \in i..Len(s) : s[k] = "nl"}
<1>1. Len(s) \in Nat /\ i \in Nat /\ i >= 1 /\ i <= Len(s)
  OBVIOUS
<1>2. LineEnd(s, i) = IF ends = {} THEN Len(s) ELSE First(ends) - 1
  BY DEF LineEnd
<1>3. ends # {} => First(ends) \in i..Len(s)
  <2>1. ends \in SUBSET Nat
    BY <1>1
  <2>2. ends \subseteq i..Len(s)
    OBVIOUS
  <2> HIDE DEF ends
  <2> QED
    BY <2>1, <2>2, FirstLeast
<1>4. Line(s, i) = SubSeq(s, i, LineEnd(s, i))
  BY DEF Line, LineEnd
<1> HIDE DEF ends
<1>5. LineEnd(s, i) \in (i - 1)..Len(s)
  BY <1>1, <1>2, <1>3
<1>6. PICK e \in Nat : e = LineEnd(s, i) /\ e \in (i - 1)..Len(s)
  BY <1>1, <1>5
<1>7. SubSeq(s, i, e) \in Seq(Marks)
  <2>1. \A k \in i..e : s[k] \in Marks
    BY <1>1, <1>6
  <2> QED
    BY <1>1, <1>6, <2>1, SubSeqProperties
<1> QED
  BY <1>4, <1>5, <1>6, <1>7

\* A line is added to the last record or begins one.
LEMMA AddLineIn ==
  ASSUME NEW recs \in Lists, NEW line \in Seq(Marks)
  PROVE  AddLine(recs, line) \in Lists /\ AddLine(recs, line) # <<>>
<1>1. CASE SubSeq(line, 2, 2) = <<"LDR">> \/ recs = <<>>
  <2>1. AddLine(recs, line) = Append(recs, <<line>>)
    BY <1>1 DEF AddLine
  <2>2. <<line>> \in Seq(Seq(Marks))
    OBVIOUS
  <2> QED
    BY <2>1, <2>2 DEF Lists
<1>2. CASE ~(SubSeq(line, 2, 2) = <<"LDR">> \/ recs = <<>>)
  <2> DEFINE N == Len(recs)
  <2>1. N \in Nat /\ N \in 1..N /\ recs[N] \in Seq(Seq(Marks))
    BY <1>2 DEF Lists
  <2>2. AddLine(recs, line) = [recs EXCEPT ![N] = Append(recs[N], line)]
    BY <1>2 DEF AddLine
  <2>3. Append(recs[N], line) \in Seq(Seq(Marks))
    BY <2>1
  <2> DEFINE rec == Append(recs[N], line)
             more == [recs EXCEPT ![N] = rec]
  <2>4. more \in Lists /\ Len(more) = Len(recs)
    <3> HIDE DEF rec
    <3> QED
      BY <2>1, <2>3, ExceptSeq DEF Lists, rec
  <2> HIDE DEF more
  <2>5. more # <<>>
    BY <2>1, <2>4
  <2> QED
    BY <2>2, <2>4, <2>5 DEF more
<1> QED
  BY <1>1, <1>2

\* There is such a run, and the parser finds what it does.
LEMMA BreakerRuns ==
  ASSUME NEW s \in Seq(Marks)
  PROVE  \E f : BreakerRun(f, s) /\ ParseBreaker(s).recs = f[Len(s)]
<1> DEFINE N == Len(s)
           Is(n) == n \in LineStarts(s) /\ s[n] = "="
           step == [p \in (1..N) \X Lists |-> IF Is(p[1]) THEN AddLine(p[2], Line(s, p[1])) ELSE p[2]]
           Rule(it) == [n \in 0..N |->
                          IF n = 0 THEN <<>>
                          ELSE IF Is(n) THEN AddLine(it[n - 1], Line(s, n)) ELSE it[n - 1]]
           h == CHOOSE it : it = Rule(it)
<1>1. ParseBreaker(s).recs = h[N]
  BY DEF ParseBreaker
<1>2. N \in Nat /\ <<>> \in Lists /\ N = Len(s)
  BY DEF Lists
<1>3. \A n \in 1..N : Line(s, n) \in Seq(Marks)
  BY LineIs
<1> HIDE DEF N, Is
<1>4. ASSUME NEW n \in 1..N, NEW x \in Lists
      PROVE  /\ step[<<n, x>>] = IF Is(n) THEN AddLine(x, Line(s, n)) ELSE x
             /\ step[<<n, x>>] \in Lists
  BY <1>3, AddLineIn
<1>5. step \in Steps(1..N, Lists)
  <2>1. \A p \in (1..N) \X Lists :
          (IF Is(p[1]) THEN AddLine(p[2], Line(s, p[1])) ELSE p[2]) \in Lists
    BY <1>3, AddLineIn
  <2> QED
    BY <2>1 DEF Steps
<1> HIDE DEF step
<1>6. PICK f : RecursiveUpTo(N, f, Lists, <<>>, step)
  BY <1>2, <1>5, BoundedRecursion
<1>7. f \in [0..N -> Lists] /\ f[0] = <<>> /\ \A n \in 1..N : f[n] = step[<<n, f[n - 1]>>]
  BY <1>6 DEF RecursiveUpTo
<1>8. \A n \in 1..N : n - 1 \in 0..N /\ n # 0
  BY <1>2
<1>9. f = Rule(f)
  <2>1. ASSUME NEW n \in 0..N
        PROVE  f[n] = IF n = 0 THEN <<>>
                      ELSE IF Is(n) THEN AddLine(f[n - 1], Line(s, n)) ELSE f[n - 1]
    <3>1. CASE n = 0
      BY <1>7, <3>1
    <3>2. CASE n # 0
      <4>1. n \in 1..N /\ f[n - 1] \in Lists
        BY <1>2, <1>7, <1>8, <3>2
      <4> QED
        BY <1>4, <1>7, <3>2, <4>1
    <3> QED
      BY <3>1, <3>2
  <2> QED
    BY <1>7, <2>1
<1>10. h = Rule(h)
  BY <1>9
<1> HIDE DEF h
<1>11. h[0] = <<>> /\ \A n \in 1..N : h[n] = IF Is(n) THEN AddLine(h[n - 1], Line(s, n)) ELSE h[n - 1]
  BY <1>2, <1>8, <1>10
<1>12. \A n \in 0..N : h[n] \in Lists
  <2>1. \A n \in 1..N : h[n - 1] \in Lists => h[n] = step[<<n, h[n - 1]>>]
    BY <1>4, <1>11
  <2> QED
    BY <1>2, <1>5, <1>11, <2>1, RunsIn
<1>13. h \in [0..N -> Lists]
  BY <1>10, <1>12
<1>14. BreakerRun(h, s)
  BY <1>2, <1>11, <1>13 DEF BreakerRun, Is
<1> QED
  BY <1>1, <1>2, <1>14

-----------------------------------------------------------------------------
(* A breaker text cut in front of a leader.                                *)

\* Parts of two texts that are the same, the first one d marks further on.
LEMMA SamePart ==
  ASSUME NEW a \in Seq(Marks), NEW b \in Seq(Marks), NEW d \in Nat,
         NEW i \in 1..Len(b), NEW e \in (i - 1)..Len(b), d + e <= Len(a),
         \A k \in 1..Len(b) : k <= e => a[d + k] = b[k]
  PROVE  SubSeq(a, d + i, d + e) = SubSeq(b, i, e)
<1>1. Len(a) \in Nat /\ Len(b) \in Nat /\ i \in Nat /\ e \in Nat /\ i >= 1 /\ e >= i - 1 /\ e <= Len(b)
  OBVIOUS
<1> DEFINE u == SubSeq(a, d + i, d + e)
           v == SubSeq(b, i, e)
           n == e + 1 - i
<1>2. n \in Nat
  BY <1>1
<1>3. u \in Seq(Marks) /\ Len(u) = n /\ \A k \in 1..n : u[k] = a[(d + i) + k - 1]
  <2>1. \A k \in (d + i)..(d + e) : a[k] \in Marks
    BY <1>1
  <2> QED
    BY <1>1, <2>1, SubSeqProperties
<1>4. v \in Seq(Marks) /\ Len(v) = n /\ \A k \in 1..n : v[k] = b[i + k - 1]
  <2>1. \A k \in i..e : b[k] \in Marks
    BY <1>1
  <2> QED
    BY <1>1, <2>1, SubSeqProperties
<1> HIDE DEF u, v
<1>5. ASSUME NEW k \in 1..n PROVE u[k] = v[k]
  <2>1. i + k - 1 \in 1..Len(b) /\ i + k - 1 <= e /\ (d + i) + k - 1 = d + (i + k - 1)
    BY <1>1, <1>2
  <2>2. a[d + (i + k - 1)] = b[i + k - 1]
    BY <2>1
  <2> QED
    BY <1>3, <1>4, <2>1, <2>2
<1> HIDE DEF n
<1>6. u = v
  BY <1>2, <1>3, <1>4, <1>5, SeqEqual
<1> QED
  BY <1>6 DEF u, v

\* A breaker text cut in front of a leader, and behind a line.
LeaderCut(p, q) ==
  /\ p \in Seq(Marks) /\ q \in Seq(Marks)
  /\ Len(p) > 0 /\ p[Len(p)] = "nl"
  /\ 1 \in LeaderLines(q)

\* Behind d marks of text s, mark m of text q and the line that begins there.
SameLine(s, d, q, m) ==
  /\ d + m \in LineStarts(s) <=> m \in LineStarts(q)
  /\ s[d + m] = q[m]
  /\ Line(s, d + m) = Line(q, m)

\* The lines of the first part are lines of the whole.
LEMMA LinesOfFirst ==
  ASSUME NEW p, NEW q, LeaderCut(p, q), NEW n \in 1..Len(p)
  PROVE  SameLine(p \o q, 0, p, n)
<1> DEFINE s == p \o q
           c == Len(p)
           es == {k \in n..Len(s) : s[k] = "nl"}
           ep == {k \in n..c : p[k] = "nl"}
<1>1. /\ s \in Seq(Marks) /\ c \in Nat /\ Len(q) \in Nat /\ Len(s) = c + Len(q)
      /\ \A i \in 1..c : s[i] = p[i]
      /\ p \in Seq(Marks) /\ c > 0 /\ p[c] = "nl"
  BY Joined DEF LeaderCut
<1>2. c = Len(p) /\ n \in 1..c
  OBVIOUS
<1> HIDE DEF s, c
<1>3. n \in LineStarts(s) <=> n \in LineStarts(p)
  <2>1. n \in 1..Len(s) /\ (n # 1 => n - 1 \in 1..c)
    BY <1>1, <1>2
  <2> QED
    BY <1>1, <1>2, <2>1 DEF LineStarts
<1>4. c \in ep /\ ep \in SUBSET Nat /\ ep \subseteq es /\ \A k \in es : k <= c => k \in ep
  BY <1>1, <1>2
<1>5. es \in SUBSET Nat /\ es # {}
  BY <1>1, <1>2, <1>4
<1>6. (\A k \in ep : k \in n..c) /\ \A k \in es : k \in Nat /\ k >= n
  BY <1>1, <1>2
<1>7. First(es) = First(ep)
  <2> DEFINE x == First(es)
             y == First(ep)
  <2> HIDE DEF es, ep
  <2>1. x \in es /\ \A k \in es : x <= k
    BY <1>5, FirstLeast
  <2>2. y \in ep /\ \A k \in ep : y <= k
    BY <1>4, FirstLeast
  <2> HIDE DEF x, y
  <2>3. x <= y /\ y \in n..c /\ x \in Nat
    BY <1>4, <1>6, <2>1, <2>2
  <2>4. x \in ep
    BY <1>1, <1>4, <2>1, <2>3
  <2>5. x = y
    BY <1>1, <1>2, <2>2, <2>3, <2>4
  <2> QED
    BY <2>5 DEF x, y
<1>8. LineEnd(s, n) = LineEnd(p, n)
  <2>1. LineEnd(s, n) = First(es) - 1
    BY <1>5 DEF LineEnd
  <2>2. LineEnd(p, n) = First(ep) - 1
    BY <1>4, <1>2 DEF LineEnd
  <2> QED
    BY <1>7, <2>1, <2>2
<1> HIDE DEF es, ep
<1>9. PICK e \in Nat : e = LineEnd(p, n) /\ e \in (n - 1)..c
  BY <1>1, <1>2, LineIs
<1>10. Line(s, n) = SubSeq(s, n, e) /\ Line(p, n) = SubSeq(p, n, e)
  <2>1. n \in 1..Len(s)
    BY <1>1, <1>2
  <2> QED
    BY <1>1, <1>2, <1>8, <1>9, <2>1, LineIs
<1>11. SubSeq(s, n, e) = SubSeq(p, n, e)
  <2>1. \A k \in 1..Len(p) : k <= e => s[0 + k] = p[k]
    BY <1>1, <1>2
  <2>2. n \in 1..Len(p) /\ e \in (n - 1)..Len(p) /\ 0 + e <= Len(s) /\ 0 \in Nat
    BY <1>1, <1>2, <1>9
  <2>3. SubSeq(s, 0 + n, 0 + e) = SubSeq(p, n, e)
    BY ONLY <1>1, <2>1, <2>2, SamePart
  <2> QED
    BY <1>2, <1>9, <2>3
<1>12. n = 0 + n
  BY <1>2
<1>13. SameLine(s, 0, p, n)
  BY <1>1, <1>2, <1>3, <1>10, <1>11, <1>12 DEF SameLine
<1> QED
  BY <1>13 DEF s

\* So are those of the second, further on.
LEMMA LinesOfSecond ==
  ASSUME NEW p, NEW q, LeaderCut(p, q), NEW m \in 1..Len(q)
  PROVE  SameLine(p \o q, Len(p), q, m)
<1> DEFINE s == p \o q
           c == Len(p)
           d == Len(q)
           es == {k \in (c + m)..Len(s) : s[k] = "nl"}
           eq == {k \in m..d : q[k] = "nl"}
<1>1. /\ s \in Seq(Marks) /\ c \in Nat /\ d \in Nat /\ Len(s) = c + d
      /\ \A i \in 1..c : s[i] = p[i]
      /\ \A i \in 1..d : s[c + i] = q[i]
      /\ q \in Seq(Marks) /\ c > 0 /\ p[c] = "nl"
  BY Joined DEF LeaderCut
<1>2. c = Len(p) /\ d = Len(q) /\ m \in 1..d
  OBVIOUS
<1> HIDE DEF s, c, d
<1>3. c + m \in LineStarts(s) <=> m \in LineStarts(q)
  <2>1. c + m \in 1..Len(s) /\ c + m # 1
    BY <1>1, <1>2
  <2>2. CASE m = 1
    <3>1. (c + m) - 1 = c /\ c \in 1..c
      BY <1>1, <2>2
    <3>2. s[(c + m) - 1] = "nl"
      BY <1>1, <3>1
    <3> QED
      BY <1>2, <2>1, <2>2, <3>2 DEF LineStarts
  <2>3. CASE m # 1
    <3>1. (c + m) - 1 = c + (m - 1) /\ m - 1 \in 1..d
      BY <1>1, <1>2, <2>3
    <3>2. s[(c + m) - 1] = q[m - 1]
      BY <1>1, <3>1
    <3> QED
      BY <1>2, <2>1, <2>3, <3>2 DEF LineStarts
  <2> QED
    BY <2>2, <2>3
<1>4. ASSUME NEW k \in Nat PROVE c + k \in es <=> k \in eq
  <2>1. c + k \in (c + m)..Len(s) <=> k \in m..d
    BY <1>1, <1>2
  <2>2. k \in m..d => s[c + k] = q[k]
    BY <1>1, <1>2
  <2> QED
    BY <2>1, <2>2
<1>5. es \in SUBSET Nat /\ eq \in SUBSET Nat /\ \A k \in es : k - c \in Nat /\ c + (k - c) = k
  BY <1>1, <1>2
<1>7. ASSUME eq # {} PROVE es # {} /\ First(es) = c + First(eq)
  <2> DEFINE x == First(es)
             y == First(eq)
  <2> HIDE DEF es, eq
  <2>1. y \in eq /\ y \in Nat /\ \A k \in eq : y <= k
    BY <1>5, <1>7, FirstLeast
  <2>2. c + y \in es
    BY <1>4, <2>1
  <2>3. x \in es /\ x \in Nat /\ \A k \in es : x <= k
    BY <1>5, <2>2, FirstLeast
  <2> HIDE DEF x, y
  <2>4. x - c \in Nat /\ x - c \in eq
    BY <1>4, <1>5, <2>3
  <2>5. x <= c + y /\ y <= x - c
    BY <2>1, <2>2, <2>3, <2>4
  <2>6. x = c + y
    BY <1>1, <2>1, <2>3, <2>5
  <2> QED
    BY <2>2, <2>6 DEF x, y
<1>8. LineEnd(s, c + m) = c + LineEnd(q, m)
  <2>1. CASE eq = {}
    <3>1. es = {}
      BY <1>4, <1>5, <2>1
    <3>2. LineEnd(s, c + m) = Len(s) /\ LineEnd(q, m) = d
      BY <1>2, <2>1, <3>1 DEF LineEnd
    <3> QED
      BY <1>1, <3>2
  <2>2. CASE eq # {}
    <3>1. First(eq) \in Nat
      <4> HIDE DEF eq
      <4> QED
        BY <1>5, <2>2, FirstLeast
    <3>2. es # {} /\ First(es) = c + First(eq)
      BY <1>7, <2>2
    <3>3. LineEnd(s, c + m) = First(es) - 1 /\ LineEnd(q, m) = First(eq) - 1
      BY <1>2, <2>2, <3>2 DEF LineEnd
    <3> HIDE DEF es, eq
    <3> QED
      BY <1>1, <3>1, <3>2, <3>3
  <2> QED
    BY <2>1, <2>2
<1> HIDE DEF es, eq
<1>9. PICK e \in Nat : e = LineEnd(q, m) /\ e \in (m - 1)..d
  BY <1>1, <1>2, LineIs
<1>10. Line(s, c + m) = SubSeq(s, c + m, c + e) /\ Line(q, m) = SubSeq(q, m, e)
  <2>1. c + m \in 1..Len(s)
    BY <1>1, <1>2
  <2> QED
    BY <1>1, <1>2, <1>8, <1>9, <2>1, LineIs
<1>11. SubSeq(s, c + m, c + e) = SubSeq(q, m, e)
  <2>1. \A k \in 1..Len(q) : k <= e => s[c + k] = q[k]
    BY <1>1, <1>2
  <2>2. m \in 1..Len(q) /\ e \in (m - 1)..Len(q) /\ c + e <= Len(s) /\ c \in Nat
    BY <1>1, <1>2, <1>9
  <2> QED
    BY ONLY <1>1, <2>1, <2>2, SamePart
<1>12. SameLine(s, c, q, m)
  BY <1>1, <1>2, <1>3, <1>10, <1>11 DEF SameLine
<1> QED
  BY <1>12 DEF s, c

\* Two sequences in a row.
Joins(c, a, b) == c = a \o b

\* An element that is added behind two sequences.
LEMMA AppendBehind ==
  ASSUME NEW S, NEW a \in Seq(S), NEW b \in Seq(S), NEW x \in S
  PROVE  Joins(Append(a \o b, x), a, Append(b, x))
<1> DEFINE one == <<x>>
           ab == a \o b
<1>1. one \in Seq(S) /\ ab \in Seq(S)
  OBVIOUS
<1>2. Append(ab, x) = ab \o one /\ Append(b, x) = b \o one
  BY <1>1
<1> HIDE DEF one
<1>3. (a \o b) \o one = a \o (b \o one)
  BY ONLY <1>1, a \in Seq(S), b \in Seq(S), ConcatAssociative
<1> QED
  BY <1>2, <1>3 DEF ab, Joins

\* The last element of two sequences is that of the second.
LEMMA ChangeBehind ==
  ASSUME NEW S, NEW a \in Seq(S), NEW b \in Seq(S), b # <<>>, NEW x \in S
  PROVE  /\ a \o b # <<>> /\ (a \o b)[Len(a \o b)] = b[Len(b)]
         /\ Joins([a \o b EXCEPT ![Len(a \o b)] = x], a, [b EXCEPT ![Len(b)] = x])
<1> DEFINE ab == a \o b
           N == Len(b)
           M == Len(ab)
           more == [b EXCEPT ![N] = x]
           all == [ab EXCEPT ![M] = x]
           am == a \o more
<1>1. /\ ab \in Seq(S) /\ Len(a) \in Nat /\ Len(b) \in Nat /\ Len(ab) = Len(a) + Len(b)
      /\ \A i \in 1..Len(a) : ab[i] = a[i]
      /\ \A i \in 1..Len(b) : ab[Len(a) + i] = b[i]
  BY Joined
<1>2. N \in 1..N /\ M \in 1..M /\ M = Len(a) + N /\ N = Len(b) /\ M = Len(ab)
  BY <1>1
<1> HIDE DEF ab, N, M
<1>3. ab[M] = b[N] /\ ab # <<>>
  BY <1>1, <1>2
<1>4. more \in Seq(S) /\ Len(more) = N /\ \A j \in 1..N : more[j] = IF j = N THEN x ELSE b[j]
  BY <1>2, ExceptSeq
<1>5. all \in Seq(S) /\ Len(all) = M /\ \A j \in 1..M : all[j] = IF j = M THEN x ELSE ab[j]
  BY <1>1, <1>2, ExceptSeq
<1> HIDE DEF more, all
<1>6. /\ am \in Seq(S) /\ Len(am) = Len(a) + Len(more)
      /\ \A i \in 1..Len(a) : am[i] = a[i]
      /\ \A i \in 1..Len(more) : am[Len(a) + i] = more[i]
  BY <1>4, Joined
<1> HIDE DEF am
<1>7. ASSUME NEW j \in 1..M PROVE all[j] = am[j]
  <2>1. CASE j <= Len(a)
    <3>1. j \in 1..Len(a) /\ j # M
      BY <1>1, <1>2, <2>1
    <3> QED
      BY <1>1, <1>5, <1>6, <3>1
  <2>2. CASE ~(j <= Len(a))
    <3>1. PICK i \in 1..N : j = Len(a) + i /\ (j = M <=> i = N)
      <4>1. j - Len(a) \in 1..N /\ j = Len(a) + (j - Len(a)) /\ (j = M <=> j - Len(a) = N)
        BY <1>1, <1>2, <2>2
      <4> QED
        BY <4>1
    <3>2. ab[j] = b[i]
      BY <1>1, <1>2, <3>1
    <3>3. am[j] = more[i]
      BY <1>4, <1>6, <3>1
    <3> QED
      BY <1>4, <1>5, <3>1, <3>2, <3>3
  <2> QED
    BY <2>1, <2>2
<1>8. all = am
  BY <1>2, <1>4, <1>5, <1>6, <1>7, SeqEqual
<1> QED
  BY <1>3, <1>8 DEF am, all, more, ab, N, M, Joins

\* A line that is added behind others.
LEMMA AddBehind ==
  ASSUME NEW a \in Lists, NEW b \in Lists, NEW line \in Seq(Marks),
         b # <<>> \/ SubSeq(line, 2, 2) = <<"LDR">>
  PROVE  Joins(AddLine(a \o b, line), a, AddLine(b, line))
<1> DEFINE R == Seq(Seq(Marks))
           ab == a \o b
<1>1. a \in Seq(R) /\ b \in Seq(R) /\ <<line>> \in R
  BY DEF Lists
<1>2. CASE SubSeq(line, 2, 2) = <<"LDR">>
  <2> HIDE DEF R
  <2>1. AddLine(ab, line) = Append(ab, <<line>>) /\ AddLine(b, line) = Append(b, <<line>>)
    BY <1>2 DEF AddLine
  <2>2. Joins(Append(ab, <<line>>), a, Append(b, <<line>>))
    BY <1>1, AppendBehind
  <2> HIDE DEF ab
  <2>3. Joins(AddLine(ab, line), a, AddLine(b, line))
    BY <2>1, <2>2
  <2> QED
    BY <2>3 DEF ab
<1>3. CASE SubSeq(line, 2, 2) # <<"LDR">>
  <2> DEFINE x == Append(b[Len(b)], line)
  <2>1. b # <<>>
    BY <1>3
  <2>2. x \in R
    <3>1. Len(b) \in 1..Len(b)
      BY <1>1, <2>1
    <3>2. b[Len(b)] \in R
      BY <1>1, <3>1
    <3> QED
      BY <3>2
  <2>3. AddLine(b, line) = [b EXCEPT ![Len(b)] = x]
    BY <1>3, <2>1 DEF AddLine
  <2>4. /\ ab # <<>> /\ ab[Len(ab)] = b[Len(b)]
        /\ Joins([ab EXCEPT ![Len(ab)] = x], a, [b EXCEPT ![Len(b)] = x])
    <3> HIDE DEF x, R
    <3> QED
      BY <1>1, <2>1, <2>2, ChangeBehind
  <2> HIDE DEF ab
  <2>5. AddLine(ab, line) = [ab EXCEPT ![Len(ab)] = x]
    BY <1>3, <2>4 DEF AddLine
  <2>6. Joins(AddLine(ab, line), a, AddLine(b, line))
    BY <2>3, <2>4, <2>5
  <2> QED
    BY <2>6 DEF ab
<1> QED
  BY <1>2, <1>3

\* AddBehind, of a list that is given.
LEMMA AddJoined ==
  ASSUME NEW c, NEW a \in Lists, NEW b \in Lists, Joins(c, a, b), NEW line \in Seq(Marks),
         b # <<>> \/ SubSeq(line, 2, 2) = <<"LDR">>
  PROVE  Joins(AddLine(c, line), a, AddLine(b, line))
<1>1. c = a \o b
  BY DEF Joins
<1>2. Joins(AddLine(a \o b, line), a, AddLine(b, line))
  BY AddBehind
<1> QED
  BY <1>1, <1>2

\* A leader's line has the leader's tag.
LEMMA LeadersLine ==
  ASSUME NEW q \in Seq(Marks), 1 \in LeaderLines(q)
  PROVE  Len(q) > 1 /\ 1 \in LineStarts(q) /\ q[1] = "=" /\ SubSeq(Line(q, 1), 2, 2) = <<"LDR">>
<1>1. Len(q) \in Nat /\ Len(q) > 1 /\ 1 \in LineStarts(q) /\ q[1] = "=" /\ q[1 + 1] = "LDR"
  BY DEF LeaderLines, LineStarts
<1>2. 1 \in 1..Len(q) /\ q[2] = "LDR" /\ 2 \in 1..Len(q)
  BY <1>1
<1> DEFINE ends == {k \in 1..Len(q) : q[k] = "nl"}
<1>3. LineEnd(q, 1) >= 2
  <2>1. CASE ends = {}
    <3>1. LineEnd(q, 1) = Len(q)
      BY <2>1 DEF LineEnd
    <3> QED
      BY <1>1, <3>1
  <2>2. CASE ends # {}
    <3>1. LineEnd(q, 1) = First(ends) - 1
      BY <2>2 DEF LineEnd
    <3>2. \A k \in ends : k \in Nat /\ k # 1 /\ k # 2 /\ k >= 1
      BY <1>1, <1>2
    <3>3. ends \in SUBSET Nat
      BY <1>1
    <3> HIDE DEF ends
    <3>4. First(ends) \in ends
      BY <2>2, <3>3, FirstLeast
    <3>5. First(ends) >= 3 /\ First(ends) \in Nat
      BY <3>2, <3>4
    <3> QED
      BY <3>1, <3>5
  <2> QED
    BY <2>1, <2>2
<1>4. PICK e \in Nat : e = LineEnd(q, 1) /\ e >= 2 /\ e <= Len(q) /\ Line(q, 1) = SubSeq(q, 1, e)
  BY <1>1, <1>2, <1>3, LineIs
<1>5. /\ Line(q, 1) \in Seq(Marks) /\ Len(Line(q, 1)) = e /\ Line(q, 1)[2] = "LDR"
  <2>1. e \in 0..Len(q)
    BY <1>1, <1>4
  <2>2. /\ SubSeq(q, 1, e) \in Seq(Marks) /\ Len(SubSeq(q, 1, e)) = e
        /\ \A i \in 1..e : SubSeq(q, 1, e)[i] = q[i]
    BY <2>1, Parted
  <2>3. 2 \in 1..e
    BY <1>4
  <2> QED
    BY <1>2, <1>4, <2>2, <2>3
<1> DEFINE line == Line(q, 1)
           tag == SubSeq(line, 2, 2)
<1>6. line \in Seq(Marks) /\ Len(line) = e /\ line[2] = "LDR"
  BY <1>5
<1> HIDE DEF line
<1>7. tag \in Seq(Marks) /\ Len(tag) = 1 /\ tag[1] = "LDR"
  <2>1. \A k \in 2..2 : line[k] \in Marks
    BY <1>4, <1>6
  <2>2. tag \in Seq(Marks) /\ Len(tag) = (IF 2 <= 2 THEN 2 - 2 + 1 ELSE 0) /\ \A k \in 1..1 : tag[k] = line[2 + k - 1]
    BY <1>4, <1>6, <2>1, SubSeqProperties
  <2> QED
    BY <1>6, <2>2
<1> HIDE DEF tag
<1>8. tag = <<"LDR">>
  BY <1>7
<1> QED
  BY <1>1, <1>8 DEF tag, line

\* As far as the first part goes, the whole is parsed like it.
LEMMA RunOfFirst ==
  ASSUME NEW p, NEW q, LeaderCut(p, q), NEW f, NEW g, BreakerRun(f, p \o q), BreakerRun(g, p)
  PROVE  \A n \in 0..Len(p) : f[n] = g[n]
<1> DEFINE s == p \o q
           c == Len(p)
           T == {n \in Nat : n <= c => f[n] = g[n]}
<1>1. c \in Nat /\ Len(q) \in Nat /\ Len(s) = c + Len(q) /\ c = Len(p)
  BY Joined DEF LeaderCut
<1>2. /\ f[0] = <<>> /\ g[0] = <<>>
      /\ \A n \in 1..Len(s) :
           f[n] = IF n \in LineStarts(s) /\ s[n] = "=" THEN AddLine(f[n - 1], Line(s, n)) ELSE f[n - 1]
      /\ \A n \in 1..c :
           g[n] = IF n \in LineStarts(p) /\ p[n] = "=" THEN AddLine(g[n - 1], Line(p, n)) ELSE g[n - 1]
  BY DEF BreakerRun
<1>3. \A n \in 1..c : /\ n \in LineStarts(s) <=> n \in LineStarts(p)
                      /\ s[n] = p[n] /\ Line(s, n) = Line(p, n)
  <2>1. ASSUME NEW n \in 1..c
        PROVE  (n \in LineStarts(s) <=> n \in LineStarts(p)) /\ s[n] = p[n] /\ Line(s, n) = Line(p, n)
    <3>1. SameLine(p \o q, 0, p, n)
      BY LinesOfFirst
    <3>2. 0 + n = n
      BY <1>1
    <3> QED
      BY <3>1, <3>2 DEF SameLine
  <2> QED
    BY <2>1
<1> HIDE DEF s, c
<1>4. 0 \in T
  BY <1>2
<1>5. ASSUME NEW n \in T PROVE n + 1 \in T
  <2> SUFFICES ASSUME n + 1 <= c PROVE f[n + 1] = g[n + 1]
    OBVIOUS
  <2>1. n + 1 \in 1..c /\ n + 1 \in 1..Len(s) /\ (n + 1) - 1 = n /\ f[n] = g[n]
    BY <1>1
  <2> QED
    BY <1>2, <1>3, <2>1
<1>6. T \in SUBSET Nat
  OBVIOUS
<1> HIDE DEF T
<1>7. T = Nat
  BY <1>4, <1>5, <1>6, Induct
<1> QED
  BY <1>1, <1>7 DEF T, c

\* Behind it, it is parsed like the second part, with what is there already
\* in front.
LEMMA RunOfSecond ==
  ASSUME NEW p, NEW q, LeaderCut(p, q), NEW f, NEW h, BreakerRun(f, p \o q), BreakerRun(h, q)
  PROVE  \A m \in 1..Len(q) : h[m] # <<>> /\ Joins(f[Len(p) + m], f[Len(p)], h[m])
<1> DEFINE s == p \o q
           c == Len(p)
           d == Len(q)
           T == {n \in Nat : n + 1 <= d => h[n + 1] # <<>> /\ Joins(f[c + (n + 1)], f[c], h[n + 1])}
<1>1. /\ c \in Nat /\ d \in Nat /\ Len(s) = c + d /\ c = Len(p) /\ d = Len(q)
      /\ q \in Seq(Marks) /\ 1 \in LeaderLines(q)
  BY Joined DEF LeaderCut
<1>2. /\ f \in [0..Len(s) -> Lists] /\ h \in [0..d -> Lists] /\ h[0] = <<>>
      /\ \A n \in 1..Len(s) :
           f[n] = IF n \in LineStarts(s) /\ s[n] = "=" THEN AddLine(f[n - 1], Line(s, n)) ELSE f[n - 1]
      /\ \A n \in 1..d :
           h[n] = IF n \in LineStarts(q) /\ q[n] = "=" THEN AddLine(h[n - 1], Line(q, n)) ELSE h[n - 1]
  BY DEF BreakerRun
<1>3. \A m \in 1..d : /\ c + m \in LineStarts(s) <=> m \in LineStarts(q)
                      /\ s[c + m] = q[m] /\ Line(s, c + m) = Line(q, m)
                      /\ Line(q, m) \in Seq(Marks)
  <2>1. ASSUME NEW m \in 1..d
        PROVE  /\ (c + m \in LineStarts(s) <=> m \in LineStarts(q))
               /\ s[c + m] = q[m] /\ Line(s, c + m) = Line(q, m)
               /\ Line(q, m) \in Seq(Marks)
    <3>1. SameLine(p \o q, Len(p), q, m)
      BY LinesOfSecond
    <3>2. Line(q, m) \in Seq(Marks)
      BY <1>1, LineIs
    <3> QED
      BY <3>1, <3>2 DEF SameLine
  <2> QED
    BY <2>1
<1> HIDE DEF s, c, d
<1>4. f[c] \in Lists /\ \A m \in 1..d : f[c + m] \in Lists /\ h[m] \in Lists /\ c + m \in 1..Len(s)
  <2>1. c \in 0..Len(s) /\ \A m \in 1..d : c + m \in 1..Len(s) /\ c + m \in 0..Len(s) /\ m \in 0..d
    BY <1>1
  <2> QED
    BY <1>2, <2>1
<1>5. 0 \in T
  <2> SUFFICES ASSUME 1 <= d PROVE h[1] # <<>> /\ Joins(f[c + 1], f[c], h[1])
    OBVIOUS
  <2>1. 1 \in LineStarts(q) /\ q[1] = "=" /\ SubSeq(Line(q, 1), 2, 2) = <<"LDR">>
    BY <1>1, LeadersLine
  <2>2. 1 \in 1..d /\ c + 1 \in 1..Len(s) /\ 1 - 1 = 0 /\ (c + 1) - 1 = c /\ <<>> \in Lists
    BY <1>1 DEF Lists
  <2>3. h[1] = AddLine(<<>>, Line(q, 1)) /\ f[c + 1] = AddLine(f[c], Line(q, 1))
    BY <1>2, <1>3, <2>1, <2>2
  <2>4. Joins(f[c], f[c], <<>>)
    BY <1>4 DEF Joins, Lists
  <2>5. Joins(AddLine(f[c], Line(q, 1)), f[c], AddLine(<<>>, Line(q, 1)))
    BY <1>3, <1>4, <2>1, <2>2, <2>4, AddJoined
  <2>6. AddLine(<<>>, Line(q, 1)) # <<>>
    BY <1>3, <2>2, AddLineIn
  <2> QED
    BY <2>3, <2>5, <2>6
<1>6. ASSUME NEW n \in T PROVE n + 1 \in T
  <2> DEFINE k == n + 1
             m == k + 1
  <2>1. n \in Nat
    OBVIOUS
  <2> SUFFICES ASSUME (n + 1) + 1 <= d PROVE h[m] # <<>> /\ Joins(f[c + m], f[c], h[m])
    BY <2>1
  <2>2. /\ k \in 1..d /\ m \in 1..d /\ m - 1 = k /\ (c + m) - 1 = c + k
    <3>1. n \in Nat /\ c \in Nat /\ d \in Nat /\ (n + 1) + 1 <= d
      BY <1>1, <2>1
    <3> QED
      BY ONLY <3>1 DEF k, m
  <2>3. h[k] # <<>> /\ Joins(f[c + k], f[c], h[k])
    BY <1>1, <2>1, <2>2
  <2> HIDE DEF m, k
  <2>4. h[k] \in Lists /\ c + m \in 1..Len(s)
    BY <1>4, <2>2
  <2>5. CASE m \in LineStarts(q) /\ q[m] = "="
    <3>1. h[m] = AddLine(h[k], Line(q, m)) /\ f[c + m] = AddLine(f[c + k], Line(q, m))
      BY <1>2, <1>3, <2>2, <2>4, <2>5
    <3>2. Joins(AddLine(f[c + k], Line(q, m)), f[c], AddLine(h[k], Line(q, m)))
      BY <1>3, <1>4, <2>2, <2>3, <2>4, AddJoined
    <3>3. AddLine(h[k], Line(q, m)) # <<>>
      BY <1>3, <2>2, <2>4, AddLineIn
    <3> QED
      BY <3>1, <3>2, <3>3
  <2>6. CASE ~(m \in LineStarts(q) /\ q[m] = "=")
    <3>1. h[m] = h[k] /\ f[c + m] = f[c + k]
      BY <1>2, <1>3, <2>2, <2>4, <2>6
    <3> QED
      BY <2>3, <3>1
  <2> QED
    BY <2>5, <2>6
<1>7. T \in SUBSET Nat
  OBVIOUS
<1> HIDE DEF T
<1>8. T = Nat
  BY <1>5, <1>6, <1>7, Induct
<1>9. ASSUME NEW m \in 1..d PROVE h[m] # <<>> /\ Joins(f[c + m], f[c], h[m])
  <2>1. m - 1 \in T /\ (m - 1) + 1 = m
    BY <1>1, <1>8
  <2> QED
    BY <1>1, <2>1 DEF T
<1> QED
  BY <1>9 DEF c, d

\* ParseBreaker finds in a text cut in front of a leader what it finds in its
\* parts.
LEMMA BreakerCut ==
  ASSUME NEW p, NEW q, LeaderCut(p, q)
  PROVE  /\ ParseBreaker(p).recs \in Lists /\ ParseBreaker(q).recs \in Lists
         /\ Joins(ParseBreaker(p \o q).recs, ParseBreaker(p).recs, ParseBreaker(q).recs)
<1> DEFINE s == p \o q
<1>1. /\ p \in Seq(Marks) /\ q \in Seq(Marks) /\ s \in Seq(Marks)
      /\ Len(p) \in Nat /\ Len(q) \in Nat /\ Len(s) = Len(p) + Len(q)
  BY Joined DEF LeaderCut
<1> HIDE DEF s
<1>2. PICK f : BreakerRun(f, s) /\ ParseBreaker(s).recs = f[Len(s)]
  BY <1>1, BreakerRuns
<1>3. PICK g : BreakerRun(g, p) /\ ParseBreaker(p).recs = g[Len(p)]
  BY <1>1, BreakerRuns
<1>4. PICK h : BreakerRun(h, q) /\ ParseBreaker(q).recs = h[Len(q)]
  BY <1>1, BreakerRuns
<1>5. Len(q) \in 1..Len(q)
  BY <1>1, LeadersLine DEF LeaderCut
<1>6. f[Len(p)] = g[Len(p)]
  BY <1>1, <1>2, <1>3, RunOfFirst DEF s
<1>7. Joins(f[Len(p) + Len(q)], f[Len(p)], h[Len(q)])
  BY <1>2, <1>4, <1>5, RunOfSecond DEF s
<1>8. g[Len(p)] \in Lists /\ h[Len(q)] \in Lists
  <2>1. Len(p) \in 0..Len(p) /\ Len(q) \in 0..Len(q)
    BY <1>1
  <2> QED
    BY <1>3, <1>4, <2>1 DEF BreakerRun
<1>9. Joins(ParseBreaker(s).recs, ParseBreaker(p).recs, ParseBreaker(q).recs)
  BY <1>1, <1>2, <1>3, <1>4, <1>6, <1>7
<1> QED
  BY <1>3, <1>4, <1>8, <1>9 DEF s

-----------------------------------------------------------------------------
(* A MARCXML text, mark by mark.                                           *)

\* What ParseMarcXml knows behind a mark.
XmlStates ==
  [comment : BOOLEAN, inside : BOOLEAN, rec : Seq(Marks), recs : Seq(Seq(Marks))]

\* f is what it knows behind each mark of s.
XmlRun(f, s) ==
  /\ f \in [0..Len(s) -> XmlStates]
  /\ f[0] = XmlStart
  /\ \A n \in 1..Len(s) : f[n] = XmlStep(s, n, f[n - 1])

\* What a mark may do.
SetComment(x, b) == [x EXCEPT !.comment = b]
BeginRecord(x) == [x EXCEPT !.inside = TRUE, !.rec = <<>>]
EndRecord(x) == [x EXCEPT !.inside = FALSE, !.recs = Append(x.recs, x.rec)]
AddText(x, mark) == [x EXCEPT !.rec = Append(x.rec, mark)]

\* Whether a mark makes the end of a start tag or of an end tag.
Starts(s, i) == NamesRecord(s, i) /\ BehindMark(s, i, "<")
Ends(s, i) == NamesRecord(s, i) /\ BehindMark(s, i, "/")

\* The ways a mark is taken.
LEMMA XmlSteps ==
  ASSUME NEW s \in Seq(Marks), NEW i \in 1..Len(s), NEW x \in XmlStates
  PROVE  /\ x.comment => XmlStep(s, i, x) = SetComment(x, s[i] # "-->")
         /\ ~x.comment /\ s[i] = "<!--" => XmlStep(s, i, x) = SetComment(x, TRUE)
         /\ ~x.comment /\ Starts(s, i) => XmlStep(s, i, x) = BeginRecord(x)
         /\ ~x.comment /\ Ends(s, i) /\ x.inside => XmlStep(s, i, x) = EndRecord(x)
         /\ ~x.comment /\ s[i] \in {"a", "b"} => XmlStep(s, i, x) = AddText(x, s[i])
         /\ /\ ~x.comment /\ s[i] # "<!--" /\ ~Starts(s, i)
            /\ ~(Ends(s, i) /\ x.inside) /\ s[i] \notin {"a", "b"}
            => XmlStep(s, i, x) = x
<1>1. Starts(s, i) => s[i] = "record>"
  BY DEF NamesRecord, Starts
<1>2. Ends(s, i) => s[i] = "record>"
  BY DEF NamesRecord, Ends
<1>3. ~(Starts(s, i) /\ Ends(s, i))
  BY DEF BehindMark, Starts, Ends
<1>4. ~x.comment =>
        XmlStep(s, i, x) =
          CASE s[i] = "<!--" -> SetComment(x, TRUE)
            [] Starts(s, i) -> BeginRecord(x)
            [] Ends(s, i) /\ x.inside -> EndRecord(x)
            [] s[i] \in {"a", "b"} -> AddText(x, s[i])
            [] OTHER -> x
  BY DEF XmlStep, Starts, Ends, SetComment, BeginRecord, EndRecord, AddText
<1>5. CASE x.comment
  BY <1>5 DEF XmlStep, SetComment
<1>6. CASE ~x.comment
  <2>1. ASSUME s[i] = "<!--" PROVE XmlStep(s, i, x) = SetComment(x, TRUE)
    BY <1>1, <1>2, <1>4, <1>6, <2>1
  <2>2. ASSUME Starts(s, i) PROVE XmlStep(s, i, x) = BeginRecord(x)
    BY <1>1, <1>3, <1>4, <1>6, <2>2
  <2>3. ASSUME Ends(s, i), x.inside PROVE XmlStep(s, i, x) = EndRecord(x)
    BY <1>2, <1>3, <1>4, <1>6, <2>3
  <2>4. ASSUME s[i] \in {"a", "b"} PROVE XmlStep(s, i, x) = AddText(x, s[i])
    BY <1>1, <1>2, <1>4, <1>6, <2>4
  <2>5. ASSUME s[i] # "<!--", ~Starts(s, i), ~(Ends(s, i) /\ x.inside), s[i] \notin {"a", "b"}
        PROVE  XmlStep(s, i, x) = x
    BY <1>4, <1>6, <2>5
  <2> QED
    BY <1>6, <2>1, <2>2, <2>3, <2>4, <2>5
<1> QED
  BY <1>5, <1>6

\* The parser's state stays one.
LEMMA XmlStepIn ==
  ASSUME NEW s \in Seq(Marks), NEW i \in 1..Len(s), NEW x \in XmlStates
  PROVE  XmlStep(s, i, x) \in XmlStates
<1> DEFINE y == XmlStep(s, i, x)
<1>1. s[i] \in Marks
  OBVIOUS
<1>2. /\ x.comment \in BOOLEAN /\ x.inside \in BOOLEAN /\ x.rec \in Seq(Marks)
      /\ x.recs \in Seq(Seq(Marks))
  BY DEF XmlStates
<1>3. Append(x.rec, s[i]) \in Seq(Marks) /\ Append(x.recs, x.rec) \in Seq(Seq(Marks)) /\ <<>> \in Seq(Marks)
  BY <1>1, <1>2
<1> HIDE DEF y
<1>4. CASE x.comment
  <2>1. y = SetComment(x, s[i] # "-->")
    BY <1>4, XmlSteps DEF y
  <2>2. (s[i] # "-->") \in BOOLEAN
    OBVIOUS
  <2> QED
    BY <2>1, <2>2 DEF XmlStates, y, SetComment, BeginRecord, EndRecord, AddText
<1>5. CASE ~x.comment /\ s[i] = "<!--"
  <2>1. y = SetComment(x, TRUE)
    BY <1>5, XmlSteps DEF y
  <2> QED
    BY <2>1 DEF XmlStates, y, SetComment, BeginRecord, EndRecord, AddText
<1>6. CASE ~x.comment /\ Starts(s, i)
  <2>1. y = BeginRecord(x)
    BY <1>6, XmlSteps DEF y
  <2> QED
    BY <1>3, <2>1 DEF XmlStates, y, SetComment, BeginRecord, EndRecord, AddText
<1>7. CASE ~x.comment /\ Ends(s, i) /\ x.inside
  <2>1. y = EndRecord(x)
    BY <1>7, XmlSteps DEF y
  <2> QED
    BY <1>3, <2>1 DEF XmlStates, y, SetComment, BeginRecord, EndRecord, AddText
<1>8. CASE ~x.comment /\ s[i] \in {"a", "b"}
  <2>1. y = AddText(x, s[i])
    BY <1>8, XmlSteps DEF y
  <2> QED
    BY <1>3, <2>1 DEF XmlStates, y, SetComment, BeginRecord, EndRecord, AddText
<1>9. CASE /\ ~x.comment /\ s[i] # "<!--" /\ ~Starts(s, i)
           /\ ~(Ends(s, i) /\ x.inside)
           /\ s[i] \notin {"a", "b"}
  <2>1. y = x
    BY <1>9, XmlSteps DEF y
  <2> QED
    BY <2>1 DEF y
<1> QED
  BY <1>4, <1>5, <1>6, <1>7, <1>8, <1>9

\* There is such a run, and the parser finds what it does.
LEMMA XmlRuns ==
  ASSUME NEW s \in Seq(Marks)
  PROVE  \E f : XmlRun(f, s) /\ ParseMarcXml(s).recs = f[Len(s)].recs
<1> DEFINE N == Len(s)
           step == [p \in (1..N) \X XmlStates |-> XmlStep(s, p[1], p[2])]
           Rule(it) == [n \in 0..N |-> IF n = 0 THEN XmlStart ELSE XmlStep(s, n, it[n - 1])]
           h == CHOOSE it : it = Rule(it)
<1>1. ParseMarcXml(s).recs = h[N].recs
  BY DEF ParseMarcXml
<1>2. N \in Nat /\ N = Len(s)
  OBVIOUS
<1>3. XmlStart \in XmlStates
  BY DEF XmlStart, XmlStates
<1> HIDE DEF N
<1>4. ASSUME NEW n \in 1..N, NEW x \in XmlStates
      PROVE  step[<<n, x>>] = XmlStep(s, n, x) /\ step[<<n, x>>] \in XmlStates
  BY <1>2, XmlStepIn
<1>5. step \in Steps(1..N, XmlStates)
  <2>1. \A p \in (1..N) \X XmlStates : XmlStep(s, p[1], p[2]) \in XmlStates
    BY <1>2, XmlStepIn
  <2> QED
    BY <2>1 DEF Steps
<1> HIDE DEF step
<1>6. PICK f : RecursiveUpTo(N, f, XmlStates, XmlStart, step)
  BY <1>2, <1>3, <1>5, BoundedRecursion
<1>7. f \in [0..N -> XmlStates] /\ f[0] = XmlStart /\ \A n \in 1..N : f[n] = step[<<n, f[n - 1]>>]
  BY <1>6 DEF RecursiveUpTo
<1>8. \A n \in 1..N : n - 1 \in 0..N /\ n # 0
  BY <1>2
<1>9. f = Rule(f)
  <2>1. ASSUME NEW n \in 0..N
        PROVE  f[n] = IF n = 0 THEN XmlStart ELSE XmlStep(s, n, f[n - 1])
    <3>1. CASE n = 0
      BY <1>7, <3>1
    <3>2. CASE n # 0
      <4>1. n \in 1..N /\ f[n - 1] \in XmlStates
        BY <1>2, <1>7, <1>8, <3>2
      <4> QED
        BY <1>4, <1>7, <3>2, <4>1
    <3> QED
      BY <3>1, <3>2
  <2> QED
    BY <1>7, <2>1
<1>10. h = Rule(h)
  BY <1>9
<1> HIDE DEF h
<1>11. h[0] = XmlStart /\ \A n \in 1..N : h[n] = XmlStep(s, n, h[n - 1])
  BY <1>2, <1>8, <1>10
<1>12. \A n \in 0..N : h[n] \in XmlStates
  <2>1. \A n \in 1..N : h[n - 1] \in XmlStates => h[n] = step[<<n, h[n - 1]>>]
    BY <1>4, <1>11
  <2> QED
    BY <1>2, <1>3, <1>5, <1>11, <2>1, RunsIn
<1>13. h \in [0..N -> XmlStates]
  BY <1>10, <1>12
<1>14. XmlRun(h, s)
  BY <1>2, <1>11, <1>13 DEF XmlRun
<1> QED
  BY <1>1, <1>2, <1>14

\* The parser takes what follows for a comment when it is in one.
LEMMA CommentsKnown ==
  ASSUME NEW s \in Seq(Marks), NEW f, XmlRun(f, s), NEW i \in 1..Len(s)
  PROVE  f[i].comment <=> InComment(s, i)
<1> DEFINE N == Len(s)
           T == {n \in Nat : n <= N => (f[n].comment <=> InComment(s, n))}
<1>1. N \in Nat /\ N = Len(s) /\ i \in 1..N
  OBVIOUS
<1>2. /\ f \in [0..N -> XmlStates] /\ f[0] = XmlStart
      /\ \A n \in 1..N : f[n] = XmlStep(s, n, f[n - 1])
  BY DEF XmlRun
<1> HIDE DEF N
<1>3. 0 \in T
  <2>1. ~f[0].comment
    BY <1>2 DEF XmlStart
  <2>2. ~InComment(s, 0)
    BY DEF InComment
  <2> QED
    BY <2>1, <2>2
<1>4. ASSUME NEW n \in T PROVE n + 1 \in T
  <2> SUFFICES ASSUME n + 1 <= N PROVE f[n + 1].comment <=> InComment(s, n + 1)
    OBVIOUS
  <2> DEFINE m == n + 1
             x == f[n]
  <2>1. /\ n \in Nat /\ m \in 1..N /\ m \in Nat /\ m - 1 = n /\ n \in 0..N
        /\ (x.comment <=> InComment(s, n)) /\ m = n + 1
    BY <1>1
  <2>2. x \in XmlStates /\ f[m] = XmlStep(s, m, x)
    BY <1>2, <2>1
  <2> HIDE DEF x, m
  <2>3. InComment(s, m) <=> s[m] # "-->" /\ (InComment(s, n) \/ s[m] = "<!--")
    <3>1. ASSUME InComment(s, m) PROVE s[m] # "-->" /\ (InComment(s, n) \/ s[m] = "<!--")
      <4>1. PICK k \in 1..m : s[k] = "<!--" /\ \A j \in k..m : s[j] # "-->"
        BY <3>1 DEF InComment
      <4>2. m \in k..m
        BY <2>1
      <4>3. CASE k = m
        BY <4>1, <4>2, <4>3
      <4>4. CASE k # m
        <5>1. k \in 1..n /\ \A j \in k..n : j \in k..m
          BY <2>1, <4>4
        <5> QED
          BY <4>1, <4>2, <5>1 DEF InComment
      <4> QED
        BY <4>3, <4>4
    <3>2. ASSUME s[m] # "-->", InComment(s, n) PROVE InComment(s, m)
      <4>1. PICK k \in 1..n : s[k] = "<!--" /\ \A j \in k..n : s[j] # "-->"
        BY <3>2 DEF InComment
      <4>2. k \in 1..m /\ \A j \in k..m : j \in k..n \/ j = m
        BY <2>1
      <4> QED
        BY <3>2, <4>1, <4>2 DEF InComment
    <3>3. ASSUME s[m] = "<!--" PROVE InComment(s, m)
      <4>1. m \in 1..m /\ \A j \in m..m : j = m
        BY <2>1
      <4> QED
        BY <3>3, <4>1 DEF InComment
    <3> QED
      BY <3>1, <3>2, <3>3
  <2>4. m \in 1..Len(s)
    BY <1>1, <2>1
  <2>5. f[m].comment <=> s[m] # "-->" /\ (x.comment \/ s[m] = "<!--")
    <3> DEFINE y == XmlStep(s, m, x)
    <3>1. CASE x.comment
      <4>1. y = SetComment(x, s[m] # "-->")
        BY <2>2, <2>4, <3>1, XmlSteps
      <4> QED
        BY <2>2, <3>1, <4>1 DEF XmlStates, SetComment, BeginRecord, EndRecord, AddText
    <3>2. CASE ~x.comment /\ s[m] = "<!--"
      <4>1. y = SetComment(x, TRUE)
        BY <2>2, <2>4, <3>2, XmlSteps
      <4> QED
        BY <2>2, <3>2, <4>1 DEF XmlStates, SetComment, BeginRecord, EndRecord, AddText
    <3>3. CASE ~x.comment /\ s[m] # "<!--"
      <4>1. y.comment = x.comment
        <5>1. CASE Starts(s, m)
          <6>1. y = BeginRecord(x)
            BY <2>2, <2>4, <3>3, <5>1, XmlSteps
          <6> QED
            BY <2>2, <6>1 DEF XmlStates, SetComment, BeginRecord, EndRecord, AddText
        <5>2. CASE Ends(s, m) /\ x.inside
          <6>1. y = EndRecord(x)
            BY <2>2, <2>4, <3>3, <5>2, XmlSteps
          <6> QED
            BY <2>2, <6>1 DEF XmlStates, SetComment, BeginRecord, EndRecord, AddText
        <5>3. CASE s[m] \in {"a", "b"}
          <6>1. y = AddText(x, s[m])
            BY <2>2, <2>4, <3>3, <5>3, XmlSteps
          <6> QED
            BY <2>2, <6>1 DEF XmlStates, SetComment, BeginRecord, EndRecord, AddText
        <5>4. CASE /\ ~Starts(s, m)
                   /\ ~(Ends(s, m) /\ x.inside)
                   /\ s[m] \notin {"a", "b"}
          <6>1. y = x
            BY <2>2, <2>4, <3>3, <5>4, XmlSteps
          <6> QED
            BY <6>1
        <5> QED
          BY <5>1, <5>2, <5>3, <5>4
      <4> QED
        BY <2>2, <3>3, <4>1
    <3> QED
      BY <3>1, <3>2, <3>3
  <2> QED
    BY <2>1, <2>3, <2>5
<1>5. T \in SUBSET Nat
  OBVIOUS
<1> HIDE DEF T
<1>6. T = Nat
  BY <1>3, <1>4, <1>5, Induct
<1> QED
  BY <1>1, <1>6 DEF T

-----------------------------------------------------------------------------
(* A MARCXML text cut behind an end tag that is no comment's.              *)

\* A MARCXML text cut behind an end tag that no comment hides.
EndTagCut(p, q) ==
  /\ p \in Seq(Marks) /\ q \in Seq(Marks)
  /\ Len(p) > 0 /\ ClosesRecord(p, Len(p)) /\ ~InComment(p, Len(p))

\* A mark of the first part is taken as in the whole.
LEMMA StepOfFirst ==
  ASSUME NEW s \in Seq(Marks), NEW p \in Seq(Marks), Begins(s, p), NEW n \in 1..Len(p), NEW x
  PROVE  XmlStep(s, n, x) = XmlStep(p, n, x)
<1>1. Len(p) \in Nat /\ \A i \in 1..Len(p) : p[i] = s[i]
  BY DEF Begins
<1>2. NameStart(s, n) = NameStart(p, n) /\ s[n] = p[n]
  BY <1>1, NameStartOfFirst
<1>3. n \in Nat \ {0}
  BY <1>1
<1>4. NameStart(s, n) \in 1..n
  BY <1>3, NameStartType
<1>5. NamesRecord(s, n) <=> NamesRecord(p, n)
  <2>1. CASE n = 1
    <3>1. NameStart(s, n) = n
      BY <1>4, <2>1
    <3> QED
      BY <1>2, <3>1 DEF NamesRecord
  <2>2. CASE n # 1
    <3>1. n - 1 \in 1..Len(p)
      BY <1>1, <2>2
    <3> QED
      BY <1>1, <1>2, <3>1 DEF NamesRecord
  <2> QED
    BY <2>1, <2>2
<1>6. ASSUME NEW mark PROVE BehindMark(s, n, mark) <=> BehindMark(p, n, mark)
  <2>1. CASE NameStart(s, n) > 1
    <3>1. NameStart(s, n) - 1 \in 1..Len(p)
      BY <1>1, <1>4, <2>1
    <3> QED
      BY <1>1, <1>2, <3>1 DEF BehindMark
  <2>2. CASE ~(NameStart(s, n) > 1)
    BY <1>2, <2>2 DEF BehindMark
  <2> QED
    BY <2>1, <2>2
<1> QED
  BY <1>2, <1>5, <1>6 DEF XmlStep

\* As far as the first part goes, the whole is parsed like it.
LEMMA XmlRunOfFirst ==
  ASSUME NEW s \in Seq(Marks), NEW p \in Seq(Marks), Begins(s, p),
         NEW f, NEW g, XmlRun(f, s), XmlRun(g, p)
  PROVE  \A n \in 0..Len(p) : f[n] = g[n]
<1> DEFINE c == Len(p)
           T == {n \in Nat : n <= c => f[n] = g[n]}
<1>1. c \in Nat /\ Len(s) \in Nat /\ c <= Len(s) /\ c = Len(p)
  BY DEF Begins
<1>2. /\ f[0] = XmlStart /\ g[0] = XmlStart
      /\ \A n \in 1..Len(s) : f[n] = XmlStep(s, n, f[n - 1])
      /\ \A n \in 1..c : g[n] = XmlStep(p, n, g[n - 1])
  BY DEF XmlRun
<1> HIDE DEF c
<1>3. 0 \in T
  BY <1>2
<1>4. ASSUME NEW n \in T PROVE n + 1 \in T
  <2> SUFFICES ASSUME n + 1 <= c PROVE f[n + 1] = g[n + 1]
    OBVIOUS
  <2>1. n + 1 \in 1..c /\ n + 1 \in 1..Len(s) /\ (n + 1) - 1 = n /\ f[n] = g[n]
    BY <1>1
  <2>2. XmlStep(s, n + 1, f[n]) = XmlStep(p, n + 1, f[n])
    BY <1>1, <2>1, StepOfFirst
  <2> QED
    BY <1>2, <2>1, <2>2
<1>5. T \in SUBSET Nat
  OBVIOUS
<1> HIDE DEF T
<1>6. T = Nat
  BY <1>3, <1>4, <1>5, Induct
<1> QED
  BY <1>1, <1>6 DEF T, c

\* Behind a cut the names are those of the second part, further on.
LEMMA NameStartOfSecond ==
  ASSUME NEW p, NEW q, EndTagCut(p, q), NEW m \in 1..Len(q)
  PROVE  /\ NameStart(p \o q, Len(p) + m) = Len(p) + NameStart(q, m)
         /\ NameStart(q, m) \in 1..m
<1> DEFINE s == p \o q
           c == Len(p)
           d == Len(q)
           x == NameStart(s, c + m)
           y == NameStart(q, m)
<1>1. /\ c \in Nat /\ d \in Nat /\ Len(s) = c + d /\ c > 0 /\ c = Len(p) /\ d = Len(q) /\ m \in 1..d
      /\ \A i \in 1..c : s[i] = p[i]
      /\ \A i \in 1..d : s[c + i] = q[i]
  BY Joined DEF EndTagCut
<1>2. s[c] = "record>"
  <2>1. c \in 1..c /\ p[c] = "record>"
    BY <1>1 DEF EndTagCut, ClosesRecord
  <2> HIDE DEF s, c
  <2> QED
    BY <1>1, <2>1
<1> HIDE DEF s, c, d
<1>3. m \in Nat \ {0} /\ c + m \in Nat \ {0}
  BY <1>1
<1>4. /\ x \in 1..(c + m)
      /\ \A j \in x..((c + m) - 1) : s[j] \in {"name", ":"}
      /\ \A k \in 1..(c + m) : (\A j \in k..((c + m) - 1) : s[j] \in {"name", ":"}) => x <= k
  BY <1>3, NameStartIs
<1>5. /\ y \in 1..m
      /\ \A j \in y..(m - 1) : q[j] \in {"name", ":"}
      /\ \A k \in 1..m : (\A j \in k..(m - 1) : q[j] \in {"name", ":"}) => y <= k
  BY <1>3, NameStartIs
<1> HIDE DEF x, y
<1>6. x > c
  <2> SUFFICES ASSUME x <= c PROVE FALSE
    BY <1>1, <1>3, <1>4
  <2>1. c \in x..((c + m) - 1)
    BY <1>1, <1>3, <1>4
  <2> QED
    BY <1>2, <1>4, <2>1
<1>7. x <= c + y
  <2>1. c + y \in 1..(c + m)
    BY <1>1, <1>3, <1>5
  <2>2. ASSUME NEW j \in (c + y)..((c + m) - 1) PROVE s[j] \in {"name", ":"}
    <3>1. j - c \in y..(m - 1) /\ j - c \in 1..d /\ c + (j - c) = j
      BY <1>1, <1>3, <1>5
    <3>2. s[c + (j - c)] = q[j - c] /\ q[j - c] \in {"name", ":"}
      BY <1>1, <1>5, <3>1
    <3> QED
      BY <3>1, <3>2
  <2> QED
    BY <1>4, <2>1, <2>2
<1>8. y <= x - c
  <2>1. x - c \in 1..m
    BY <1>1, <1>3, <1>4, <1>6
  <2>2. ASSUME NEW j \in (x - c)..(m - 1) PROVE q[j] \in {"name", ":"}
    <3>1. c + j \in x..((c + m) - 1) /\ j \in 1..d
      BY <1>1, <1>3, <1>4, <1>6, <2>1
    <3>2. s[c + j] \in {"name", ":"} /\ s[c + j] = q[j]
      BY <1>1, <1>4, <3>1
    <3> QED
      BY <3>2
  <2> QED
    BY <1>5, <2>1, <2>2
<1>9. x = c + y
  <2>1. x \in Nat /\ y \in Nat /\ c \in Nat
    BY <1>1, <1>3, <1>4, <1>5
  <2> QED
    BY ONLY <1>7, <1>8, <2>1
<1> QED
  BY <1>5, <1>9 DEF x, y, s, c

\* Behind c marks of text s and at mark m of text q there are the same tags.
SameTags(s, c, q, m) ==
  /\ s[c + m] = q[m]
  /\ Starts(s, c + m) <=> Starts(q, m)
  /\ Ends(s, c + m) <=> Ends(q, m)
  /\ ClosesRecord(q, m) => ClosesRecord(s, c + m)

\* A mark of the second part makes the same tags as in the whole.
LEMMA TagsOfSecond ==
  ASSUME NEW p, NEW q, EndTagCut(p, q), NEW m \in 1..Len(q), NEW s, Joins(s, p, q)
  PROVE  SameTags(s, Len(p), q, m)
<1> DEFINE c == Len(p)
           d == Len(q)
           y == NameStart(q, m)
<1>1. /\ c \in Nat /\ d \in Nat /\ Len(s) = c + d /\ c > 0 /\ c = Len(p) /\ d = Len(q) /\ m \in 1..d
      /\ \A i \in 1..c : s[i] = p[i]
      /\ \A i \in 1..d : s[c + i] = q[i]
  <2>1. s = p \o q
    BY DEF Joins
  <2> QED
    BY <2>1, Joined DEF EndTagCut
<1>2. s[c] = "record>"
  <2>1. c \in 1..c /\ p[c] = "record>"
    BY <1>1 DEF EndTagCut, ClosesRecord
  <2> QED
    BY <1>1, <2>1
<1>3. y \in 1..m /\ NameStart(s, c + m) = c + y
  <2>1. s = p \o q
    BY DEF Joins
  <2> QED
    BY <2>1, NameStartOfSecond
<1> HIDE DEF c, d
<1>4. s[c + m] = q[m] /\ y \in Nat /\ m \in Nat /\ m > 0
  BY <1>1, <1>3
<1>5. NameStart(s, c + m) = c + m <=> NameStart(q, m) = m
  <2> HIDE DEF y
  <2>1. c + y = c + m <=> y = m
    BY ONLY <1>1, <1>4
  <2> QED
    BY <1>3, <2>1 DEF y
<1>6. NamesRecord(s, c + m) <=> NamesRecord(q, m)
  <2>1. CASE y = m
    BY <1>3, <1>4, <1>5, <2>1 DEF NamesRecord
  <2>2. CASE y # m
    <3>1. m - 1 \in 1..d /\ c + (m - 1) = (c + m) - 1
      BY <1>1, <1>3, <1>4, <2>2
    <3>2. s[(c + m) - 1] = q[m - 1]
      BY <1>1, <3>1
    <3> QED
      BY <1>4, <1>5, <3>2 DEF NamesRecord
  <2> QED
    BY <2>1, <2>2
<1>7. ASSUME NEW mark, mark # "record>"
      PROVE  BehindMark(s, c + m, mark) <=> BehindMark(q, m, mark)
  <2>1. CASE y = 1
    <3>1. ~BehindMark(q, m, mark)
      BY <2>1 DEF BehindMark
    <3>2. (c + y) - 1 = c
      BY <1>1, <2>1
    <3>3. ~BehindMark(s, c + m, mark)
      <4> HIDE DEF y
      <4> QED
        BY <1>2, <1>3, <1>7, <3>2 DEF BehindMark
    <3> QED
      BY <3>1, <3>3
  <2>2. CASE y # 1
    <3>1. y > 1 /\ c + y > 1 /\ y - 1 \in 1..d /\ c + (y - 1) = (c + y) - 1
      BY <1>1, <1>3, <1>4, <2>2
    <3>2. s[(c + y) - 1] = q[y - 1]
      BY <1>1, <3>1
    <3> QED
      BY <1>3, <3>1, <3>2 DEF BehindMark
  <2> QED
    BY <2>1, <2>2
<1>8. (Starts(s, c + m) <=> Starts(q, m)) /\ (Ends(s, c + m) <=> Ends(q, m))
  <2>1. "<" # "record>" /\ "/" # "record>"
    OBVIOUS
  <2>2. /\ BehindMark(s, c + m, "<") <=> BehindMark(q, m, "<")
        /\ BehindMark(s, c + m, "/") <=> BehindMark(q, m, "/")
    BY <1>7, <2>1
  <2> QED
    BY <1>6, <2>2 DEF Starts, Ends
<1>9. ASSUME ClosesRecord(q, m) PROVE ClosesRecord(s, c + m)
  <2>1. /\ q[m] = "record>" /\ y > 2 /\ q[y - 2] = "<" /\ q[y - 1] = "/"
        /\ y = m \/ q[m - 1] = ":"
    BY <1>9 DEF ClosesRecord
  <2>2. /\ y - 2 \in 1..d /\ y - 1 \in 1..d /\ m - 1 \in 1..d
        /\ c + (y - 2) = (c + y) - 2 /\ c + (y - 1) = (c + y) - 1 /\ c + (m - 1) = (c + m) - 1
        /\ c + y > 2
    <3>1. c \in Nat /\ d \in Nat /\ m \in 1..d /\ y \in 1..m /\ y \in Nat /\ y > 2
      BY <1>1, <1>3, <1>4, <2>1
    <3> HIDE DEF y
    <3> QED
      BY ONLY <3>1
  <2>3. s[(c + y) - 2] = "<" /\ s[(c + y) - 1] = "/" /\ s[(c + m) - 1] = q[m - 1]
    BY <1>1, <2>1, <2>2
  <2> HIDE DEF y
  <2>4. y = m => c + y = c + m
    OBVIOUS
  <2> QED
    BY <1>3, <1>4, <2>1, <2>2, <2>3, <2>4 DEF ClosesRecord
<1> QED
  BY <1>4, <1>8, <1>9 DEF SameTags, c

\* x is what the parser knows when the records r are in front of what it
\* knows in y.
CarriesOn(x, y, r) ==
  /\ x.comment = y.comment
  /\ x.inside = y.inside
  /\ x.inside => x.rec = y.rec
  /\ Joins(x.recs, r, y.recs)

\* That stays so behind a mark of the second part.
LEMMA FollowStep ==
  ASSUME NEW p, NEW q, EndTagCut(p, q), NEW m \in 1..Len(q),
         NEW s \in Seq(Marks), Joins(s, p, q), NEW c \in Nat, c = Len(p), c + m \in 1..Len(s),
         NEW r \in Seq(Seq(Marks)), NEW x \in XmlStates, NEW y \in XmlStates, CarriesOn(x, y, r)
  PROVE  CarriesOn(XmlStep(s, c + m, x), XmlStep(q, m, y), r)
<1> DEFINE n == c + m
           u == XmlStep(s, n, x)
           v == XmlStep(q, m, y)
<1>1. /\ s[n] = q[m]
      /\ Starts(s, n) <=> Starts(q, m)
      /\ Ends(s, n) <=> Ends(q, m)
  BY TagsOfSecond DEF SameTags
<1>2. n \in 1..Len(s) /\ q \in Seq(Marks) /\ m \in 1..Len(q)
  BY DEF EndTagCut
<1>3. /\ x.comment = y.comment /\ x.inside = y.inside
      /\ x.inside => x.rec = y.rec
      /\ Joins(x.recs, r, y.recs)
  BY DEF CarriesOn
<1> HIDE DEF n, u, v
<1>4. CASE x.comment
  <2>1. u = SetComment(x, s[n] # "-->") /\ v = SetComment(y, q[m] # "-->")
    BY <1>2, <1>3, <1>4, XmlSteps DEF u, v
  <2> QED
    BY <1>1, <1>3, <2>1 DEF SetComment, CarriesOn, XmlStates, u, v, n
<1>5. CASE ~x.comment /\ s[n] = "<!--"
  <2>1. u = SetComment(x, TRUE)
    BY <1>2, <1>5, XmlSteps DEF u
  <2>2. ~y.comment /\ q[m] = "<!--"
    BY <1>1, <1>3, <1>5
  <2>3. v = SetComment(y, TRUE)
    BY <1>2, <2>2, XmlSteps DEF v
  <2> QED
    BY <1>1, <1>3, <2>1, <2>3 DEF SetComment, CarriesOn, XmlStates, u, v, n
<1>6. CASE ~x.comment /\ Starts(s, n)
  <2>1. u = BeginRecord(x)
    BY <1>2, <1>6, XmlSteps DEF u
  <2>2. v = BeginRecord(y)
    BY <1>1, <1>2, <1>3, <1>6, XmlSteps DEF v
  <2> QED
    BY <1>1, <1>3, <2>1, <2>2 DEF BeginRecord, CarriesOn, XmlStates, u, v, n
<1>7. CASE ~x.comment /\ Ends(s, n) /\ x.inside
  <2>1. u = EndRecord(x)
    BY <1>2, <1>7, XmlSteps DEF u
  <2>2. v = EndRecord(y)
    BY <1>1, <1>2, <1>3, <1>7, XmlSteps DEF v
  <2>3. y.recs \in Seq(Seq(Marks)) /\ y.rec \in Seq(Marks) /\ x.rec = y.rec
    BY <1>3, <1>7 DEF XmlStates
  <2>4. x.recs = r \o y.recs
    BY <1>3 DEF Joins
  <2>5. Joins(Append(r \o y.recs, y.rec), r, Append(y.recs, y.rec))
    BY <2>3, AppendBehind
  <2>6. Joins(Append(x.recs, x.rec), r, Append(y.recs, y.rec))
    BY <2>3, <2>4, <2>5
  <2> QED
    BY <1>1, <1>3, <2>1, <2>2, <2>6 DEF EndRecord, CarriesOn, XmlStates, u, v, n
<1>8. CASE ~x.comment /\ s[n] \in {"a", "b"}
  <2>1. u = AddText(x, s[n])
    BY <1>2, <1>8, XmlSteps DEF u
  <2>2. v = AddText(y, q[m])
    BY <1>1, <1>2, <1>3, <1>8, XmlSteps DEF v
  <2>3. /\ u.comment = x.comment /\ u.inside = x.inside /\ u.recs = x.recs
        /\ u.rec = Append(x.rec, s[n])
    BY <2>1 DEF AddText, XmlStates
  <2>4. /\ v.comment = y.comment /\ v.inside = y.inside /\ v.recs = y.recs
        /\ v.rec = Append(y.rec, q[m])
    BY <2>2 DEF AddText, XmlStates
  <2>5. x.inside => u.rec = v.rec
    BY <1>1, <1>3, <2>3, <2>4
  <2>6. CarriesOn(u, v, r)
    BY <1>3, <2>3, <2>4, <2>5 DEF CarriesOn
  <2> QED
    BY <2>6 DEF u, v, n
<1>9. CASE /\ ~x.comment /\ s[n] # "<!--" /\ ~Starts(s, n)
           /\ ~(Ends(s, n) /\ x.inside) /\ s[n] \notin {"a", "b"}
  <2>1. u = x
    BY <1>2, <1>9, XmlSteps DEF u
  <2>2. v = y
    BY <1>1, <1>2, <1>3, <1>9, XmlSteps DEF v
  <2> QED
    BY <2>1, <2>2 DEF u, v, n
<1> QED
  BY <1>4, <1>5, <1>6, <1>7, <1>8, <1>9

\* At a cut the parser is neither in a comment nor in a record.
LEMMA AtCut ==
  ASSUME NEW p, NEW q, EndTagCut(p, q), NEW g, XmlRun(g, p)
  PROVE  ~g[Len(p)].comment /\ ~g[Len(p)].inside
<1> DEFINE c == Len(p)
           x == g[c - 1]
           y == g[c]
<1>1. p \in Seq(Marks) /\ c \in Nat /\ c \in 1..Len(p) /\ c > 0
  BY DEF EndTagCut
<1>2. ~y.comment
  BY <1>1, CommentsKnown DEF EndTagCut
<1>3. x \in XmlStates /\ y = XmlStep(p, c, x)
  <2>1. c - 1 \in 0..Len(p)
    BY <1>1
  <2> QED
    BY <1>1, <2>1 DEF XmlRun
<1>4. p[c] = "record>" /\ Ends(p, c) /\ ~Starts(p, c)
  <2> DEFINE k == NameStart(p, c)
  <2>1. p[c] = "record>" /\ k > 2 /\ p[k - 1] = "/" /\ (k = c \/ p[c - 1] = ":")
    BY DEF EndTagCut, ClosesRecord
  <2>2. k \in 1..c
    <3> HIDE DEF c
    <3> QED
      BY <1>1, NameStartType
  <2>3. c \in Nat
    BY <1>1
  <2> HIDE DEF c
  <2>4. k > 1
    <3> HIDE DEF k
    <3> QED
      BY <2>1, <2>2, <2>3
  <2>5. NamesRecord(p, c) /\ BehindMark(p, c, "/")
    BY <2>1, <2>4 DEF NamesRecord, BehindMark
  <2>6. ~BehindMark(p, c, "<")
    BY <2>1 DEF BehindMark
  <2> QED
    BY <2>1, <2>5, <2>6 DEF Ends, Starts
<1> HIDE DEF x, y, c
<1>5. CASE x.comment
  <2>1. y = SetComment(x, p[c] # "-->")
    BY <1>1, <1>3, <1>5, XmlSteps
  <2>2. y.comment
    BY <1>3, <1>4, <2>1 DEF SetComment, XmlStates
  <2> QED
    BY <1>2, <2>2
<1>6. CASE ~x.comment /\ x.inside
  <2>1. y = EndRecord(x)
    BY <1>1, <1>3, <1>4, <1>6, XmlSteps
  <2>2. ~y.inside
    BY <1>3, <2>1 DEF EndRecord, XmlStates
  <2> QED
    BY <1>2, <2>2 DEF y, c
<1>7. CASE ~x.comment /\ ~x.inside
  <2>1. p[c] # "<!--" /\ p[c] \notin {"a", "b"}
    BY <1>4
  <2>2. y = x
    BY <1>1, <1>3, <1>4, <1>7, <2>1, XmlSteps
  <2> QED
    BY <1>2, <1>7, <2>2 DEF y, c
<1> QED
  BY <1>5, <1>6, <1>7

\* Behind a cut the whole is parsed like the second part, with the records
\* of the first in front.
LEMMA XmlRunOfSecond ==
  ASSUME NEW p, NEW q, EndTagCut(p, q), NEW f, NEW h, XmlRun(f, p \o q), XmlRun(h, q),
         ~f[Len(p)].comment, ~f[Len(p)].inside
  PROVE  \A m \in 0..Len(q) : CarriesOn(f[Len(p) + m], h[m], f[Len(p)].recs)
<1> DEFINE s == p \o q
           c == Len(p)
           d == Len(q)
           r == f[c].recs
           T == {n \in Nat : n <= d => CarriesOn(f[c + n], h[n], r)}
<1>1. /\ c \in Nat /\ d \in Nat /\ Len(s) = c + d /\ c = Len(p) /\ d = Len(q)
      /\ p \in Seq(Marks) /\ q \in Seq(Marks) /\ s \in Seq(Marks) /\ s = p \o q
  BY Joined DEF EndTagCut
<1>2. /\ f \in [0..Len(s) -> XmlStates] /\ h \in [0..d -> XmlStates] /\ h[0] = XmlStart
      /\ \A n \in 1..Len(s) : f[n] = XmlStep(s, n, f[n - 1])
      /\ \A n \in 1..d : h[n] = XmlStep(q, n, h[n - 1])
      /\ ~f[c].comment /\ ~f[c].inside
  BY DEF XmlRun
<1> HIDE DEF s, c, d
<1>3. f[c] \in XmlStates /\ \A m \in 0..d : f[c + m] \in XmlStates /\ h[m] \in XmlStates
  <2>1. c \in 0..Len(s) /\ \A m \in 0..d : c + m \in 0..Len(s)
    BY <1>1
  <2> QED
    BY <1>2, <2>1
<1>4. r \in Seq(Seq(Marks))
  BY <1>3 DEF XmlStates
<1>5. 0 \in T
  <2>1. c + 0 = c
    BY <1>1
  <2>2. Joins(r, r, <<>>)
    BY <1>4 DEF Joins
  <2>3. f[c].comment = FALSE /\ f[c].inside = FALSE
    BY <1>2, <1>3 DEF XmlStates
  <2>4. CarriesOn(f[c], XmlStart, r)
    BY <2>2, <2>3 DEF CarriesOn, XmlStart
  <2> QED
    BY <1>2, <2>1, <2>4
<1> HIDE DEF r
<1>6. ASSUME NEW n \in T PROVE n + 1 \in T
  <2> DEFINE m == n + 1
  <2> SUFFICES ASSUME n + 1 <= d PROVE CarriesOn(f[c + m], h[m], r)
    OBVIOUS
  <2>1. n \in Nat /\ (n <= d => CarriesOn(f[c + n], h[n], r))
    OBVIOUS
  <2>2. /\ n \in 0..d /\ m \in 1..d /\ m - 1 = n /\ c + m \in 1..Len(s) /\ (c + m) - 1 = c + n
        /\ n <= d
    BY <1>1, <2>1
  <2> HIDE DEF m
  <2>3. f[c + n] \in XmlStates /\ h[n] \in XmlStates /\ CarriesOn(f[c + n], h[n], r)
    BY <1>3, <2>1, <2>2
  <2>4. f[c + m] = XmlStep(s, c + m, f[c + n]) /\ h[m] = XmlStep(q, m, h[n])
    BY <1>2, <2>2
  <2>5. m \in 1..Len(q)
    BY <1>1, <2>2
  <2>6. Joins(s, p, q)
    BY <1>1 DEF Joins
  <2>7. CarriesOn(XmlStep(s, c + m, f[c + n]), XmlStep(q, m, h[n]), r)
    BY <2>6, <1>1, <1>4, <2>2, <2>3, <2>5, FollowStep
  <2> QED
    BY <2>4, <2>7
<1>7. T \in SUBSET Nat
  OBVIOUS
<1> HIDE DEF T
<1>8. T = Nat
  BY <1>5, <1>6, <1>7, Induct
<1>9. ASSUME NEW m \in 0..d PROVE CarriesOn(f[c + m], h[m], r)
  <2>1. m \in T /\ m <= d
    BY <1>1, <1>8
  <2> QED
    BY <2>1 DEF T
<1> QED
  BY <1>9 DEF c, d, r

\* ParseMarcXml finds in a text cut behind an end tag what it finds in its
\* parts.
LEMMA XmlCut ==
  ASSUME NEW p, NEW q, EndTagCut(p, q)
  PROVE  Joins(ParseMarcXml(p \o q).recs, ParseMarcXml(p).recs, ParseMarcXml(q).recs)
<1> DEFINE s == p \o q
<1>1. /\ p \in Seq(Marks) /\ q \in Seq(Marks) /\ s \in Seq(Marks)
      /\ Len(p) \in Nat /\ Len(q) \in Nat /\ Len(s) = Len(p) + Len(q)
      /\ \A i \in 1..Len(p) : s[i] = p[i]
  BY Joined DEF EndTagCut
<1>2. s = p \o q
  OBVIOUS
<1> HIDE DEF s
<1>3. PICK f : XmlRun(f, s) /\ ParseMarcXml(s).recs = f[Len(s)].recs
  BY <1>1, XmlRuns
<1>4. PICK g : XmlRun(g, p) /\ ParseMarcXml(p).recs = g[Len(p)].recs
  BY <1>1, XmlRuns
<1>5. PICK h : XmlRun(h, q) /\ ParseMarcXml(q).recs = h[Len(q)].recs
  BY <1>1, XmlRuns
<1>6. Begins(s, p)
  BY <1>1 DEF Begins
<1>7. Len(p) \in 0..Len(p) /\ Len(q) \in 0..Len(q)
  BY <1>1
<1>8. f[Len(p)] = g[Len(p)]
  BY <1>1, <1>3, <1>4, <1>6, <1>7, XmlRunOfFirst
<1>9. ~g[Len(p)].comment /\ ~g[Len(p)].inside
  BY <1>4, AtCut
<1>10. XmlRun(f, p \o q)
  BY <1>2, <1>3
<1>11. CarriesOn(f[Len(p) + Len(q)], h[Len(q)], f[Len(p)].recs)
  BY <1>5, <1>7, <1>8, <1>9, <1>10, XmlRunOfSecond
<1>12. Joins(f[Len(s)].recs, g[Len(p)].recs, h[Len(q)].recs)
  BY <1>1, <1>8, <1>11 DEF CarriesOn
<1>13. Joins(ParseMarcXml(s).recs, ParseMarcXml(p).recs, ParseMarcXml(q).recs)
  BY <1>3, <1>4, <1>5, <1>12
<1> QED
  BY <1>2, <1>13

\* What the parser finds is a list of records' texts.
LEMMA XmlRecs ==
  ASSUME NEW s \in Seq(Marks)
  PROVE  ParseMarcXml(s).recs \in Seq(Seq(Marks))
<1>1. PICK f : XmlRun(f, s) /\ ParseMarcXml(s).recs = f[Len(s)].recs
  BY XmlRuns
<1>2. Len(s) \in 0..Len(s)
  OBVIOUS
<1>3. f[Len(s)] \in XmlStates
  BY <1>1, <1>2 DEF XmlRun
<1> QED
  BY <1>1, <1>3 DEF XmlStates

\* No end tag of the second part is commented out if none of the whole is.
LEMMA ShownBehind ==
  ASSUME NEW p, NEW q, EndTagCut(p, q), EndsShown(p \o q)
  PROVE  EndsShown(q)
<1> DEFINE s == p \o q
           c == Len(p)
<1>1. /\ c \in Nat /\ Len(q) \in Nat /\ Len(s) = c + Len(q) /\ c = Len(p) /\ s = p \o q
      /\ \A i \in 1..Len(q) : s[c + i] = q[i]
  BY Joined DEF EndTagCut
<1>2. \A i \in 1..Len(s) : ClosesRecord(s, i) => ~InComment(s, i)
  BY DEF EndsShown
<1> HIDE DEF s, c
<1>3. ASSUME NEW i \in 1..Len(q), ClosesRecord(q, i), InComment(q, i) PROVE FALSE
  <2>1. PICK k \in 1..i : q[k] = "<!--" /\ \A j \in k..i : q[j] # "-->"
    BY <1>3 DEF InComment
  <2>2. c + i \in 1..Len(s) /\ c + k \in 1..(c + i) /\ k \in 1..Len(q)
    BY <1>1
  <2>3. \A j \in (c + k)..(c + i) : s[j] # "-->"
    <3> SUFFICES ASSUME NEW j \in (c + k)..(c + i) PROVE s[j] # "-->"
      OBVIOUS
    <3>1. j - c \in k..i /\ j - c \in 1..Len(q) /\ c + (j - c) = j
      BY <1>1
    <3>2. s[c + (j - c)] = q[j - c] /\ q[j - c] # "-->"
      BY <1>1, <2>1, <3>1
    <3> QED
      BY <3>1, <3>2
  <2>4. s[c + k] = "<!--"
    BY <1>1, <2>1, <2>2
  <2>5. InComment(s, c + i)
    BY <2>2, <2>3, <2>4 DEF InComment
  <2>6. ClosesRecord(s, c + i)
    <3>1. Joins(s, p, q)
      BY <1>1 DEF Joins
    <3> QED
      BY <1>1, <1>3, <3>1, TagsOfSecond DEF SameTags
  <2> QED
    BY <1>2, <2>2, <2>5, <2>6
<1> QED
  BY <1>3 DEF EndsShown

-----------------------------------------------------------------------------
(* AlikeInv is inductive, with SourceInv.                                  *)

\* What is still to be handed out.
Unread == SubSeq(file.text, pos + 1, Len(file.text))
Rest == buf \o Unread

\* The hypothesis: no end tag of a record in the file is commented out.
Shown == file.format = "xml" => EndsShown(file.text)

\* The inductive invariant behind SlicesParseLikeWhole: the records of the
\* slices and of what is still to be handed out are those of the file.
AlikeInv ==
  /\ drained \/ ended => Rest = <<>>
  /\ Shown => (file.format = "xml" => EndsShown(Rest))
  /\ Shown => Joins(Parse(file.text).recs, SliceRecords, Parse(Rest).recs)

\* What a record is to the parser of the format.
Kind == IF file.format = "xml" THEN Seq(Marks) ELSE Seq(Seq(Marks))

\* The parsers find a list of records.
LEMMA ParseIn ==
  ASSUME NEW s \in Seq(Marks)
  PROVE  Parse(s).recs \in Seq(Kind)
<1>1. CASE file.format = "xml"
  <2>1. Parse(s) = ParseMarcXml(s) /\ Kind = Seq(Marks)
    BY <1>1 DEF Parse, Kind
  <2> QED
    BY <2>1, XmlRecs
<1>2. CASE file.format # "xml"
  <2>1. Parse(s) = ParseBreaker(s) /\ Kind = Seq(Seq(Marks))
    BY <1>2 DEF Parse, Kind
  <2>2. PICK f : BreakerRun(f, s) /\ ParseBreaker(s).recs = f[Len(s)]
    BY BreakerRuns
  <2>3. Len(s) \in 0..Len(s)
    OBVIOUS
  <2>4. f[Len(s)] \in Lists
    BY <2>2, <2>3 DEF BreakerRun
  <2> QED
    BY <2>1, <2>2, <2>4 DEF Lists
<1> QED
  BY <1>1, <1>2

\* Nothing is found in nothing.
LEMMA ParseNothing == Parse(<<>>).recs = <<>>
<1>1. <<>> \in Seq(Marks) /\ Len(<<>>) = 0
  OBVIOUS
<1>2. PICK f : BreakerRun(f, <<>>) /\ ParseBreaker(<<>>).recs = f[Len(<<>>)]
  BY <1>1, BreakerRuns
<1>3. PICK g : XmlRun(g, <<>>) /\ ParseMarcXml(<<>>).recs = g[Len(<<>>)].recs
  BY <1>1, XmlRuns
<1>4. f[0] = <<>> /\ g[0].recs = <<>>
  BY <1>2, <1>3 DEF BreakerRun, XmlRun, XmlStart
<1> QED
  BY <1>1, <1>2, <1>3, <1>4 DEF Parse

\* The first boundary of a breaker text is behind a line and in front of a
\* leader.
LEMMA BoundaryCuts ==
  ASSUME NEW s \in Seq(Marks), file.format # "xml", NEW i \in Boundaries(s)
  PROVE  /\ i \in 1..Len(s) /\ i + 1 \in 1..Len(s) /\ i + 2 \in 1..Len(s)
         /\ s[i] = "nl" /\ s[i + 1] = "=" /\ s[i + 2] = "LDR"
<1>1. PICK k \in LeaderLines(s) :
        i = k - 1 /\ ~(k = First(LeaderLines(s)) /\ ~HasContentBefore(s, k))
  BY DEF Boundaries, BreakerBoundaries
<1>2. /\ k \in 1..Len(s) /\ k < Len(s) /\ s[k] = "=" /\ s[k + 1] = "LDR"
      /\ k = 1 \/ s[k - 1] = "nl"
      /\ Len(s) \in Nat /\ k \in Nat
  BY <1>1 DEF LeaderLines, LineStarts
<1>3. k # 1
  <2> SUFFICES ASSUME k = 1 PROVE FALSE
    OBVIOUS
  <2> DEFINE f == First(LeaderLines(s))
  <2>1. LeaderLines(s) \in SUBSET Nat /\ \A j \in LeaderLines(s) : j >= 1 /\ j \in Nat
    BY <1>2, LeadersType
  <2>2. f \in LeaderLines(s) /\ \A j \in LeaderLines(s) : f <= j
    BY <1>1, <2>1, FirstLeast
  <2> HIDE DEF f
  <2>3. f <= k /\ f >= 1 /\ f \in Nat
    BY <1>1, <2>1, <2>2
  <2>4. k = f
    BY <1>2, <2>3
  <2>5. ~HasContentBefore(s, k)
    <3> DEFINE decisive == {j \in LineStarts(s) : j < k /\ s[j] \notin {"nl", "blank"}}
    <3>1. \A j \in LineStarts(s) : j \in Nat /\ j >= 1
      BY <1>2 DEF LineStarts
    <3>2. decisive = {}
      BY <3>1
    <3> QED
      BY <3>2 DEF HasContentBefore
  <2> QED
    BY <1>1, <2>4, <2>5 DEF f
<1>4. i \in 1..Len(s) /\ i + 1 = k /\ i + 2 = k + 1 /\ k + 1 \in 1..Len(s) /\ s[i] = "nl"
  BY <1>1, <1>2, <1>3
<1> QED
  BY <1>2, <1>4

\* A text that begins with s cut at a boundary of s is parsed like its parts.
LEMMA CutIsAlike ==
  ASSUME NEW s \in Seq(Marks), NEW after \in Seq(Marks), NEW i \in Boundaries(s),
         file.format = "xml" => EndsShown(s \o after),
         NEW p \in Seq(Marks), NEW q \in Seq(Marks),
         p = SubSeq(s, 1, i), q = SubSeq(s, i + 1, Len(s)) \o after, Joins(s \o after, p, q)
  PROVE  /\ Joins(Parse(s \o after).recs, Parse(p).recs, Parse(q).recs)
         /\ file.format = "xml" => EndsShown(q)
         /\ Len(p) > 0
<1> DEFINE t == s \o after
           back == SubSeq(s, i + 1, Len(s))
<1>1. /\ t \in Seq(Marks) /\ Len(s) \in Nat /\ Len(after) \in Nat /\ Len(t) = Len(s) + Len(after)
      /\ \A k \in 1..Len(s) : t[k] = s[k]
  BY Joined
<1>2. i \in 0..Len(s)
  BY <1>1, BoundariesType
<1>3. /\ Len(p) = i /\ Begins(s, p) /\ \A k \in 1..i : p[k] = s[k]
      /\ back \in Seq(Marks) /\ Len(back) = Len(s) - i
      /\ \A k \in 1..(Len(s) - i) : back[k] = s[i + k]
  BY <1>2, Parted, CutAt
<1>4. t = p \o q
  BY DEF Joins
<1>5. Begins(t, p)
  <2>1. \A k \in 1..Len(p) : p[k] = t[k]
    BY <1>1, <1>2, <1>3
  <2> QED
    BY <1>1, <1>2, <1>3, <2>1 DEF Begins
<1> HIDE DEF back
<1>6. CASE file.format = "xml"
  <2>1. i \in 1..Len(s) /\ ClosesRecord(s, i)
    BY <1>6 DEF Boundaries
  <2>2. i \in 1..Len(p) /\ Len(p) > 0 /\ i \in 1..Len(t)
    BY <1>1, <1>3, <2>1
  <2>3. ClosesRecord(p, i)
    BY <1>3, <2>1, <2>2, ClosesInBeginning
  <2>4. ClosesRecord(t, i)
    BY <1>5, <2>2, <2>3, ClosesInBeginning
  <2>5. ~InComment(t, i)
    BY <1>6, <2>2, <2>4 DEF EndsShown
  <2>6. ~InComment(p, i)
    <3> SUFFICES ASSUME NEW k \in 1..i, p[k] = "<!--", \A j \in k..i : p[j] # "-->"
                 PROVE  FALSE
      BY DEF InComment
    <3>1. \A j \in k..i : j \in 1..Len(p) /\ t[j] = p[j]
      BY <1>3, <1>5, <2>1 DEF Begins
    <3>2. t[k] = "<!--" /\ \A j \in k..i : t[j] # "-->"
      BY <1>2, <3>1
    <3> QED
      BY <2>5, <3>2 DEF InComment
  <2>7. EndTagCut(p, q)
    BY <1>3, <2>2, <2>3, <2>6 DEF EndTagCut
  <2> HIDE DEF t
  <2>8. EndsShown(q)
    <3>1. EndsShown(p \o q)
      BY <1>4, <1>6 DEF t
    <3> QED
      BY <2>7, <3>1, ShownBehind
  <2>9. Joins(ParseMarcXml(t).recs, ParseMarcXml(p).recs, ParseMarcXml(q).recs)
    <3>1. Joins(ParseMarcXml(p \o q).recs, ParseMarcXml(p).recs, ParseMarcXml(q).recs)
      BY <2>7, XmlCut
    <3> QED
      BY <1>4, <3>1
  <2>10. Parse(t) = ParseMarcXml(t) /\ Parse(p) = ParseMarcXml(p) /\ Parse(q) = ParseMarcXml(q)
    BY <1>6 DEF Parse
  <2> QED
    BY <2>2, <2>8, <2>9, <2>10 DEF t
<1>7. CASE file.format # "xml"
  <2>1. /\ i \in 1..Len(s) /\ i + 1 \in 1..Len(s) /\ i + 2 \in 1..Len(s)
        /\ s[i] = "nl" /\ s[i + 1] = "=" /\ s[i + 2] = "LDR"
    BY <1>7, BoundaryCuts
  <2>2. Len(p) > 0 /\ p[Len(p)] = "nl"
    BY <1>2, <1>3, <2>1
  <2>3. /\ Len(q) = Len(back) + Len(after) /\ \A k \in 1..Len(back) : q[k] = back[k]
    BY <1>3, Joined DEF back
  <2>4. 1 \in 1..Len(back) /\ 2 \in 1..Len(back) /\ back[1] = "=" /\ back[2] = "LDR"
    <3>1. 1 \in 1..(Len(s) - i) /\ 2 \in 1..(Len(s) - i)
      BY <1>1, <1>2, <2>1
    <3> QED
      BY <1>3, <2>1, <3>1
  <2>5. q[1] = "=" /\ q[1 + 1] = "LDR" /\ 1 < Len(q) /\ 1 \in 1..Len(q)
    <3>1. Len(back) \in Nat /\ Len(back) >= 2
      BY <1>1, <1>2, <1>3, <2>1
    <3>2. Len(q) \in Nat /\ Len(q) > 1
      BY <1>1, <2>3, <3>1
    <3>3. q[1] = "=" /\ q[2] = "LDR"
      BY <2>3, <2>4
    <3> QED
      BY ONLY <3>2, <3>3
  <2>6. 1 \in LeaderLines(q)
    BY <2>5 DEF LeaderLines, LineStarts
  <2>7. LeaderCut(p, q)
    BY <2>2, <2>6 DEF LeaderCut
  <2> HIDE DEF t
  <2>8. Joins(ParseBreaker(t).recs, ParseBreaker(p).recs, ParseBreaker(q).recs)
    <3>1. Joins(ParseBreaker(p \o q).recs, ParseBreaker(p).recs, ParseBreaker(q).recs)
      BY <2>7, BreakerCut
    <3> QED
      BY <1>4, <3>1
  <2>9. Parse(t) = ParseBreaker(t) /\ Parse(p) = ParseBreaker(p) /\ Parse(q) = ParseBreaker(q)
    BY <1>7 DEF Parse
  <2> QED
    BY <1>7, <2>2, <2>8, <2>9 DEF t
<1> QED
  BY <1>6, <1>7

\* The records of the slices are a list of records.
LEMMA SliceRecordsIn ==
  ASSUME TypeOK
  PROVE  SliceRecords \in Seq(Kind)
<1> DEFINE found == [k \in DOMAIN slices |-> Parse(slices[k]).recs]
<1>1. slices \in Seq(Seq(Marks)) /\ Len(slices) \in Nat /\ DOMAIN slices = 1..Len(slices)
  BY DEF TypeOK
<1>2. \A k \in DOMAIN slices : Parse(slices[k]).recs \in Seq(Kind)
  BY <1>1, ParseIn
<1>3. found \in Seq(Seq(Kind))
  BY <1>1, <1>2, IsASeq
<1> HIDE DEF found
<1>4. FlattenSeq(found) \in Seq(Kind)
  BY <1>3, FlattenIn
<1> QED
  BY <1>4 DEF found, SliceRecords

\* A slice adds its records to those of the slices before it.
LEMMA MoreRecords ==
  ASSUME TypeOK, NEW slice \in Seq(Marks), file' = file, slices' = Append(slices, slice)
  PROVE  Joins(SliceRecords', SliceRecords, Parse(slice).recs)
<1> DEFINE found == [k \in DOMAIN slices |-> Parse(slices[k]).recs]
           new == Parse(slice).recs
           more == [k \in DOMAIN slices' |-> Parse(slices'[k]).recs]
           N == Len(slices)
<1>1. slices \in Seq(Seq(Marks)) /\ N \in Nat /\ DOMAIN slices = 1..N
  BY DEF TypeOK
<1>2. /\ slices' \in Seq(Seq(Marks)) /\ DOMAIN slices' = 1..(N + 1)
      /\ \A k \in 1..N : slices'[k] = slices[k]
      /\ slices'[N + 1] = slice
  <2>1. /\ slices' \in Seq(Seq(Marks)) /\ Len(slices') = N + 1
        /\ \A k \in 1..N : slices'[k] = slices[k]
        /\ slices'[N + 1] = slice
    BY <1>1, AppendProperties
  <2> QED
    BY <2>1
<1>3. \A k \in DOMAIN slices : Parse(slices[k]).recs \in Seq(Kind)
  BY <1>1, ParseIn
<1>4. found \in Seq(Seq(Kind)) /\ Len(found) = N /\ \A k \in 1..N : found[k] = Parse(slices[k]).recs
  <2>1. found \in Seq(Seq(Kind))
    BY <1>1, <1>3, IsASeq
  <2> QED
    BY <1>1, <2>1
<1>5. new \in Seq(Kind)
  BY ParseIn
<1>6. \A k \in DOMAIN slices' : Parse(slices'[k]).recs \in Seq(Kind)
  BY <1>2, ParseIn
<1>7. /\ more \in Seq(Seq(Kind)) /\ Len(more) = N + 1
      /\ \A k \in 1..(N + 1) : more[k] = Parse(slices'[k]).recs
  <2>1. N + 1 \in Nat
    BY <1>1
  <2>2. more \in Seq(Seq(Kind))
    BY <1>2, <1>6, <2>1, IsASeq
  <2> QED
    BY <1>2, <2>1, <2>2
<1>8. SliceRecords = FlattenSeq(found) /\ SliceRecords' = FlattenSeq(more)
  BY DEF SliceRecords, Parse
<1> HIDE DEF found, more, new, N
<1>9. more = Append(found, new)
  <2> DEFINE both == Append(found, new)
  <2>1. /\ both \in Seq(Seq(Kind)) /\ Len(both) = N + 1
        /\ \A k \in 1..N : both[k] = found[k]
        /\ both[N + 1] = new
    BY <1>4, <1>5, AppendProperties
  <2> HIDE DEF both
  <2>2. ASSUME NEW k \in 1..(N + 1) PROVE more[k] = both[k]
    <3>1. CASE k \in 1..N
      BY <1>2, <1>4, <1>7, <2>1, <3>1
    <3>2. CASE k = N + 1
      BY <1>2, <1>7, <2>1, <3>2 DEF new
    <3> QED
      BY <1>1, <3>1, <3>2
  <2>3. more = both
    BY <1>1, <1>7, <2>1, <2>2, SeqEqual
  <2> QED
    BY <2>3 DEF both
<1>10. FlattenSeq(Append(found, new)) = FlattenSeq(found) \o new
  BY <1>4, <1>5, FlattenAppend
<1> QED
  BY <1>8, <1>9, <1>10 DEF Joins, new

\* Three lists in a row.
LEMMA JoinsThree ==
  ASSUME NEW S, NEW a \in Seq(S), NEW b \in Seq(S), NEW c \in Seq(S),
         NEW w, NEW bc, NEW ab, Joins(w, a, bc), Joins(bc, b, c), Joins(ab, a, b)
  PROVE  Joins(w, ab, c)
<1>1. w = a \o bc /\ bc = b \o c /\ ab = a \o b
  BY DEF Joins
<1>2. (a \o b) \o c = a \o (b \o c)
  BY ONLY a \in Seq(S), b \in Seq(S), c \in Seq(S), ConcatAssociative
<1>3. w = ab \o c
  BY <1>1, <1>2
<1> QED
  BY <1>3 DEF Joins

\* Handing out the beginning of what is still to be handed out keeps the
\* invariant.
LEMMA HandOut ==
  ASSUME TypeOK, AlikeInv, NEW slice \in Seq(Marks), file' = file, slices' = Append(slices, slice),
         Rest' \in Seq(Marks), drained' \/ ended' => Rest' = <<>>,
         Shown => /\ Joins(Parse(Rest).recs, Parse(slice).recs, Parse(Rest').recs)
                  /\ file.format = "xml" => EndsShown(Rest')
  PROVE  AlikeInv'
<1>1. (Shown => (file.format = "xml" => EndsShown(Rest)))'
  BY DEF Shown
<1>2. (drained \/ ended => Rest = <<>>)'
  OBVIOUS
<1>3. ASSUME Shown PROVE Joins(Parse(file.text).recs, SliceRecords', Parse(Rest').recs)
  <2>1. Joins(Parse(file.text).recs, SliceRecords, Parse(Rest).recs)
    BY <1>3 DEF AlikeInv
  <2>2. Joins(Parse(Rest).recs, Parse(slice).recs, Parse(Rest').recs)
    BY <1>3
  <2>3. Joins(SliceRecords', SliceRecords, Parse(slice).recs)
    BY MoreRecords
  <2>4. /\ SliceRecords \in Seq(Kind) /\ Parse(slice).recs \in Seq(Kind)
        /\ Parse(Rest').recs \in Seq(Kind)
    BY SliceRecordsIn, ParseIn
  <2> QED
    BY <2>1, <2>2, <2>3, <2>4, JoinsThree
<1>4. (Shown => Joins(Parse(file.text).recs, SliceRecords, Parse(Rest).recs))'
  <2>1. Shown' = Shown /\ Parse(file.text)' = Parse(file.text) /\ Parse(Rest)' = Parse(Rest')
    BY DEF Shown, Parse
  <2> QED
    BY <1>3, <2>1
<1> QED
  BY <1>1, <1>2, <1>4 DEF AlikeInv

\* Cutting a slice off hands out the beginning.
LEMMA TakeSliceAlike == SourceInv /\ AlikeInv /\ TakeSlice => AlikeInv'
<1> SUFFICES ASSUME SourceInv, AlikeInv, TakeSlice PROVE AlikeInv'
  OBVIOUS
<1> DEFINE end == First(Boundaries(buf))
           p == SubSeq(buf, 1, end)
           back == SubSeq(buf, end + 1, Len(buf))
           q == back \o Unread
<1>1. /\ slices' = Append(slices, p) /\ buf' = back
      /\ file' = file /\ pos' = pos /\ drained' = drained /\ ended' = ended
      /\ Boundaries(buf) # {}
  BY DEF TakeSlice
<1>2. TypeOK
  BY DEF SourceInv
<1>3. Unread \in Seq(Marks) /\ buf \in Seq(Marks) /\ Len(buf) \in Nat
  BY <1>2, Texts DEF Unread
<1>4. Boundaries(buf) \in SUBSET Nat /\ \A i \in Boundaries(buf) : i \in 0..Len(buf)
  BY <1>3, BoundariesType
<1>5. end \in Boundaries(buf) /\ end \in 0..Len(buf)
  BY <1>1, <1>4, FirstLeast
<1>6. Rest' = q
  BY <1>1 DEF Rest, Unread
<1> HIDE DEF end
<1>7. p \in Seq(Marks) /\ Len(p) = end /\ back \in Seq(Marks) /\ p \o back = buf
  BY <1>3, <1>5, CutAt
<1>8. q \in Seq(Marks)
  BY <1>3, <1>7
<1>9. Joins(buf \o Unread, p, q)
  <2> HIDE DEF p, back
  <2>1. (p \o back) \o Unread = p \o (back \o Unread)
    <3>1. p \in Seq(Marks) /\ back \in Seq(Marks) /\ Unread \in Seq(Marks)
      BY <1>3, <1>7
    <3> QED
      BY ONLY <3>1, ConcatAssociative
  <2> QED
    BY <1>7, <2>1 DEF Joins
<1>10. ASSUME file.format = "xml" => EndsShown(Rest)
       PROVE  /\ Joins(Parse(Rest).recs, Parse(p).recs, Parse(q).recs)
              /\ file.format = "xml" => EndsShown(q)
  <2>1. file.format = "xml" => EndsShown(buf \o Unread)
    BY <1>10 DEF Rest
  <2>2. /\ Joins(Parse(buf \o Unread).recs, Parse(p).recs, Parse(q).recs)
        /\ file.format = "xml" => EndsShown(q)
    BY <1>3, <1>5, <1>7, <1>8, <1>9, <2>1, CutIsAlike
  <2> QED
    BY <2>2 DEF Rest
<1>11. ~(drained \/ ended)
  <2> SUFFICES ASSUME Rest = <<>> PROVE FALSE
    BY DEF AlikeInv
  <2>1. Len(buf \o Unread) = Len(buf) + Len(Unread) /\ Len(Unread) \in Nat
    BY <1>3, Joined
  <2>2. Len(buf) = 0
    BY <1>3, <2>1 DEF Rest
  <2>3. buf = <<>>
    BY <1>3, <2>2
  <2>4. Boundaries(buf) = {}
    <3>1. ASSUME NEW i \in Boundaries(buf) PROVE FALSE
      <4>1. CASE file.format = "xml"
        BY <2>2, <3>1, <4>1 DEF Boundaries
      <4>2. CASE file.format # "xml"
        <5>1. i \in 1..Len(buf)
          BY <1>3, <3>1, <4>2, BoundaryCuts
        <5> QED
          BY <2>2, <5>1
      <4> QED
        BY <4>1, <4>2
    <3> QED
      BY <3>1
  <2> QED
    BY <1>1, <2>4
<1> HIDE DEF p, q
<1>12. Shown => /\ Joins(Parse(Rest).recs, Parse(p).recs, Parse(Rest').recs)
                /\ file.format = "xml" => EndsShown(Rest')
  BY <1>6, <1>10 DEF AlikeInv
<1> QED
  BY <1>1, <1>2, <1>6, <1>7, <1>8, <1>11, <1>12, HandOut

\* A read moves marks from the file to the buffer.
LEMMA FillAlike == SourceInv /\ AlikeInv /\ Fill => AlikeInv'
<1> SUFFICES ASSUME SourceInv, AlikeInv, Fill PROVE AlikeInv'
  OBVIOUS
<1>1. PICK n \in 1..READ_CHUNK :
        /\ n <= Len(file.text) - pos
        /\ buf' = buf \o SubSeq(file.text, pos + 1, pos + n)
        /\ pos' = pos + n
  BY DEF Fill
<1>2. file' = file /\ drained' = drained /\ slices' = slices /\ ended' = ended
  BY DEF Fill
<1> DEFINE text == file.text
           chunk == SubSeq(text, pos + 1, pos + n)
           after == SubSeq(text, pos + n + 1, Len(text))
<1>3. /\ text \in Seq(Marks) /\ Len(text) \in Nat /\ pos \in 0..Len(text)
      /\ buf \in Seq(Marks) /\ READ_CHUNK \in Nat
  BY Texts, SourceAssumption DEF SourceInv
<1>4. pos + 1 \in 1..(Len(text) + 1) /\ pos + n \in 0..Len(text) /\ n \in Nat /\ n <= READ_CHUNK
      /\ pos + n \in (pos + 1) - 1..Len(text) /\ Len(text) \in pos + n..Len(text)
  BY <1>1, <1>3
<1> HIDE DEF text
<1>5. /\ chunk \in Seq(Marks) /\ after \in Seq(Marks)
      /\ chunk \o after = SubSeq(text, pos + 1, Len(text))
  <2>1. \A i \in (pos + 1)..(pos + n) : text[i] \in Marks
    BY <1>3, <1>4
  <2>2. chunk \in Seq(Marks)
    BY <1>3, <1>4, <2>1, SubSeqProperties
  <2>3. after \in Seq(Marks)
    BY <1>3, <1>4, CutAt
  <2>4. SubSeq(text, pos + 1, pos + n) \o SubSeq(text, pos + n + 1, Len(text))
          = SubSeq(text, pos + 1, Len(text))
    BY <1>3, <1>4, ConcatAdjacentSubSeq
  <2> QED
    BY <2>2, <2>3, <2>4
<1>6. Unread = SubSeq(text, pos + 1, Len(text)) /\ Unread' = after /\ buf' = buf \o chunk
  BY <1>1, <1>2 DEF Unread, text
<1> HIDE DEF chunk, after
<1>7. (buf \o chunk) \o after = buf \o (chunk \o after)
  <2>1. buf \in Seq(Marks) /\ chunk \in Seq(Marks) /\ after \in Seq(Marks)
    BY <1>3, <1>5
  <2> QED
    BY ONLY <2>1, ConcatAssociative
<1>8. Rest' = Rest
  BY <1>5, <1>6, <1>7 DEF Rest
<1> QED
  BY <1>2, <1>8 DEF AlikeInv, Shown, SliceRecords, Parse

\* At the end of the file all that is left is handed out.
LEMMA DrainAlike == SourceInv /\ AlikeInv /\ Drain => AlikeInv'
<1> SUFFICES ASSUME SourceInv, AlikeInv, Drain PROVE AlikeInv'
  OBVIOUS
<1>1. /\ file' = file /\ pos' = pos /\ pos = Len(file.text)
  BY DEF Drain, AtEnd
<1>2. TypeOK
  BY DEF SourceInv
<1>3. /\ buf \in Seq(Marks) /\ file.text \in Seq(Marks) /\ Len(file.text) \in Nat
  BY <1>2, Texts
<1>4. Unread = <<>> /\ Unread' = <<>>
  BY <1>1, <1>3 DEF Unread
<1>5. Rest = buf
  BY <1>3, <1>4 DEF Rest
<1>6. CASE buf = <<>>
  <2>1. buf' = buf /\ slices' = slices
    BY <1>6 DEF Drain
  <2>2. Rest' = <<>> /\ Rest = <<>>
    BY <1>4, <1>5, <1>6, <2>1 DEF Rest
  <2> QED
    BY <1>1, <2>1, <2>2 DEF AlikeInv, Shown, SliceRecords, Parse
<1>7. CASE buf # <<>>
  <2>1. slices' = Append(slices, buf) /\ buf' = <<>>
    BY <1>7 DEF Drain
  <2>2. Rest' = <<>>
    BY <1>4, <2>1 DEF Rest
  <2>3. Joins(Parse(Rest).recs, Parse(buf).recs, Parse(Rest').recs)
    <3>1. Parse(buf).recs \in Seq(Kind)
      BY <1>3, ParseIn
    <3> DEFINE recs == Parse(buf).recs
    <3>2. recs \o <<>> = recs
      <4> HIDE DEF recs
      <4> QED
        BY <3>1 DEF recs
    <3> QED
      BY <1>5, <2>2, <3>2, ParseNothing DEF Joins
  <2>4. EndsShown(<<>>)
    BY DEF EndsShown
  <2>5. Rest' \in Seq(Marks)
    BY <2>2
  <2> QED
    BY <1>1, <1>2, <1>3, <2>1, <2>2, <2>3, <2>4, <2>5, HandOut
<1> QED
  BY <1>6, <1>7

\* Nothing is read yet and nothing handed out.
LEMMA InitAlike == Init => AlikeInv
<1> SUFFICES ASSUME Init PROVE AlikeInv
  OBVIOUS
<1>1. pos = 0 /\ buf = <<>> /\ drained = FALSE /\ slices = <<>> /\ ended = FALSE
  BY DEF Init
<1>2. file.text \in Seq(Marks)
  BY SourceAssumption DEF Init, Files
<1>3. Rest = file.text
  <2>1. SubSeq(file.text, 0 + 1, Len(file.text)) = file.text
    BY <1>2
  <2>2. <<>> \o file.text = file.text
    BY <1>2
  <2> QED
    BY <1>1, <2>1, <2>2 DEF Rest, Unread
<1>4. SliceRecords = <<>>
  <2>1. [k \in DOMAIN slices |-> Parse(slices[k]).recs] = <<>>
    BY <1>1
  <2>2. FlattenSeq(<<>>) = <<>>
    BY DEF FlattenSeq
  <2> QED
    BY <2>1, <2>2 DEF SliceRecords
<1>5. Joins(Parse(file.text).recs, <<>>, Parse(file.text).recs)
  <2> DEFINE recs == Parse(file.text).recs
  <2>1. recs \in Seq(Kind)
    BY <1>2, ParseIn
  <2>2. <<>> \o recs = recs
    <3> HIDE DEF recs
    <3> QED
      BY <2>1
  <2> QED
    BY <2>2 DEF Joins
<1> QED
  BY <1>1, <1>3, <1>4, <1>5 DEF AlikeInv, Shown

\* What the invariant says of the records.
LEMMA AlikeSays ==
  ASSUME TypeOK, AlikeInv, Shown
  PROVE  SlicesParseLikeWhole
<1> DEFINE whole == Parse(file.text).recs
           sofar == SliceRecords
           more == Parse(Rest).recs
<1>1. Rest \in Seq(Marks)
  BY Texts DEF Rest, Unread
<1>2. sofar \in Seq(Kind) /\ more \in Seq(Kind)
  BY <1>1, SliceRecordsIn, ParseIn
<1>3. whole = sofar \o more
  BY DEF AlikeInv, Joins
<1>4. ended => more = <<>>
  BY ParseNothing DEF AlikeInv
<1> HIDE DEF whole, sofar, more
<1>5. /\ whole \in Seq(Kind) /\ Len(sofar) \in Nat /\ Len(more) \in Nat
      /\ Len(whole) = Len(sofar) + Len(more)
      /\ \A i \in 1..Len(sofar) : whole[i] = sofar[i]
  BY <1>2, <1>3, Joined
<1>6. IsPrefix(sofar, whole)
  <2> DEFINE N == Len(sofar)
             a == SubSeq(sofar, 1, N)
             b == SubSeq(whole, 1, N)
  <2>1. N \in 0..Len(sofar) /\ N \in 0..Len(whole) /\ N \in Nat /\ N = Len(sofar)
    BY <1>5
  <2> HIDE DEF N
  <2>2. a \in Seq(Kind) /\ Len(a) = N /\ \A i \in 1..N : a[i] = sofar[i]
    BY <1>2, <2>1, Parted
  <2>3. b \in Seq(Kind) /\ Len(b) = N /\ \A i \in 1..N : b[i] = whole[i]
    BY <1>5, <2>1, Parted
  <2> HIDE DEF a, b
  <2>4. \A i \in 1..N : a[i] = b[i]
    BY <1>5, <2>1, <2>2, <2>3
  <2>5. a = b
    BY <2>1, <2>2, <2>3, <2>4, SeqEqual
  <2> QED
    BY <1>5, <2>1, <2>5 DEF IsPrefix, a, b
<1>7. ended => sofar = whole
  BY <1>2, <1>3, <1>4
<1> QED
  BY <1>6, <1>7 DEF SlicesParseLikeWhole, whole, sofar

-----------------------------------------------------------------------------
(* The theorems.                                                           *)

\* The slices and the buffer are what was read, and the buffer's boundaries
\* came with the last read.
THEOREM Inductive == Spec => []SourceInv
<1>1. SourceInv /\ [Next]_vars => SourceInv'
  <2> SUFFICES ASSUME SourceInv, [Next]_vars PROVE SourceInv'
    OBVIOUS
  <2>1. CASE TakeSlice
    BY <2>1, TakeSliceStep
  <2>2. CASE Fill
    BY <2>2, FillStep
  <2>3. CASE Drain
    BY <2>3, DrainStep
  <2>4. CASE ReturnFalse
    BY <2>4, QuietStep DEF ReturnFalse, SourceInv, TypeOK
  <2>5. CASE UNCHANGED vars
    BY <2>5, QuietStep DEF vars, SourceInv, TypeOK
  <2> QED
    BY <2>1, <2>2, <2>3, <2>4, <2>5 DEF Next, Ended
<1> QED
  BY <1>1, InitInv, PTL DEF Spec

\* Wherever the reads end, the text source hands out the whole file, nothing
\* of it lost, repeated or moved.
THEOREM Whole == Spec => []NothingLost
<1>1. SourceInv => NothingLost
  BY DEF SourceInv
<1> QED
  BY <1>1, Inductive, PTL

\* No slice holds more than one record's mark, and neither does the buffer but
\* for what the last read brought.
THEOREM OneRecord == Spec => []OneMarkPerSlice
<1>1. SourceInv => OneMarkPerSlice
  <2> SUFFICES ASSUME SourceInv PROVE OneMarkPerSlice
    OBVIOUS
  <2>1. TypeOK /\ BoundariesAreNew
        /\ \A k \in 1..Len(slices) : \A i, j \in RecordMarks(slices[k]) : i = j
    BY DEF SourceInv
  <2>2. buf \in Seq(Marks) /\ Len(buf) \in Nat /\ READ_CHUNK \in Nat \ {0} /\ DOMAIN slices = 1..Len(slices)
    BY <2>1, Texts, SourceAssumption
  <2> DEFINE old == SubSeq(buf, 1, Len(buf) - READ_CHUNK)
  <2>3. CASE Len(buf) - READ_CHUNK < 0
    <3>1. Len(old) = 0
      BY <2>2, <2>3
    <3> HIDE DEF old
    <3>2. RecordMarks(old) = {}
      BY <3>1 DEF RecordMarks, LeaderLines, LineStarts
    <3> QED
      BY <2>1, <2>2, <3>2 DEF OneMarkPerSlice, old
  <2>4. CASE Len(buf) - READ_CHUNK \in 0..Len(buf)
    <3>1. Len(old) = Len(buf) - READ_CHUNK /\ Begins(buf, old)
      BY <2>2, <2>4, CutAt
    <3>2. \A i \in Boundaries(buf) : i \in Nat
      BY <2>2, BoundariesType
    <3>3. \A i \in Boundaries(buf) : Len(old) < i + (IF file.format = "xml" THEN 1 ELSE 2)
      BY <2>1, <2>2, <3>1, <3>2 DEF BoundariesAreNew
    <3>4. \A i, j \in RecordMarks(old) : i = j
      BY <3>1, <3>3, OneMark
    <3> QED
      BY <2>1, <2>2, <3>4 DEF OneMarkPerSlice
  <2> QED
    BY <2>2, <2>3, <2>4
<1> QED
  BY <1>1, Inductive, PTL

\* The records of the slices are at every moment the first records of the
\* file, and at its end all of them: for MARCXML, in a file where no comment
\* hides a record's end tag.  Where one does the cutter and the parser
\* disagree, which is what the run text_comments shows.
THEOREM Alike == Spec => []((file.format = "xml" => EndsShown(file.text)) => SlicesParseLikeWhole)
<1>1. Init => AlikeInv
  BY InitAlike
<1>2. SourceInv /\ AlikeInv /\ [Next]_vars => AlikeInv'
  <2> SUFFICES ASSUME SourceInv, AlikeInv, [Next]_vars PROVE AlikeInv'
    OBVIOUS
  <2>1. CASE TakeSlice
    BY <2>1, TakeSliceAlike
  <2>2. CASE Fill
    BY <2>2, FillAlike
  <2>3. CASE Drain
    BY <2>3, DrainAlike
  <2>4. CASE ReturnFalse
    <3>1. UNCHANGED <<file, pos, buf, drained, slices>> /\ drained
      BY <2>4 DEF ReturnFalse
    <3> QED
      BY <3>1 DEF AlikeInv, Shown, SliceRecords, Parse, Rest, Unread
  <2>5. CASE UNCHANGED vars
    BY <2>5 DEF vars, AlikeInv, Shown, SliceRecords, Parse, Rest, Unread
  <2> QED
    BY <2>1, <2>2, <2>3, <2>4, <2>5 DEF Next, Ended
<1>3. SourceInv /\ AlikeInv => ((file.format = "xml" => EndsShown(file.text)) => SlicesParseLikeWhole)
  BY AlikeSays DEF SourceInv, Shown
<1> QED
  BY <1>1, <1>2, <1>3, Inductive, PTL DEF Spec
=============================================================================
