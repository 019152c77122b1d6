--------------------------- MODULE Catalog_proofs ---------------------------
(***************************************************************************)
(* Proofs about RecordEdit and Catalog, for any records, selectors,        *)
(* rewritings, merges and links, any table of spellings and chains of any  *)
(* length, of edits alone and of edits and cataloguing operations:         *)
(*                                                                         *)
(*   - a field is of the kind its tag says;                                *)
(*   - a record in tag order stays so under all edits that neither retag   *)
(*     fields nor append them;                                             *)
(*   - no edit loses, repeats, changes or reorders fields of other tags    *)
(*     than those it is about;                                             *)
(*   - merging the same record once more changes nothing;                  *)
(*   - a diff leaves out nothing but what is the same in both records;     *)
(*   - generating 33X fields, expanding abbreviations and linking          *)
(*     headings settle after one pass;                                     *)
(*   - MARCspec's ranges partition what they are ranges of.                *)
(*                                                                         *)
(* Most of it is about ElementsAt, by which the edits pick fields: the     *)
(* fields of some tags are followed through every edit (Having), lists     *)
(* that are put together from others are taken apart again (Apart), and    *)
(* the elements of a list are told by the positions they come from         *)
(* (Places).                                                               *)
(***************************************************************************)
EXTENDS Catalog, GeneralFacts

-----------------------------------------------------------------------------
(***************************************************************************)
(* ElementsAt.                                                             *)
(***************************************************************************)

\* What the function behind ElementsAt is, in terms of itself.
PickRule(g, s, P) ==
  [n \in 0..Len(s) |->
     IF n = 0 THEN <<>> ELSE IF n \in P THEN Append(g[n - 1], s[n]) ELSE g[n - 1]]

\* There is such a function.
LEMMA PickExists ==
  ASSUME NEW S, NEW s \in Seq(S), NEW P
  PROVE  \E f : f = PickRule(f, s, P)
<1> DEFINE N == Len(s)
           step == [p \in (1..N) \X Seq(S) |->
                      IF p[1] \in P THEN Append(p[2], s[p[1]]) ELSE p[2]]
<1>1. N \in Nat /\ (\A n \in 1..N : s[n] \in S) /\ <<>> \in Seq(S)
  OBVIOUS
<1> HIDE DEF N
<1>2. step \in [(1..N) \X Seq(S) -> Seq(S)]
  <2> SUFFICES ASSUME NEW n \in 1..N, NEW x \in Seq(S)
               PROVE  (IF n \in P THEN Append(x, s[n]) ELSE x) \in Seq(S)
    OBVIOUS
  <2> QED
    BY <1>1
<1>3. ASSUME NEW n \in 1..N, NEW x \in Seq(S)
      PROVE  step[<<n, x>>] = IF n \in P THEN Append(x, s[n]) ELSE x
  OBVIOUS
<1> HIDE DEF step
<1>4. PICK f \in [0..N -> Seq(S)] :
        f[0] = <<>> /\ \A n \in 1..N : f[n] = step[<<n, f[n - 1]>>]
  <2>1. step \in Steps(1..N, Seq(S))
    BY <1>2 DEF Steps
  <2>2. \E f : RecursiveUpTo(N, f, Seq(S), <<>>, step)
    BY <1>1, <2>1, BoundedRecursion
  <2> QED
    BY <2>2 DEF RecursiveUpTo
<1>5. ASSUME NEW n \in 0..N
      PROVE  f[n] = IF n = 0 THEN <<>>
                    ELSE IF n \in P THEN Append(f[n - 1], s[n]) ELSE f[n - 1]
  <2>1. CASE n = 0
    BY <2>1, <1>1, <1>4
  <2>2. CASE n # 0
    <3>1. n \in 1..N /\ n - 1 \in 0..N
      BY <2>2, <1>1
    <3>2. f[n - 1] \in Seq(S)
      BY <3>1
    <3> QED
      BY <3>1, <3>2, <2>2, <1>3, <1>4
  <2> QED
    BY <2>1, <2>2
<1>6. f = PickRule(f, s, P)
  BY <1>5 DEF PickRule, N
<1> QED
  BY <1>6

\* pos are the positions, in order, that the elements of e had in s: all
\* those up to n that are in P.
Places(pos, e, n, s, P) ==
  /\ pos \in [1..Len(e) -> 1..n]
  /\ \A k \in 1..Len(e) : pos[k] \in P /\ e[k] = s[pos[k]]
  /\ \A k, l \in 1..Len(e) : k < l => pos[k] < pos[l]
  /\ \A p \in 1..n : p \in P => \E k \in 1..Len(e) : pos[k] = p
  /\ \A b \in 0..n : 1..b \subseteq P => b <= Len(e) /\ \A k \in 1..b : pos[k] = k

\* One more element.
LEMMA PlacesStep ==
  ASSUME NEW S, NEW s \in Seq(S), NEW P, NEW n \in Nat, n + 1 <= Len(s),
         NEW e \in Seq(S), Len(e) <= n, NEW pos, Places(pos, e, n, s, P), n + 1 \in P
  PROVE  \E more : Places(more, Append(e, s[n + 1]), n + 1, s, P)
<1> DEFINE L == Len(e)
           a == Append(e, s[n + 1])
           more == [k \in 1..(L + 1) |-> IF k = L + 1 THEN n + 1 ELSE pos[k]]
<1>1. L \in 0..n /\ s[n + 1] \in S
  OBVIOUS
<1>2. Len(a) = L + 1 /\ (\A k \in 1..L : a[k] = e[k]) /\ a[L + 1] = s[n + 1]
  BY <1>1
<1> HIDE DEF a
<1>3. pos \in [1..L -> 1..n]
  BY DEF Places
<1> HIDE DEF L
<1>4. /\ \A k \in 1..(L + 1) : k \in 1..L \/ k = L + 1
      /\ \A k \in 1..L : k \in 1..(L + 1) /\ k # L + 1
      /\ L + 1 \in 1..(L + 1)
  BY <1>1
<1>5. \A k \in 1..L : pos[k] \in 1..n /\ pos[k] \in 1..(n + 1)
  BY <1>3
<1>6. more[L + 1] = n + 1
  BY <1>1, <1>4
<1>7. \A k \in 1..L : more[k] = pos[k]
  BY <1>1, <1>4
<1>8. more \in [1..(L + 1) -> 1..(n + 1)]
  <2> SUFFICES ASSUME NEW k \in 1..(L + 1)
               PROVE  (IF k = L + 1 THEN n + 1 ELSE pos[k]) \in 1..(n + 1)
    OBVIOUS
  <2>1. n + 1 \in 1..(n + 1)
    OBVIOUS
  <2> QED
    BY <1>4, <1>5, <2>1
<1> HIDE DEF more
<1>9. \A k \in 1..(L + 1) : more[k] \in P /\ a[k] = s[more[k]]
  <2> SUFFICES ASSUME NEW k \in 1..(L + 1) PROVE more[k] \in P /\ a[k] = s[more[k]]
    OBVIOUS
  <2>1. CASE k \in 1..L
    BY <2>1, <1>2, <1>4, <1>5, <1>6, <1>7 DEF Places, L
  <2>2. CASE k = L + 1
    BY <2>2, <1>2, <1>4, <1>5, <1>6, <1>7
  <2> QED
    BY <2>1, <2>2, <1>4, <1>5, <1>6, <1>7
<1>10. \A k, l \in 1..(L + 1) : k < l => more[k] < more[l]
  <2> SUFFICES ASSUME NEW k \in 1..(L + 1), NEW l \in 1..(L + 1), k < l
               PROVE  more[k] < more[l]
    OBVIOUS
  <2>1. k \in 1..L /\ more[k] = pos[k] /\ pos[k] \in 1..n
    BY <1>1, <1>4, <1>5, <1>6, <1>7
  <2>2. CASE l \in 1..L
    BY <2>1, <2>2, <1>4, <1>5, <1>6, <1>7 DEF Places, L
  <2>3. CASE l = L + 1
    BY <2>1, <2>3, <1>4, <1>5, <1>6, <1>7
  <2> QED
    BY <2>2, <2>3, <1>4, <1>5, <1>6, <1>7
<1>11. \A p \in 1..(n + 1) : p \in P => \E k \in 1..(L + 1) : more[k] = p
  <2> SUFFICES ASSUME NEW p \in 1..(n + 1), p \in P PROVE \E k \in 1..(L + 1) : more[k] = p
    OBVIOUS
  <2>1. CASE p \in 1..n
    <3>1. PICK k \in 1..L : pos[k] = p
      BY <2>1 DEF Places, L
    <3> QED
      BY <3>1, <1>4, <1>5, <1>6, <1>7
  <2>2. CASE p = n + 1
    BY <2>2, <1>4, <1>5, <1>6, <1>7
  <2> QED
    BY <2>1, <2>2
<1>12. \A b \in 0..(n + 1) : 1..b \subseteq P => b <= L + 1 /\ \A k \in 1..b : more[k] = k
  <2> SUFFICES ASSUME NEW b \in 0..(n + 1), 1..b \subseteq P
               PROVE  b <= L + 1 /\ \A k \in 1..b : more[k] = k
    OBVIOUS
  <2>1. CASE b \in 0..n
    <3>1. b <= L /\ \A k \in 1..b : pos[k] = k
      BY <2>1 DEF Places, L
    <3>2. \A k \in 1..b : k \in 1..L
      BY <3>1, <1>1
    <3> QED
      BY <3>1, <3>2, <1>1, <1>4, <1>5, <1>6, <1>7
  <2>2. CASE b = n + 1
    <3>1. n \in 0..n /\ 1..n \subseteq P
      BY <2>2
    <3>2. n <= L /\ \A k \in 1..n : pos[k] = k
      BY <3>1 DEF Places, L
    <3>3. L = n
      BY <3>2, <1>1
    <3> QED
      BY <2>2, <3>2, <3>3, <1>4, <1>5, <1>6, <1>7
  <2> QED
    BY <2>1, <2>2
<1>13. Places(more, a, n + 1, s, P)
  BY <1>2, <1>8, <1>9, <1>10, <1>11, <1>12 DEF Places
<1> QED
  BY <1>13 DEF a

\* One more element that is left out.
LEMMA PlacesSkip ==
  ASSUME NEW s, NEW P, NEW n \in Nat, NEW e, Len(e) \in 0..n, NEW pos,
         Places(pos, e, n, s, P), n + 1 \notin P
  PROVE  Places(pos, e, n + 1, s, P)
<1>1. pos \in [1..Len(e) -> 1..(n + 1)]
  BY DEF Places
<1>2. \A p \in 1..(n + 1) : p \in P => p \in 1..n
  OBVIOUS
<1>3. \A b \in 0..(n + 1) : 1..b \subseteq P => b \in 0..n
  <2> SUFFICES ASSUME NEW b \in 0..(n + 1), 1..b \subseteq P, b = n + 1 PROVE FALSE
    OBVIOUS
  <2>1. n + 1 \in 1..b
    OBVIOUS
  <2> QED
    BY <2>1
<1> QED
  BY <1>1, <1>2, <1>3 DEF Places

\* ElementsAt takes the elements at the positions, all of them, in order.
LEMMA Picked ==
  ASSUME NEW S, NEW s \in Seq(S), NEW P
  PROVE  /\ ElementsAt(s, P) \in Seq(S)
         /\ \E pos : Places(pos, ElementsAt(s, P), Len(s), s, P)
<1> DEFINE f == CHOOSE upto : upto = PickRule(upto, s, P)
           N == Len(s)
<1>1. ElementsAt(s, P) = f[N]
  BY DEF ElementsAt, PickRule
<1>2. f = PickRule(f, s, P)
  <2>1. \E upto : upto = PickRule(upto, s, P)
    BY PickExists
  <2> QED
    BY <2>1
<1> HIDE DEF f
<1>3. N \in Nat /\ (\A n \in 1..N : s[n] \in S) /\ N = Len(s)
  OBVIOUS
<1> HIDE DEF N
<1>4. \A n \in 0..N :
        f[n] = IF n = 0 THEN <<>> ELSE IF n \in P THEN Append(f[n - 1], s[n]) ELSE f[n - 1]
  BY <1>2, <1>3 DEF PickRule
<1> DEFINE OK(n) == f[n] \in Seq(S) /\ Len(f[n]) <= n /\ \E pos : Places(pos, f[n], n, s, P)
           T == {n \in Nat : n <= N => OK(n)}
<1>5. 0 \in T
  <2>1. f[0] = <<>>
    BY <1>3, <1>4
  <2>2. <<>> \in Seq(S) /\ Len(<<>>) = 0 /\ 1..0 = {}
    OBVIOUS
  <2>3. Places([k \in 1..0 |-> k], <<>>, 0, s, P)
    BY <2>2 DEF Places
  <2>4. OK(0)
    BY <2>1, <2>2, <2>3
  <2> HIDE DEF OK
  <2> QED
    BY <2>4
<1>6. ASSUME NEW n \in T PROVE n + 1 \in T
  <2> SUFFICES ASSUME n + 1 <= N PROVE OK(n + 1)
    OBVIOUS
  <2>1. n \in Nat /\ n + 1 \in 0..N /\ n + 1 \in 1..N /\ n + 1 # 0 /\ (n + 1) - 1 = n /\ n <= N
    BY <1>3
  <2>2. OK(n)
    BY <2>1
  <2>3. PICK pos : Places(pos, f[n], n, s, P)
    BY <2>2
  <2> HIDE DEF T
  <2>4. f[n + 1] = IF n + 1 \in P THEN Append(f[n], s[n + 1]) ELSE f[n]
    BY <1>4, <2>1
  <2> DEFINE e == f[n]
  <2>5. e \in Seq(S) /\ Len(e) \in Nat /\ Len(e) <= n /\ s[n + 1] \in S /\ n + 1 <= Len(s)
    BY <1>3, <2>1, <2>2
  <2>6. Places(pos, e, n, s, P)
    BY <2>3
  <2>7. f[n + 1] = IF n + 1 \in P THEN Append(e, s[n + 1]) ELSE e
    BY <2>4
  <2> HIDE DEF e
  <2>8. CASE n + 1 \in P
    <3>1. \E more : Places(more, Append(e, s[n + 1]), n + 1, s, P)
      BY <2>1, <2>5, <2>6, <2>8, PlacesStep
    <3>2. Append(e, s[n + 1]) \in Seq(S) /\ Len(Append(e, s[n + 1])) <= n + 1
      <4>1. Append(e, s[n + 1]) \in Seq(S) /\ Len(Append(e, s[n + 1])) = Len(e) + 1
        BY ONLY <2>5, AppendProperties
      <4> QED
        BY <2>1, <2>5, <4>1
    <3> QED
      BY <2>7, <2>8, <3>1, <3>2
  <2>9. CASE n + 1 \notin P
    <3>1. Len(e) \in 0..n /\ Len(e) <= n + 1
      BY <2>1, <2>5
    <3>2. Places(pos, e, n + 1, s, P)
      BY <2>1, <2>6, <2>9, <3>1, PlacesSkip
    <3> QED
      BY <2>5, <2>7, <2>9, <3>1, <3>2
  <2> QED
    BY <2>8, <2>9
<1> HIDE DEF T, OK
<1>7. T = Nat
  BY <1>5, <1>6, Induct DEF T
<1>8. OK(N)
  BY <1>3, <1>7 DEF T
<1> QED
  BY <1>1, <1>8 DEF OK, N

\* Every sequence is made by appending.
LEMMA ByAppending ==
  ASSUME NEW S, NEW T \in SUBSET Seq(S), <<>> \in T,
         \A s \in T : \A x \in S : Append(s, x) \in T
  PROVE  T = Seq(S)
<1> DEFINE L == {n \in Nat : \A s \in Seq(S) : Len(s) = n => s \in T}
<1>1. 0 \in L
  <2> SUFFICES ASSUME NEW s \in Seq(S), Len(s) = 0 PROVE s \in T
    OBVIOUS
  <2>1. s = <<>>
    OBVIOUS
  <2> QED
    BY <2>1
<1>2. ASSUME NEW n \in L PROVE n + 1 \in L
  <2> SUFFICES ASSUME NEW s \in Seq(S), Len(s) = n + 1 PROVE s \in T
    OBVIOUS
  <2>1. s # <<>>
    OBVIOUS
  <2>2. PICK t \in Seq(S) : \E x \in S : s = Append(t, x)
    BY <2>1, SequenceEmptyOrAppend
  <2>3. PICK x \in S : s = Append(t, x)
    BY <2>2
  <2>4. Len(s) = Len(t) + 1 /\ Len(t) \in Nat
    BY <2>3, AppendProperties, LenProperties
  <2>5. Len(t) = n
    BY <2>4
  <2> QED
    BY <2>3, <2>5
<1> HIDE DEF L
<1>3. L = Nat
  BY <1>1, <1>2, Induct DEF L
<1>4. ASSUME NEW s \in Seq(S) PROVE s \in T
  <2>1. Len(s) \in L
    BY <1>3
  <2> QED
    BY <2>1 DEF L
<1> QED
  BY <1>4

\* The elements at the positions among the first n, as a function of n.
Upto(s, P) == CHOOSE upto : upto = PickRule(upto, s, P)

\* It is what PickRule says, and ElementsAt is its last value.
LEMMA UptoIs ==
  ASSUME NEW S, NEW s \in Seq(S), NEW P
  PROVE  /\ Upto(s, P)[0] = <<>>
         /\ \A n \in 1..Len(s) :
              Upto(s, P)[n] = IF n \in P THEN Append(Upto(s, P)[n - 1], s[n]) ELSE Upto(s, P)[n - 1]
         /\ ElementsAt(s, P) = Upto(s, P)[Len(s)]
<1> DEFINE f == Upto(s, P)
           N == Len(s)
<1>1. ElementsAt(s, P) = f[N]
  BY DEF ElementsAt, PickRule, Upto
<1>2. f = PickRule(f, s, P)
  <2>1. \E upto : upto = PickRule(upto, s, P)
    BY PickExists
  <2> QED
    BY <2>1 DEF Upto
<1>3. N \in Nat /\ N = Len(s)
  OBVIOUS
<1> HIDE DEF f, N
<1>4. \A n \in 0..N :
        f[n] = IF n = 0 THEN <<>> ELSE IF n \in P THEN Append(f[n - 1], s[n]) ELSE f[n - 1]
  BY <1>2, <1>3 DEF PickRule
<1>5. f[0] = <<>> /\ \A n \in 1..N : f[n] = IF n \in P THEN Append(f[n - 1], s[n]) ELSE f[n - 1]
  BY <1>3, <1>4
<1> QED
  BY <1>1, <1>5 DEF f, N

\* The same of the first m elements is selected in both sequences.
Alike(s, P, t, Q, m) ==
  /\ m <= Len(s) /\ m <= Len(t)
  /\ \A n \in 1..m : (n \in P <=> n \in Q) /\ (n \in P => s[n] = t[n])

\* Two selections agree as far as the positions and the elements at them do.
LEMMA PicksAgree ==
  ASSUME NEW S, NEW s \in Seq(S), NEW t \in Seq(S), NEW P, NEW Q, NEW m \in Nat,
         Alike(s, P, t, Q, m)
  PROVE  Upto(s, P)[m] = Upto(t, Q)[m]
<1> DEFINE f == Upto(s, P)
           g == Upto(t, Q)
           T == {n \in Nat : n <= m => f[n] = g[n]}
<1>1. /\ f[0] = <<>> /\ g[0] = <<>>
      /\ \A n \in 1..Len(s) : f[n] = IF n \in P THEN Append(f[n - 1], s[n]) ELSE f[n - 1]
      /\ \A n \in 1..Len(t) : g[n] = IF n \in Q THEN Append(g[n - 1], t[n]) ELSE g[n - 1]
  BY UptoIs
<1>2. Len(s) \in Nat /\ Len(t) \in Nat
  OBVIOUS
<1> HIDE DEF f, g
<1>3. 0 \in T
  BY <1>1
<1>4. ASSUME NEW n \in T PROVE n + 1 \in T
  <2> SUFFICES ASSUME n + 1 <= m PROVE f[n + 1] = g[n + 1]
    OBVIOUS
  <2>1. /\ n \in Nat /\ n <= m /\ (n + 1) - 1 = n /\ n + 1 \in 1..m
        /\ n + 1 \in 1..Len(s) /\ n + 1 \in 1..Len(t)
    BY <1>2 DEF Alike
  <2>2. f[n] = g[n]
    BY <2>1
  <2>3. /\ f[n + 1] = IF n + 1 \in P THEN Append(f[n], s[n + 1]) ELSE f[n]
        /\ g[n + 1] = IF n + 1 \in Q THEN Append(g[n], t[n + 1]) ELSE g[n]
    BY <1>1, <2>1
  <2>4. (n + 1 \in P <=> n + 1 \in Q) /\ (n + 1 \in P => s[n + 1] = t[n + 1])
    BY <2>1 DEF Alike
  <2> HIDE DEF T
  <2> QED
    BY <2>2, <2>3, <2>4
<1> HIDE DEF T
<1>5. T = Nat
  BY <1>3, <1>4, Induct DEF T
<1>6. m \in T
  BY <1>5
<1> QED
  BY <1>6 DEF T, f, g

\* In particular when both are of the same length.
LEMMA SamePicks ==
  ASSUME NEW S, NEW s \in Seq(S), NEW t \in Seq(S), NEW P, NEW Q, Len(s) = Len(t),
         Alike(s, P, t, Q, Len(s))
  PROVE  ElementsAt(s, P) = ElementsAt(t, Q)
<1>1. ElementsAt(s, P) = Upto(s, P)[Len(s)] /\ ElementsAt(t, Q) = Upto(t, Q)[Len(t)]
  BY UptoIs
<1>2. Len(s) \in Nat
  OBVIOUS
<1>3. Upto(s, P)[Len(s)] = Upto(t, Q)[Len(s)]
  BY <1>2, PicksAgree
<1> QED
  BY <1>1, <1>3

\* Nothing is selected from nothing.
LEMMA PickEmpty ==
  ASSUME NEW P
  PROVE  ElementsAt(<<>>, P) = <<>>
<1> DEFINE S == {}
<1>1. <<>> \in Seq(S) /\ Len(<<>>) = 0
  OBVIOUS
<1>2. ElementsAt(<<>>, P) = Upto(<<>>, P)[Len(<<>>)] /\ Upto(<<>>, P)[0] = <<>>
  BY <1>1, UptoIs
<1> QED
  BY <1>1, <1>2

\* One more element.
LEMMA PickAppend ==
  ASSUME NEW S, NEW s \in Seq(S), NEW x \in S, NEW P
  PROVE  ElementsAt(Append(s, x), P) =
           IF Len(s) + 1 \in P THEN Append(ElementsAt(s, P), x) ELSE ElementsAt(s, P)
<1> DEFINE L == Len(s)
           t == Append(s, x)
<1>1. /\ L \in Nat /\ L <= Len(s) /\ L <= Len(t) /\ t \in Seq(S) /\ Len(t) = L + 1 /\ (L + 1) - 1 = L
      /\ L + 1 \in 1..Len(t) /\ t[L + 1] = x /\ \A n \in 1..L : t[n] = s[n]
  BY AppendProperties, LenProperties
<1> HIDE DEF t
<1>2. Upto(t, P)[L] = Upto(s, P)[L]
  <2>1. Alike(t, P, s, P, L)
    BY <1>1 DEF Alike
  <2> HIDE DEF L
  <2> QED
    BY <1>1, <2>1, PicksAgree
<1>3. ElementsAt(s, P) = Upto(s, P)[L]
  BY UptoIs
<1>4. /\ ElementsAt(t, P) = Upto(t, P)[Len(t)]
      /\ \A n \in 1..Len(t) :
           Upto(t, P)[n] = IF n \in P THEN Append(Upto(t, P)[n - 1], t[n]) ELSE Upto(t, P)[n - 1]
  BY <1>1, UptoIs
<1> HIDE DEF L
<1>5. Upto(t, P)[L + 1] = IF L + 1 \in P THEN Append(Upto(t, P)[L], x) ELSE Upto(t, P)[L]
  BY <1>1, <1>4
<1> QED
  BY <1>1, <1>2, <1>3, <1>4, <1>5 DEF L, t

\* Appending to the second of two sequences.
AppendsBehind(a, b, x) == Append(a \o b, x) = a \o Append(b, x)

\* See AppendsBehind.
LEMMA AppendJoined ==
  ASSUME NEW S, NEW a \in Seq(S), NEW b \in Seq(S), NEW x \in S
  PROVE  AppendsBehind(a, b, x)
BY DEF AppendsBehind

\* Two sequences, one behind the other.
PickedApart(s, t, P) ==
  ElementsAt(s \o t, P) = ElementsAt(s, P) \o ElementsAt(t, {k \in 1..Len(t) : Len(s) + k \in P})

\* See PickedApart.
LEMMA PickJoined ==
  ASSUME NEW S, NEW s \in Seq(S), NEW t \in Seq(S), NEW P
  PROVE  PickedApart(s, t, P)
<1> DEFINE Q(r) == {k \in 1..Len(r) : Len(s) + k \in P}
           T == {r \in Seq(S) : ElementsAt(s \o r, P) = ElementsAt(s, P) \o ElementsAt(r, Q(r))}
<1>1. ElementsAt(s, P) \in Seq(S) /\ <<>> \in Seq(S)
  BY Picked
<1>2. <<>> \in T
  <2>1. s \o <<>> = s /\ ElementsAt(s, P) \o <<>> = ElementsAt(s, P)
    BY <1>1, ConcatEmptySeq
  <2>2. ElementsAt(<<>>, Q(<<>>)) = <<>>
    BY PickEmpty
  <2> QED
    BY <1>1, <2>1, <2>2
<1>3. ASSUME NEW r \in T, NEW x \in S PROVE Append(r, x) \in T
  <2> DEFINE q == Append(r, x)
             a == ElementsAt(s, P)
             b == ElementsAt(r, Q(r))
  <2>1. r \in Seq(S) /\ ElementsAt(s \o r, P) = a \o b
    OBVIOUS
  <2>2. q \in Seq(S) /\ Len(q) = Len(r) + 1 /\ Len(r) \in Nat /\ Len(s) \in Nat
    BY <2>1, AppendProperties, LenProperties
  <2>3. s \o r \in Seq(S) /\ Len(s \o r) = Len(s) + Len(r)
    BY <2>1, ConcatProperties
  <2>4. s \o q = Append(s \o r, x)
    BY <2>1
  <2>5. ElementsAt(s \o q, P) = IF Len(s) + Len(r) + 1 \in P THEN Append(a \o b, x) ELSE a \o b
    <3>1. PICK w \in Seq(S) : w = s \o r
      BY <2>3
    <3>2. Len(w) + 1 = Len(s) + Len(r) + 1 /\ ElementsAt(w, P) = a \o b /\ s \o q = Append(w, x)
      BY <2>1, <2>3, <2>4, <3>1
    <3>3. ElementsAt(Append(w, x), P)
            = IF Len(w) + 1 \in P THEN Append(ElementsAt(w, P), x) ELSE ElementsAt(w, P)
      BY ONLY w \in Seq(S), x \in S, PickAppend
    <3> HIDE DEF a, b, q
    <3> QED
      BY ONLY <3>2, <3>3
  <2>6. ElementsAt(q, Q(q)) = IF Len(r) + 1 \in Q(q) THEN Append(ElementsAt(r, Q(q)), x) ELSE ElementsAt(r, Q(q))
    <3>1. PICK X : X = Q(q)
      OBVIOUS
    <3>2. ElementsAt(Append(r, x), X)
            = IF Len(r) + 1 \in X THEN Append(ElementsAt(r, X), x) ELSE ElementsAt(r, X)
      BY ONLY r \in Seq(S), x \in S, PickAppend
    <3> HIDE DEF Q
    <3> QED
      BY ONLY <3>1, <3>2
  <2>7. ElementsAt(r, Q(q)) = b
    <3>1. Alike(r, Q(q), r, Q(r), Len(r))
      BY <2>2 DEF Alike
    <3> HIDE DEF Q
    <3> QED
      BY <2>1, <3>1, SamePicks
  <2>8. Len(r) + 1 \in Q(q) <=> Len(s) + Len(r) + 1 \in P
    BY <2>2
  <2>9. a \in Seq(S) /\ b \in Seq(S)
    BY <1>1, <2>1, Picked
  <2> HIDE DEF Q, a, b
  <2>10. Append(a \o b, x) = a \o Append(b, x)
    <3>1. AppendsBehind(a, b, x)
      BY <2>9, AppendJoined
    <3> QED
      BY ONLY <3>1 DEF AppendsBehind
  <2>11. ElementsAt(s \o q, P) = a \o ElementsAt(q, Q(q))
    BY <2>5, <2>6, <2>7, <2>8, <2>10
  <2> QED
    BY <2>2, <2>11 DEF a
<1>4. T \in SUBSET Seq(S) /\ <<>> \in T /\ \A r \in T : \A x \in S : Append(r, x) \in T
  BY <1>2, <1>3
<1> HIDE DEF T
<1>5. T = Seq(S)
  BY <1>4, ByAppending
<1>6. t \in T
  BY <1>5
<1> QED
  BY <1>6 DEF T, PickedApart

\* All the positions.
LEMMA PickAll ==
  ASSUME NEW S, NEW s \in Seq(S), NEW P, 1..Len(s) \subseteq P
  PROVE  ElementsAt(s, P) = s
<1> DEFINE T == {r \in Seq(S) : 1..Len(r) \subseteq P => ElementsAt(r, P) = r}
<1>1. <<>> \in T
  BY PickEmpty
<1>2. ASSUME NEW r \in T, NEW x \in S PROVE Append(r, x) \in T
  <2>1. r \in Seq(S) /\ Len(r) \in Nat /\ Append(r, x) \in Seq(S) /\ Len(Append(r, x)) = Len(r) + 1
    BY AppendProperties, LenProperties
  <2>2. SUFFICES ASSUME 1..(Len(r) + 1) \subseteq P PROVE ElementsAt(Append(r, x), P) = Append(r, x)
    BY <2>1
  <2>3. 1..Len(r) \subseteq P /\ Len(r) + 1 \in P
    BY <2>1, <2>2
  <2>4. ElementsAt(r, P) = r
    BY <2>3
  <2> QED
    BY <2>1, <2>3, <2>4, PickAppend
<1>3. T \in SUBSET Seq(S) /\ <<>> \in T /\ \A r \in T : \A x \in S : Append(r, x) \in T
  BY <1>1, <1>2
<1> HIDE DEF T
<1>4. T = Seq(S)
  BY <1>3, ByAppending
<1>5. s \in T
  BY <1>4
<1> QED
  BY <1>5 DEF T

\* None of the positions.
LEMMA PickNone ==
  ASSUME NEW S, NEW s \in Seq(S), NEW P, \A n \in 1..Len(s) : n \notin P
  PROVE  ElementsAt(s, P) = <<>>
<1> DEFINE T == {r \in Seq(S) : (\A n \in 1..Len(r) : n \notin P) => ElementsAt(r, P) = <<>>}
<1>1. <<>> \in T
  BY PickEmpty
<1>2. ASSUME NEW r \in T, NEW x \in S PROVE Append(r, x) \in T
  <2>1. r \in Seq(S) /\ Len(r) \in Nat /\ Append(r, x) \in Seq(S) /\ Len(Append(r, x)) = Len(r) + 1
    BY AppendProperties, LenProperties
  <2>2. SUFFICES ASSUME \A n \in 1..(Len(r) + 1) : n \notin P
                 PROVE  ElementsAt(Append(r, x), P) = <<>>
    BY <2>1
  <2>3. (\A n \in 1..Len(r) : n \notin P) /\ Len(r) + 1 \notin P
    BY <2>1, <2>2
  <2>4. ElementsAt(r, P) = <<>>
    BY <2>3
  <2> QED
    BY <2>1, <2>3, <2>4, PickAppend
<1>3. T \in SUBSET Seq(S) /\ <<>> \in T /\ \A r \in T : \A x \in S : Append(r, x) \in T
  BY <1>1, <1>2
<1> HIDE DEF T
<1>4. T = Seq(S)
  BY <1>3, ByAppending
<1>5. s \in T
  BY <1>4
<1> QED
  BY <1>5 DEF T
-----------------------------------------------------------------------------
(***************************************************************************)
(* The elements of a sequence that are in a set.                           *)
(***************************************************************************)

Those(s, X) == ElementsAt(s, {i \in 1..Len(s) : s[i] \in X})

\* One more element.
LEMMA ThoseAppend ==
  ASSUME NEW S, NEW s \in Seq(S), NEW f \in S, NEW X
  PROVE  Those(Append(s, f), X) =
           IF f \in X THEN Append(Those(s, X), f) ELSE Those(s, X)
<1> DEFINE t == Append(s, f)
           P == {i \in 1..Len(s) : s[i] \in X}
           Q == {i \in 1..Len(t) : t[i] \in X}
<1>1. /\ Len(s) \in Nat /\ t \in Seq(S) /\ Len(t) = Len(s) + 1
      /\ t[Len(s) + 1] = f /\ \A n \in 1..Len(s) : t[n] = s[n]
  BY AppendProperties, LenProperties
<1> HIDE DEF t
<1>2. Alike(s, Q, s, P, Len(s))
  BY <1>1 DEF Alike
<1>3. Len(s) + 1 \in Q <=> f \in X
  BY <1>1
<1>4. Those(s, X) = ElementsAt(s, P) /\ Those(t, X) = ElementsAt(t, Q)
  BY DEF Those
<1> HIDE DEF P, Q
<1>5. ElementsAt(s, Q) = ElementsAt(s, P)
  BY <1>2, SamePicks
<1>6. ElementsAt(Append(s, f), Q) =
        IF Len(s) + 1 \in Q THEN Append(ElementsAt(s, Q), f) ELSE ElementsAt(s, Q)
  BY PickAppend
<1> QED
  BY <1>3, <1>4, <1>5, <1>6 DEF t

\* Two sequences, one behind the other.
ThoseApart(s, t, X) == Those(s \o t, X) = Those(s, X) \o Those(t, X)

\* See ThoseApart.
LEMMA ThoseJoined ==
  ASSUME NEW S, NEW s \in Seq(S), NEW t \in Seq(S), NEW X
  PROVE  ThoseApart(s, t, X)
<1> DEFINE w == s \o t
           P == {i \in 1..Len(w) : w[i] \in X}
           R == {k \in 1..Len(t) : Len(s) + k \in P}
           Ps == {i \in 1..Len(s) : s[i] \in X}
           Pt == {i \in 1..Len(t) : t[i] \in X}
<1>1. /\ w \in Seq(S) /\ Len(w) = Len(s) + Len(t)
      /\ \A i \in 1..Len(s) : w[i] = s[i]
      /\ \A i \in 1..Len(t) : w[Len(s) + i] = t[i]
  BY Joined
<1>2. Len(s) \in Nat /\ Len(t) \in Nat
  OBVIOUS
<1>3. Those(w, X) = ElementsAt(w, P) /\ Those(s, X) = ElementsAt(s, Ps) /\ Those(t, X) = ElementsAt(t, Pt)
  BY DEF Those
<1>4. PickedApart(s, t, P)
  BY PickJoined
<1> HIDE DEF w
<1>5. Alike(s, P, s, Ps, Len(s))
  BY <1>1, <1>2 DEF Alike
<1>6. Alike(t, R, t, Pt, Len(t))
  <2>1. ASSUME NEW n \in 1..Len(t) PROVE n \in R <=> n \in Pt
    <3>1. Len(s) + n \in 1..Len(w) /\ w[Len(s) + n] = t[n]
      BY <1>1, <1>2
    <3> QED
      BY <3>1
  <2> QED
    BY <1>2, <2>1 DEF Alike
<1> HIDE DEF P, R, Ps, Pt
<1>7. ElementsAt(s, P) = ElementsAt(s, Ps)
  BY <1>5, SamePicks
<1>8. ElementsAt(t, R) = ElementsAt(t, Pt)
  BY <1>6, SamePicks
<1> QED
  BY <1>3, <1>4, <1>7, <1>8 DEF w, R, ThoseApart, PickedApart

\* All elements, and none.
LEMMA ThoseAll ==
  ASSUME NEW S, NEW s \in Seq(S), NEW X, \A i \in 1..Len(s) : s[i] \in X
  PROVE  Those(s, X) = s
<1> DEFINE P == {i \in 1..Len(s) : s[i] \in X}
<1>1. 1..Len(s) \subseteq P
  OBVIOUS
<1> HIDE DEF P
<1>2. ElementsAt(s, P) = s
  BY <1>1, PickAll
<1> QED
  BY <1>2 DEF Those, P

\* See ThoseAll.
LEMMA ThoseNone ==
  ASSUME NEW S, NEW s \in Seq(S), NEW X, \A i \in 1..Len(s) : s[i] \notin X
  PROVE  Those(s, X) = <<>>
<1> DEFINE P == {i \in 1..Len(s) : s[i] \in X}
<1>1. \A i \in 1..Len(s) : i \notin P
  OBVIOUS
<1> HIDE DEF P
<1>2. ElementsAt(s, P) = <<>>
  BY <1>1, PickNone
<1> QED
  BY <1>2 DEF Those, P

\* Elements that are not among them may go.
LEMMA ThosePicked ==
  ASSUME NEW S, NEW s \in Seq(S), NEW X, NEW P,
         \A i \in 1..Len(s) : s[i] \in X => i \in P
  PROVE  Those(ElementsAt(s, P), X) = Those(s, X)
<1> DEFINE U == {r \in Seq(S) :
                   (\A i \in 1..Len(r) : r[i] \in X => i \in P)
                     => Those(ElementsAt(r, P), X) = Those(r, X)}
<1>1. <<>> \in U
  BY PickEmpty
<1>2. ASSUME NEW r \in U, NEW f \in S PROVE Append(r, f) \in U
  <2> DEFINE q == Append(r, f)
             e == ElementsAt(r, P)
  <2>1. /\ r \in Seq(S) /\ Len(r) \in Nat /\ q \in Seq(S) /\ Len(q) = Len(r) + 1
        /\ q[Len(r) + 1] = f /\ \A n \in 1..Len(r) : q[n] = r[n]
    BY AppendProperties, LenProperties
  <2>2. SUFFICES ASSUME \A i \in 1..Len(q) : q[i] \in X => i \in P
                 PROVE  Those(ElementsAt(q, P), X) = Those(q, X)
    BY <2>1
  <2>3. ElementsAt(q, P) = IF Len(r) + 1 \in P THEN Append(e, f) ELSE e
    BY <2>1, PickAppend
  <2>4. Those(q, X) = IF f \in X THEN Append(Those(r, X), f) ELSE Those(r, X)
    BY <2>1, ThoseAppend
  <2> HIDE DEF q
  <2>5. Those(e, X) = Those(r, X)
    <3>1. \A i \in 1..Len(r) : r[i] \in X => i \in P
      BY <2>1, <2>2
    <3> QED
      BY <3>1
  <2>6. f \in X => Len(r) + 1 \in P
    BY <2>1, <2>2
  <2>7. e \in Seq(S)
    BY <2>1, Picked
  <2> HIDE DEF e
  <2>8. Those(Append(e, f), X) = IF f \in X THEN Append(Those(e, X), f) ELSE Those(e, X)
    BY <2>7, ThoseAppend
  <2>9. CASE Len(r) + 1 \in P
    <3>1. ElementsAt(q, P) = Append(e, f)
      BY <2>3, <2>9
    <3>2. Those(Append(e, f), X) = Those(q, X)
      BY <2>4, <2>5, <2>8
    <3> QED
      BY <3>1, <3>2
  <2>10. CASE Len(r) + 1 \notin P
    <3>1. ElementsAt(q, P) = e /\ Those(q, X) = Those(r, X)
      BY <2>3, <2>4, <2>6, <2>10
    <3> QED
      BY <2>5, <3>1
  <2> QED
    BY <2>9, <2>10
<1>3. U \in SUBSET Seq(S) /\ <<>> \in U /\ \A r \in U : \A f \in S : Append(r, f) \in U
  BY <1>1, <1>2
<1> HIDE DEF U
<1>4. U = Seq(S)
  BY <1>3, ByAppending
<1>5. s \in U
  BY <1>4
<1> QED
  BY <1>5 DEF U
-----------------------------------------------------------------------------
(***************************************************************************)
(* Insertion.                                                              *)
(***************************************************************************)

\* What is inserted stands behind the first pos elements and before the rest.
LEMMA Inserted ==
  ASSUME NEW S, NEW s \in Seq(S), NEW group \in Seq(S), NEW pos \in 0..Len(s)
  PROVE  LET new == Insert(s, pos, group) IN
         /\ new \in Seq(S) /\ Len(new) = Len(s) + Len(group)
         /\ \A i \in 1..pos : new[i] = s[i]
         /\ \A i \in 1..Len(group) : new[pos + i] = group[i]
         /\ \A i \in 1..(Len(s) - pos) : new[pos + Len(group) + i] = s[pos + i]
<1> DEFINE a == SubSeq(s, 1, pos)
           b == SubSeq(s, pos + 1, Len(s))
           c == a \o group
           new == Insert(s, pos, group)
<1>1. /\ a \in Seq(S) /\ Len(a) = pos /\ \A i \in 1..pos : a[i] = s[i]
      /\ b \in Seq(S) /\ Len(b) = Len(s) - pos /\ \A i \in 1..(Len(s) - pos) : b[i] = s[pos + i]
  BY Parted
<1>2. new = c \o b
  BY DEF Insert
<1> HIDE DEF a, b, new
<1>3. /\ c \in Seq(S) /\ Len(c) = pos + Len(group)
      /\ \A i \in 1..pos : c[i] = a[i]
      /\ \A i \in 1..Len(group) : c[pos + i] = group[i]
  <2>1. a \in Seq(S) /\ group \in Seq(S)
    BY <1>1
  <2>2. /\ a \o group \in Seq(S)
        /\ Len(a \o group) = Len(a) + Len(group)
        /\ \A i \in 1..Len(a) : (a \o group)[i] = a[i]
        /\ \A i \in 1..Len(group) : (a \o group)[Len(a) + i] = group[i]
    BY ONLY <2>1, Joined
  <2> QED
    BY <1>1, <2>2
<1> HIDE DEF c
<1>4. /\ new \in Seq(S) /\ Len(new) = Len(c) + Len(b)
      /\ \A i \in 1..Len(c) : new[i] = c[i]
      /\ \A i \in 1..Len(b) : new[Len(c) + i] = b[i]
  <2>1. c \in Seq(S) /\ b \in Seq(S)
    BY <1>1, <1>3
  <2>2. /\ c \o b \in Seq(S)
        /\ Len(c \o b) = Len(c) + Len(b)
        /\ \A i \in 1..Len(c) : (c \o b)[i] = c[i]
        /\ \A i \in 1..Len(b) : (c \o b)[Len(c) + i] = b[i]
    BY ONLY <2>1, Joined
  <2> QED
    BY <1>2, <2>2
<1>5. pos \in Nat /\ Len(s) \in Nat /\ Len(group) \in Nat
  OBVIOUS
<1>6. Len(new) = Len(s) + Len(group)
  BY <1>1, <1>3, <1>4, <1>5
<1>7. ASSUME NEW i \in 1..pos PROVE new[i] = s[i]
  <2>1. i \in 1..Len(c)
    BY <1>3, <1>5
  <2> QED
    BY <2>1, <1>1, <1>3, <1>4
<1>8. ASSUME NEW i \in 1..Len(group) PROVE new[pos + i] = group[i]
  <2>1. pos + i \in 1..Len(c)
    BY <1>3, <1>5
  <2> QED
    BY <2>1, <1>3, <1>4
<1>9. ASSUME NEW i \in 1..(Len(s) - pos) PROVE new[pos + Len(group) + i] = s[pos + i]
  BY <1>1, <1>3, <1>4
<1> QED
  BY <1>4, <1>6, <1>7, <1>8, <1>9 DEF new

\* The position in tag order: behind the last field whose tag is not greater.
LEMMA PositionIs ==
  ASSUME NEW fields \in Seq(KindFields), NEW tag \in Nat
  PROVE  LET pos == TagOrderPosition(fields, tag) IN
         /\ pos \in 0..Len(fields)
         /\ pos # 0 => fields[pos].tag <= tag
         /\ \A i \in 1..Len(fields) : i > pos => fields[i].tag >= tag
         /\ \A i \in 1..Len(fields) : i > pos => fields[i].tag # tag
<1> DEFINE fitting == {0} \cup {i \in DOMAIN fields : fields[i].tag <= tag}
           pos == TagOrderPosition(fields, tag)
<1>1. fitting \in SUBSET Nat /\ fitting # {} /\ Len(fields) \in Nat
      /\ \A i \in fitting : i <= Len(fields)
  OBVIOUS
<1>2. pos = CHOOSE i \in fitting : \A j \in fitting : j <= i
  BY DEF TagOrderPosition
<1>3. \A i \in 1..Len(fields) : fields[i].tag \in Nat /\ (fields[i].tag <= tag => i \in fitting)
  BY DEF KindFields, Fields
<1>4. \A i \in fitting : i # 0 => i \in 1..Len(fields) /\ fields[i].tag <= tag
  OBVIOUS
<1> HIDE DEF fitting, pos
<1>5. \E i \in fitting : \A j \in fitting : j <= i
  BY <1>1, Greatest
<1>6. pos \in fitting /\ \A j \in fitting : j <= pos
  BY <1>2, <1>5
<1>7. ASSUME NEW i \in 1..Len(fields), i > pos PROVE fields[i].tag >= tag /\ fields[i].tag # tag
  <2>1. i \notin fitting
    BY <1>1, <1>6, <1>7
  <2> QED
    BY <2>1, <1>3
<1>8. pos \in 0..Len(fields) /\ (pos # 0 => fields[pos].tag <= tag)
  BY <1>1, <1>4, <1>6
<1> QED
  BY <1>7, <1>8 DEF pos

\* An edit makes fields of the kinds of their tags, in tag order if the old
\* ones were.
Keeps(fields, new) ==
  new \in Seq(KindFields) /\ (InTagOrder(fields) => InTagOrder(new))

\* Fields of one tag, put where those before them have no greater tags and
\* those behind them no smaller ones.
LEMMA InsertKeeps ==
  ASSUME NEW fields \in Seq(KindFields), NEW group \in Seq(KindFields), NEW tag \in Nat,
         \A i \in 1..Len(group) : group[i].tag = tag,
         NEW pos \in 0..Len(fields),
         InTagOrder(fields) =>
           /\ \A i \in 1..pos : fields[i].tag <= tag
           /\ \A i \in 1..Len(fields) : i > pos => fields[i].tag >= tag
  PROVE  Keeps(fields, Insert(fields, pos, group))
<1> DEFINE new == Insert(fields, pos, group)
           m == Len(group)
           L == Len(fields)
<1>1. /\ new \in Seq(KindFields) /\ Len(new) = L + m
      /\ \A i \in 1..pos : new[i] = fields[i]
      /\ \A i \in 1..m : new[pos + i] = group[i]
      /\ \A i \in 1..(L - pos) : new[pos + m + i] = fields[pos + i]
  <2>1. fields \in Seq(KindFields) /\ group \in Seq(KindFields) /\ pos \in 0..Len(fields)
    OBVIOUS
  <2> QED
    BY ONLY <2>1, Inserted, ZenonT(60)
<1>2. L \in Nat /\ m \in Nat /\ pos \in 0..L
      /\ (\A i \in 1..L : fields[i].tag \in Nat) /\ DOMAIN fields = 1..L
  BY DEF KindFields, Fields
<1> HIDE DEF new, m, L
<1>3. ASSUME InTagOrder(fields) PROVE InTagOrder(new)
  <2>1. /\ \A i \in 1..pos : fields[i].tag <= tag
        /\ \A i \in 1..L : i > pos => fields[i].tag >= tag
        /\ \A i, j \in 1..L : i < j => fields[i].tag <= fields[j].tag
    BY <1>2, <1>3 DEF InTagOrder, L
  <2>2. ASSUME NEW i \in 1..pos PROVE i \in 1..L /\ new[i].tag = fields[i].tag
    BY <1>1, <1>2
  <2>3. ASSUME NEW i \in 1..(L + m), i > pos, i <= pos + m PROVE new[i].tag = tag
    <3>1. i - pos \in 1..m /\ pos + (i - pos) = i
      BY <1>2, <2>3
    <3>2. new[pos + (i - pos)] = group[i - pos] /\ group[i - pos].tag = tag
      BY <1>1, <3>1 DEF m
    <3> QED
      BY <3>1, <3>2
  <2>4. ASSUME NEW i \in 1..(L + m), i > pos + m
        PROVE  i - m \in 1..L /\ i - m > pos /\ new[i].tag = fields[i - m].tag
    <3>1. i - m \in 1..L /\ i - m > pos /\ i - m - pos \in 1..(L - pos)
          /\ pos + m + (i - m - pos) = i /\ pos + (i - m - pos) = i - m
      BY <1>2, <2>4
    <3>2. new[pos + m + (i - m - pos)] = fields[pos + (i - m - pos)]
      BY <1>1, <3>1
    <3> QED
      BY <3>1, <3>2
  <2>5. ASSUME NEW i \in 1..(L + m), NEW j \in 1..(L + m), i < j
        PROVE  new[i].tag <= new[j].tag
    <3>1. CASE j <= pos
      <4>1. i \in 1..pos /\ j \in 1..pos
        BY <1>2, <2>5, <3>1
      <4> QED
        BY <4>1, <2>1, <2>2, <2>5
    <3>2. CASE i <= pos /\ j > pos
      <4>1. new[i].tag = fields[i].tag /\ fields[i].tag <= tag /\ fields[i].tag \in Nat
        BY <1>2, <2>1, <2>2, <3>2
      <4>2. CASE j <= pos + m
        BY <2>3, <3>2, <4>1, <4>2
      <4>3. CASE j > pos + m
        <5>1. new[j].tag = fields[j - m].tag /\ fields[j - m].tag >= tag /\ fields[j - m].tag \in Nat
          BY <1>2, <2>1, <2>4, <4>3
        <5> QED
          BY <4>1, <5>1
      <4> QED
        BY <4>2, <4>3, <1>2
    <3>3. CASE i > pos /\ i <= pos + m
      <4>1. new[i].tag = tag
        BY <2>3, <3>3
      <4>2. CASE j <= pos + m
        <5>1. new[j].tag = tag
          BY <1>2, <2>3, <2>5, <3>3, <4>2
        <5> QED
          BY <4>1, <5>1
      <4>3. CASE j > pos + m
        <5>1. new[j].tag = fields[j - m].tag /\ fields[j - m].tag >= tag /\ fields[j - m].tag \in Nat
          BY <1>2, <2>1, <2>4, <4>3
        <5> QED
          BY <4>1, <5>1
      <4> QED
        BY <4>2, <4>3, <1>2
    <3>4. CASE i > pos + m
      <4>1. i - m \in 1..L /\ new[i].tag = fields[i - m].tag
        BY <2>4, <3>4
      <4>2. j > pos + m
        BY <1>2, <2>5, <3>4
      <4>3. j - m \in 1..L /\ new[j].tag = fields[j - m].tag /\ i - m < j - m
        BY <1>2, <2>4, <2>5, <4>2
      <4> QED
        BY <4>1, <4>3, <2>1
    <3> QED
      BY <3>1, <3>2, <3>3, <3>4, <1>2
  <2>6. DOMAIN new = 1..(L + m)
    BY <1>1
  <2> QED
    BY <2>5, <2>6 DEF InTagOrder
<1> QED
  BY <1>1, <1>3 DEF Keeps, new
-----------------------------------------------------------------------------
(***************************************************************************)
(* The fields of some tags.                                                *)
(***************************************************************************)

Having(s, T) == ElementsAt(s, {i \in 1..Len(s) : s[i].tag \in T})

\* They are those among the fields of these tags.
FieldsOf(T) == {f \in KindFields : f.tag \in T}

\* See FieldsOf.
LEMMA HavingThose ==
  ASSUME NEW s \in Seq(KindFields), NEW T
  PROVE  Having(s, T) = Those(s, FieldsOf(T))
<1>1. {i \in 1..Len(s) : s[i].tag \in T} = {i \in 1..Len(s) : s[i] \in FieldsOf(T)}
  BY DEF FieldsOf
<1> QED
  BY <1>1 DEF Having, Those

\* Those of one tag, and those of all but some.
LEMMA HavingIs ==
  ASSUME NEW s \in Seq(KindFields)
  PROVE  /\ \A tag : OfTag(s, tag) = Having(s, {tag})
         /\ \A tags : Without(s, tags) = Having(s, Nat \ tags)
<1>1. DOMAIN s = 1..Len(s) /\ \A i \in 1..Len(s) : s[i].tag \in Nat
  BY DEF KindFields, Fields
<1>2. ASSUME NEW tag PROVE PositionsOf(s, {tag}) = {i \in 1..Len(s) : s[i].tag \in {tag}}
  BY <1>1 DEF PositionsOf
<1>3. ASSUME NEW tags
      PROVE  DOMAIN s \ PositionsOf(s, tags) = {i \in 1..Len(s) : s[i].tag \in Nat \ tags}
  BY <1>1 DEF PositionsOf
<1> QED
  BY <1>2, <1>3 DEF OfTag, Without, Having

\* They are fields, of these tags.
LEMMA HavingMakes ==
  ASSUME NEW s \in Seq(KindFields), NEW T
  PROVE  Having(s, T) \in Seq(KindFields)
  BY Picked DEF Having

\* One more field.
LEMMA HavingAppend ==
  ASSUME NEW s \in Seq(KindFields), NEW f \in KindFields, NEW T
  PROVE  Having(Append(s, f), T) =
           IF f.tag \in T THEN Append(Having(s, T), f) ELSE Having(s, T)
<1>1. Append(s, f) \in Seq(KindFields)
  OBVIOUS
<1>2. Having(s, T) = Those(s, FieldsOf(T)) /\ Having(Append(s, f), T) = Those(Append(s, f), FieldsOf(T))
  BY <1>1, HavingThose
<1>3. f.tag \in T <=> f \in FieldsOf(T)
  BY DEF FieldsOf
<1>4. Those(Append(s, f), FieldsOf(T)) =
        IF f \in FieldsOf(T) THEN Append(Those(s, FieldsOf(T)), f) ELSE Those(s, FieldsOf(T))
  BY ThoseAppend
<1> QED
  BY <1>2, <1>3, <1>4

\* Two lists, one behind the other.
Apart(w, s, t, T) == w = s \o t /\ Having(w, T) = Having(s, T) \o Having(t, T)

\* See Apart.
LEMMA HavingJoined ==
  ASSUME NEW s \in Seq(KindFields), NEW t \in Seq(KindFields), NEW T
  PROVE  Apart(s \o t, s, t, T)
<1>1. s \o t \in Seq(KindFields)
  OBVIOUS
<1>2. ThoseApart(s, t, FieldsOf(T))
  BY ThoseJoined
<1>3. /\ Having(s, T) = Those(s, FieldsOf(T)) /\ Having(t, T) = Those(t, FieldsOf(T))
      /\ Having(s \o t, T) = Those(s \o t, FieldsOf(T))
  BY <1>1, HavingThose
<1> QED
  BY <1>2, <1>3 DEF Apart, ThoseApart

\* All fields are of the tags.
LEMMA HavingAll ==
  ASSUME NEW s \in Seq(KindFields), NEW T, \A i \in 1..Len(s) : s[i].tag \in T
  PROVE  Having(s, T) = s
<1>1. \A i \in 1..Len(s) : s[i] \in FieldsOf(T)
  BY DEF FieldsOf
<1> QED
  BY <1>1, HavingThose, ThoseAll

\* No fields of the tags.
LEMMA HavingNone ==
  ASSUME NEW s \in Seq(KindFields), NEW T, \A i \in 1..Len(s) : s[i].tag \notin T
  PROVE  Having(s, T) = <<>>
<1>1. \A i \in 1..Len(s) : s[i] \notin FieldsOf(T)
  BY DEF FieldsOf
<1> QED
  BY <1>1, HavingThose, ThoseNone

\* Fields that are not among them may change.
ChangedOutside(s, t, T) ==
  /\ Len(s) = Len(t)
  /\ \A n \in 1..Len(s) : (s[n].tag \in T <=> t[n].tag \in T) /\ (s[n].tag \in T => s[n] = t[n])

\* See ChangedOutside.
LEMMA HavingMapped ==
  ASSUME NEW s \in Seq(KindFields), NEW t \in Seq(KindFields), NEW T, ChangedOutside(s, t, T)
  PROVE  Having(s, T) = Having(t, T)
<1> DEFINE P == {i \in 1..Len(s) : s[i].tag \in T}
           Q == {i \in 1..Len(t) : t[i].tag \in T}
<1>1. Len(s) = Len(t) /\ Len(s) \in Nat
  BY DEF ChangedOutside
<1>2. Alike(s, P, t, Q, Len(s))
  BY <1>1 DEF Alike, ChangedOutside
<1> HIDE DEF P, Q
<1>3. ElementsAt(s, P) = ElementsAt(t, Q)
  BY <1>1, <1>2, SamePicks
<1> QED
  BY <1>3 DEF Having, P, Q

\* Fields that are not among them may go.
LEMMA HavingPicked ==
  ASSUME NEW s \in Seq(KindFields), NEW T, NEW P,
         \A i \in 1..Len(s) : s[i].tag \in T => i \in P
  PROVE  Having(ElementsAt(s, P), T) = Having(s, T)
<1>1. \A i \in 1..Len(s) : s[i] \in FieldsOf(T) => i \in P
  BY DEF FieldsOf
<1>2. ElementsAt(s, P) \in Seq(KindFields)
  BY Picked
<1>3. Those(ElementsAt(s, P), FieldsOf(T)) = Those(s, FieldsOf(T))
  BY <1>1, ThosePicked
<1> QED
  BY <1>2, <1>3, HavingThose

\* What is before a position, and what is behind it.
LEMMA HavingParts ==
  ASSUME NEW s \in Seq(KindFields), NEW pos \in 0..Len(s), NEW T
  PROVE  Apart(s, SubSeq(s, 1, pos), SubSeq(s, pos + 1, Len(s)), T)
<1> DEFINE a == SubSeq(s, 1, pos)
           b == SubSeq(s, pos + 1, Len(s))
<1>1. a \in Seq(KindFields) /\ b \in Seq(KindFields) /\ a \o b = s
  BY Parted
<1> HIDE DEF a, b
<1>2. Apart(a \o b, a, b, T)
  BY <1>1, HavingJoined
<1> QED
  BY <1>1, <1>2 DEF a, b

\* What is inserted, and what it is inserted between.
InsertedApart(s, pos, group, T) ==
  /\ Apart(s, SubSeq(s, 1, pos), SubSeq(s, pos + 1, Len(s)), T)
  /\ Having(Insert(s, pos, group), T)
       = (Having(SubSeq(s, 1, pos), T) \o Having(group, T)) \o Having(SubSeq(s, pos + 1, Len(s)), T)

\* See InsertedApart.
LEMMA HavingInserted ==
  ASSUME NEW s \in Seq(KindFields), NEW group \in Seq(KindFields), NEW pos \in 0..Len(s), NEW T
  PROVE  InsertedApart(s, pos, group, T)
<1> DEFINE a == SubSeq(s, 1, pos)
           b == SubSeq(s, pos + 1, Len(s))
           c == a \o group
<1>1. a \in Seq(KindFields) /\ b \in Seq(KindFields)
  BY Parted
<1>2. Insert(s, pos, group) = c \o b
  BY DEF Insert
<1>3. Apart(s, a, b, T)
  BY HavingParts
<1> HIDE DEF a, b
<1>4. c \in Seq(KindFields)
  BY <1>1, ConcatProperties
<1>5. Apart(c, a, group, T)
  BY <1>1, HavingJoined
<1> HIDE DEF c
<1>6. Apart(c \o b, c, b, T)
  BY <1>1, <1>4, HavingJoined
<1>7. Having(Insert(s, pos, group), T) = Having(c, T) \o Having(b, T)
  BY <1>2, <1>6 DEF Apart
<1>8. Having(c, T) = Having(a, T) \o Having(group, T)
  BY <1>5 DEF Apart
<1> QED
  BY <1>3, <1>7, <1>8 DEF InsertedApart, a, b

\* Fields that are not among them may be inserted.
LEMMA HavingInsert ==
  ASSUME NEW s \in Seq(KindFields), NEW group \in Seq(KindFields), NEW pos \in 0..Len(s), NEW T,
         \A i \in 1..Len(group) : group[i].tag \notin T
  PROVE  Having(Insert(s, pos, group), T) = Having(s, T)
<1> DEFINE a == SubSeq(s, 1, pos)
           b == SubSeq(s, pos + 1, Len(s))
           x == Having(a, T)
           y == Having(b, T)
<1>1. a \in Seq(KindFields) /\ b \in Seq(KindFields)
  BY Parted
<1>2. Apart(s, a, b, T) /\ Having(Insert(s, pos, group), T) = (x \o Having(group, T)) \o y
  BY HavingInserted DEF InsertedApart
<1> HIDE DEF a, b
<1>3. Having(group, T) = <<>>
  BY HavingNone
<1>4. x \in Seq(KindFields)
  BY <1>1, HavingMakes
<1>5. x \o <<>> = x
  BY <1>4, ConcatEmptySeq
<1> HIDE DEF x, y
<1>6. Having(Insert(s, pos, group), T) = x \o y
  BY <1>2, <1>3, <1>5
<1>7. Having(s, T) = x \o y
  BY <1>2 DEF Apart, x, y
<1> QED
  BY <1>6, <1>7

\* An edit of fields of some tags leaves those of all others as they are.
Leaves(fields, new, tags) ==
  \A T : (\A tag \in tags : tag \notin T) => Having(new, T) = Having(fields, T)

\* So do one edit after another, an edit of fewer tags, and none.
LEMMA LeavesAlong ==
  ASSUME NEW a, NEW b, NEW c, NEW tags, Leaves(a, b, tags), Leaves(b, c, tags)
  PROVE  Leaves(a, c, tags)
<1> SUFFICES ASSUME NEW T, \A tag \in tags : tag \notin T PROVE Having(c, T) = Having(a, T)
  BY DEF Leaves
<1>1. Having(b, T) = Having(a, T)
  BY DEF Leaves
<1>2. Having(c, T) = Having(b, T)
  BY DEF Leaves
<1> QED
  BY <1>1, <1>2

\* See LeavesAlong.
LEMMA LeavesMore ==
  ASSUME NEW a, NEW b, NEW tags, NEW more, tags \subseteq more, Leaves(a, b, tags)
  PROVE  Leaves(a, b, more)
<1> SUFFICES ASSUME NEW T, \A tag \in more : tag \notin T PROVE Having(b, T) = Having(a, T)
  BY DEF Leaves
<1>1. \A tag \in tags : tag \notin T
  OBVIOUS
<1> QED
  BY <1>1 DEF Leaves

\* See LeavesAlong.
LEMMA LeavesAll ==
  ASSUME NEW a, NEW tags
  PROVE  Leaves(a, a, tags)
BY DEF Leaves

\* A group that is inserted is of its tag.
LEMMA InsertLeaves ==
  ASSUME NEW fields \in Seq(KindFields), NEW group \in Seq(KindFields), NEW pos \in 0..Len(fields),
         NEW tag, \A i \in 1..Len(group) : group[i].tag = tag
  PROVE  Leaves(fields, Insert(fields, pos, group), {tag})
<1> SUFFICES ASSUME NEW T, tag \notin T
             PROVE  Having(Insert(fields, pos, group), T) = Having(fields, T)
  BY DEF Leaves
<1>1. \A i \in 1..Len(group) : group[i].tag \notin T
  OBVIOUS
<1> QED
  BY <1>1, HavingInsert

\* Fields of the tags are left out.
LEMMA PickLeaves ==
  ASSUME NEW fields \in Seq(KindFields), NEW P, NEW tags,
         \A i \in 1..Len(fields) : i \notin P => fields[i].tag \in tags
  PROVE  Leaves(fields, ElementsAt(fields, P), tags)
<1> SUFFICES ASSUME NEW T, \A tag \in tags : tag \notin T
             PROVE  Having(ElementsAt(fields, P), T) = Having(fields, T)
  BY DEF Leaves
<1>1. \A i \in 1..Len(fields) : fields[i].tag \in T => i \in P
  OBVIOUS
<1> QED
  BY <1>1, HavingPicked

\* Fields of the tags are changed one by one, and stay of the tags.
LEMMA MapLeaves ==
  ASSUME NEW fields \in Seq(KindFields), NEW new \in Seq(KindFields), NEW tags,
         Len(new) = Len(fields),
         \A i \in 1..Len(fields) :
           new[i] = fields[i] \/ (new[i].tag \in tags /\ fields[i].tag \in tags)
  PROVE  Leaves(fields, new, tags)
<1> SUFFICES ASSUME NEW T, \A tag \in tags : tag \notin T PROVE Having(new, T) = Having(fields, T)
  BY DEF Leaves
<1>1. ChangedOutside(fields, new, T)
  BY DEF ChangedOutside
<1> QED
  BY <1>1, HavingMapped

\* In tag order, what stands before the position of a tag has no greater tag.
LEMMA AtPosition ==
  ASSUME NEW fields \in Seq(KindFields), NEW group \in Seq(KindFields), NEW tag \in Nat,
         \A i \in 1..Len(group) : group[i].tag = tag
  PROVE  /\ Keeps(fields, Insert(fields, TagOrderPosition(fields, tag), group))
         /\ Leaves(fields, Insert(fields, TagOrderPosition(fields, tag), group), {tag})
<1> DEFINE pos == TagOrderPosition(fields, tag)
<1>1. /\ pos \in 0..Len(fields)
      /\ pos # 0 => fields[pos].tag <= tag
      /\ \A i \in 1..Len(fields) : i > pos => fields[i].tag >= tag
  BY PositionIs
<1>2. Len(fields) \in Nat /\ DOMAIN fields = 1..Len(fields)
      /\ \A i \in 1..Len(fields) : fields[i].tag \in Nat
  BY DEF KindFields, Fields
<1> HIDE DEF pos
<1>3. ASSUME InTagOrder(fields), NEW i \in 1..pos PROVE fields[i].tag <= tag
  <2>1. i \in 1..Len(fields) /\ pos \in 1..Len(fields) /\ pos # 0 /\ (i = pos \/ i < pos)
    BY <1>1, <1>2
  <2>2. i = pos \/ fields[i].tag <= fields[pos].tag
    BY <1>2, <1>3, <2>1 DEF InTagOrder
  <2> QED
    BY <1>1, <1>2, <2>1, <2>2
<1>4. Keeps(fields, Insert(fields, pos, group))
  BY <1>1, <1>3, InsertKeeps
<1>5. Leaves(fields, Insert(fields, pos, group), {tag})
  BY <1>1, InsertLeaves
<1> QED
  BY <1>4, <1>5 DEF pos
-----------------------------------------------------------------------------
(***************************************************************************)
(* Edits of single fields and of lists of fields.                          *)
(***************************************************************************)

\* A field with new subfields, a new value or a new indicator.
LEMMA FieldsChanged ==
  ASSUME NEW f \in KindFields
  PROVE  /\ \A subs \in Seq(Subfields) :
              [f EXCEPT !.subs = subs] \in KindFields /\ [f EXCEPT !.subs = subs].tag = f.tag
         /\ \A value \in Strings :
              [f EXCEPT !.value = value] \in KindFields /\ [f EXCEPT !.value = value].tag = f.tag
         /\ \A ind1 \in Strings :
              [f EXCEPT !.ind1 = ind1] \in KindFields /\ [f EXCEPT !.ind1 = ind1].tag = f.tag
         /\ \A tag \in Nat : f.is_control = TagIsControl(tag) =>
              [f EXCEPT !.tag = tag] \in KindFields /\ [f EXCEPT !.tag = tag].tag = tag
  BY DEF KindFields, Fields

\* A list of subfields that are changed one by one.
LEMMA SubsMapped ==
  ASSUME NEW f \in KindFields, NEW subs \in [DOMAIN f.subs -> Subfields]
  PROVE  subs \in Seq(Subfields)
<1>1. f.subs \in Seq(Subfields)
  BY DEF KindFields, Fields
<1>2. PICK old \in Seq(Subfields) : old = f.subs
  BY <1>1
<1>3. DOMAIN old = 1..Len(old) /\ Len(old) \in Nat
  OBVIOUS
<1>4. subs \in [1..Len(old) -> Subfields]
  BY <1>2, <1>3
<1> QED
  BY <1>3, <1>4

\* A list of fields that are changed one by one, none of them in its tag.
LEMMA OneByOne ==
  ASSUME NEW fields \in Seq(KindFields), NEW new \in [DOMAIN fields -> KindFields], NEW tags,
         \A i \in DOMAIN fields :
           new[i].tag = fields[i].tag /\ (fields[i].tag \notin tags => new[i] = fields[i])
  PROVE  Keeps(fields, new) /\ Leaves(fields, new, tags)
<1>1. DOMAIN fields = 1..Len(fields) /\ Len(fields) \in Nat
  OBVIOUS
<1>2. new \in [1..Len(fields) -> KindFields] /\ DOMAIN new = DOMAIN fields
  BY <1>1
<1>3. new \in Seq(KindFields) /\ Len(new) = Len(fields)
  BY <1>1, <1>2
<1>4. InTagOrder(fields) => InTagOrder(new)
  BY <1>2 DEF InTagOrder
<1>5. Leaves(fields, new, tags)
  BY <1>1, <1>3, MapLeaves
<1> QED
  BY <1>3, <1>4, <1>5 DEF Keeps

\* What a selector selects is of its tags.
LEMMA SelectedIs ==
  ASSUME NEW fields, NEW sel
  PROVE  \A i \in SelectFields(fields, sel) : i \in DOMAIN fields /\ fields[i].tag \in sel.tags
BY DEF SelectFields, Matches

\* Some of the fields, in order.
LEMMA PickKeeps ==
  ASSUME NEW fields \in Seq(KindFields), NEW P
  PROVE  Keeps(fields, ElementsAt(fields, P))
<1> DEFINE new == ElementsAt(fields, P)
<1>1. new \in Seq(KindFields) /\ \E pos : Places(pos, new, Len(fields), fields, P)
  BY Picked
<1> HIDE DEF new
<1>2. PICK pos : Places(pos, new, Len(fields), fields, P)
  BY <1>1
<1>3. DOMAIN new = 1..Len(new) /\ DOMAIN fields = 1..Len(fields)
  BY <1>1
<1>4. ASSUME InTagOrder(fields), NEW i \in DOMAIN new, NEW j \in DOMAIN new, i < j
      PROVE  new[i].tag <= new[j].tag
  <2>1. /\ pos[i] \in DOMAIN fields /\ pos[j] \in DOMAIN fields /\ pos[i] < pos[j]
        /\ new[i] = fields[pos[i]] /\ new[j] = fields[pos[j]]
    BY <1>2, <1>3, <1>4 DEF Places
  <2> QED
    BY <1>4, <2>1 DEF InTagOrder
<1>5. InTagOrder(fields) => InTagOrder(new)
  BY <1>4 DEF InTagOrder
<1>6. Keeps(fields, new)
  BY <1>1, <1>5 DEF Keeps
<1> QED
  BY <1>6 DEF new

\* One edit after another.
LEMMA KeepsAlong ==
  ASSUME NEW a, NEW b, NEW c, Keeps(a, b), Keeps(b, c)
  PROVE  Keeps(a, c)
  BY DEF Keeps

\* A field that is added in tag order, or at the end.
LEMMA AddFieldKeeps ==
  ASSUME NEW fields \in Seq(KindFields), NEW f \in KindFields, NEW position
  PROVE  /\ AddField(fields, f, position) \in Seq(KindFields)
         /\ position # "end" => Keeps(fields, AddField(fields, f, position))
         /\ Leaves(fields, AddField(fields, f, position), {f.tag})
<1> DEFINE group == <<f>>
           pos == IF position = "end" THEN Len(fields) ELSE TagOrderPosition(fields, f.tag)
<1>1. AddField(fields, f, position) = Insert(fields, pos, group) /\ f.tag \in Nat
  BY DEF AddField, KindFields, Fields
<1>2. group \in Seq(KindFields) /\ \A i \in 1..Len(group) : group[i].tag = f.tag
  <2>1. group \in Seq(KindFields) /\ Len(group) = 1 /\ group[1] = f
    OBVIOUS
  <2> HIDE DEF group
  <2> QED
    BY <2>1
<1>3. pos \in 0..Len(fields)
  BY <1>1, PositionIs
<1> HIDE DEF group
<1>4. position # "end" => Keeps(fields, Insert(fields, pos, group))
  BY <1>1, <1>2, AtPosition
<1> HIDE DEF pos
<1>5. Insert(fields, pos, group) \in Seq(KindFields)
  BY <1>2, <1>3, Inserted
<1>6. Leaves(fields, Insert(fields, pos, group), {f.tag})
  BY <1>2, <1>3, InsertLeaves
<1> QED
  BY <1>1, <1>4, <1>5, <1>6

\* Fields that are removed.
LEMMA RemoveFieldsKeeps ==
  ASSUME NEW fields \in Seq(KindFields), NEW sel
  PROVE  Keeps(fields, RemoveFields(fields, sel)) /\ Leaves(fields, RemoveFields(fields, sel), sel.tags)
<1> DEFINE P == DOMAIN fields \ SelectFields(fields, sel)
<1>1. \A i \in 1..Len(fields) : i \notin P => fields[i].tag \in sel.tags
  BY SelectedIs
<1> HIDE DEF P
<1>2. Keeps(fields, ElementsAt(fields, P))
  BY PickKeeps
<1>3. Leaves(fields, ElementsAt(fields, P), sel.tags)
  BY <1>1, PickLeaves
<1> QED
  BY <1>2, <1>3 DEF P, RemoveFields

\* Subfields that are removed, and the fields that have none left.
LEMMA RemoveSubfieldsKeeps ==
  ASSUME NEW fields \in Seq(KindFields), NEW sel
  PROVE  /\ Keeps(fields, RemoveSubfields(fields, sel))
         /\ Leaves(fields, RemoveSubfields(fields, sel), sel.tags)
<1> DEFINE picked == SelectFields(fields, sel)
           Kept(f) == [f EXCEPT !.subs =
                         ElementsAt(@, {k \in DOMAIN @ : ~SubfieldMatches(sel, @[k])})]
           emptied == {i \in picked : Kept(fields[i]).subs = <<>>}
           new == [i \in DOMAIN fields |-> IF i \in picked THEN Kept(fields[i]) ELSE fields[i]]
<1>1. RemoveSubfields(fields, sel) = ElementsAt(new, DOMAIN fields \ emptied)
  BY DEF RemoveSubfields, MapFields
<1>2. ASSUME NEW f \in KindFields PROVE Kept(f) \in KindFields /\ Kept(f).tag = f.tag
  <2> DEFINE P == {k \in DOMAIN f.subs : ~SubfieldMatches(sel, f.subs[k])}
  <2>1. f.subs \in Seq(Subfields)
    BY DEF KindFields, Fields
  <2>2. ElementsAt(f.subs, P) \in Seq(Subfields)
    BY <2>1, Picked
  <2>3. Kept(f) = [f EXCEPT !.subs = ElementsAt(f.subs, P)]
    BY DEF KindFields, Fields
  <2> HIDE DEF Kept, P
  <2> QED
    BY <2>2, <2>3, FieldsChanged
<1>3. /\ \A i \in picked : i \in DOMAIN fields /\ fields[i].tag \in sel.tags
      /\ emptied \subseteq picked /\ DOMAIN fields = 1..Len(fields)
  BY SelectedIs
<1> HIDE DEF Kept, picked, emptied
<1>4. new \in [DOMAIN fields -> KindFields]
  BY <1>2
<1>5. \A i \in DOMAIN fields :
        new[i].tag = fields[i].tag /\ (fields[i].tag \notin sel.tags => new[i] = fields[i])
  BY <1>2, <1>3
<1> HIDE DEF new
<1>6. Keeps(fields, new) /\ Leaves(fields, new, sel.tags)
  BY <1>4, <1>5, OneByOne
<1>7. new \in Seq(KindFields)
  BY <1>6 DEF Keeps
<1> DEFINE P == DOMAIN fields \ emptied
<1>8. \A i \in 1..Len(new) : i \notin P => new[i].tag \in sel.tags
  <2>1. Len(new) = Len(fields)
    BY <1>4, <1>7
  <2> QED
    BY <1>3, <1>5, <2>1
<1> HIDE DEF P
<1>9. Keeps(new, ElementsAt(new, P))
  BY <1>7, PickKeeps
<1>10. Leaves(new, ElementsAt(new, P), sel.tags)
  BY <1>7, <1>8, PickLeaves
<1>11. Keeps(fields, ElementsAt(new, P))
  BY <1>6, <1>9, KeepsAlong
<1>12. Leaves(fields, ElementsAt(new, P), sel.tags)
  BY <1>6, <1>10, LeavesAlong
<1> QED
  BY <1>1, <1>11, <1>12 DEF P

\* A subfield that is set, or appended where there is none.
LEMMA SetSubfieldKeeps ==
  ASSUME NEW fields \in Seq(KindFields), NEW sel, NEW code \in Strings, NEW value \in Strings,
         NEW add_if_missing
  PROVE  /\ Keeps(fields, SetSubfield(fields, sel, code, value, add_if_missing))
         /\ Leaves(fields, SetSubfield(fields, sel, code, value, add_if_missing), sel.tags)
<1> DEFINE Has(f) == \E i \in DOMAIN f.subs : f.subs[i].code = code
           Set(sf) == IF sf.code = code THEN Sub(code, value) ELSE sf
           SetIn(f) == IF Has(f) \/ ~add_if_missing
                       THEN [f EXCEPT !.subs = [i \in DOMAIN @ |-> Set(@[i])]]
                       ELSE [f EXCEPT !.subs = Append(@, Sub(code, value))]
           positions == {i \in SelectFields(fields, sel) : ~fields[i].is_control}
           new == [i \in DOMAIN fields |-> IF i \in positions THEN SetIn(fields[i]) ELSE fields[i]]
<1>1. SetSubfield(fields, sel, code, value, add_if_missing) = new
  BY DEF SetSubfield, MapFields, MapSubs
<1>2. ASSUME NEW f \in KindFields PROVE SetIn(f) \in KindFields /\ SetIn(f).tag = f.tag
  <2> DEFINE subs == [i \in DOMAIN f.subs |-> Set(f.subs[i])]
             more == Append(f.subs, Sub(code, value))
  <2>1. f.subs \in Seq(Subfields) /\ Sub(code, value) \in Subfields
    BY DEF KindFields, Fields, Sub, Subfields
  <2>2. subs \in [DOMAIN f.subs -> Subfields] /\ more \in Seq(Subfields)
    BY <2>1
  <2>3. SetIn(f) = [f EXCEPT !.subs = subs] \/ SetIn(f) = [f EXCEPT !.subs = more]
    BY DEF KindFields, Fields
  <2> HIDE DEF SetIn, subs, more
  <2>4. subs \in Seq(Subfields)
    BY <2>2, SubsMapped
  <2>5. [f EXCEPT !.subs = subs] \in KindFields /\ [f EXCEPT !.subs = subs].tag = f.tag
    BY <2>4, FieldsChanged
  <2>6. [f EXCEPT !.subs = more] \in KindFields /\ [f EXCEPT !.subs = more].tag = f.tag
    BY <2>2, FieldsChanged
  <2> QED
    BY <2>3, <2>5, <2>6
<1>3. \A i \in positions : i \in DOMAIN fields /\ fields[i].tag \in sel.tags
  BY SelectedIs
<1> HIDE DEF SetIn, positions
<1>4. new \in [DOMAIN fields -> KindFields]
  BY <1>2
<1>5. \A i \in DOMAIN fields :
        new[i].tag = fields[i].tag /\ (fields[i].tag \notin sel.tags => new[i] = fields[i])
  BY <1>2, <1>3
<1> HIDE DEF new
<1> QED
  BY <1>1, <1>4, <1>5, OneByOne

\* A rewriting makes a string of a string.
LEMMA RuleMakesStrings ==
  ASSUME NEW rule, IsRule(rule), NEW value \in Strings
  PROVE  Rewritten(rule, value) \in Strings
  BY DEF IsRule, Rewritten

\* Values that are rewritten.
LEMMA ReplaceKeeps ==
  ASSUME NEW fields \in Seq(KindFields), NEW sel, NEW rule, IsRule(rule), NEW kinds
  PROVE  /\ Keeps(fields, ReplaceInValues(fields, sel, rule, kinds))
         /\ Leaves(fields, ReplaceInValues(fields, sel, rule, kinds), sel.tags)
<1> DEFINE Rewrite(sf) == IF sel.code \in {Unset, sf.code}
                          THEN Sub(sf.code, Rewritten(rule, sf.value)) ELSE sf
           RewriteIn(f) == IF f.is_control THEN [f EXCEPT !.value = Rewritten(rule, @)]
                           ELSE [f EXCEPT !.subs = [i \in DOMAIN @ |-> Rewrite(@[i])]]
           positions == {i \in SelectFields(fields, sel) : fields[i].is_control \in kinds}
           new == [i \in DOMAIN fields |-> IF i \in positions THEN RewriteIn(fields[i]) ELSE fields[i]]
<1>1. ReplaceInValues(fields, sel, rule, kinds) = new
  BY DEF ReplaceInValues, MapFields, MapSubs
<1>2. ASSUME NEW f \in KindFields PROVE RewriteIn(f) \in KindFields /\ RewriteIn(f).tag = f.tag
  <2> DEFINE subs == [i \in DOMAIN f.subs |-> Rewrite(f.subs[i])]
             value == Rewritten(rule, f.value)
  <2>1. f.subs \in Seq(Subfields) /\ f.value \in Strings
    BY DEF KindFields, Fields
  <2>2. value \in Strings
    BY <2>1, RuleMakesStrings
  <2>3. ASSUME NEW sf \in Subfields PROVE Rewrite(sf) \in Subfields
    <3>1. sf.value \in Strings /\ sf.code \in Strings
      BY DEF Subfields
    <3>2. Rewritten(rule, sf.value) \in Strings
      BY <3>1, RuleMakesStrings
    <3> QED
      BY <3>1, <3>2 DEF Sub, Subfields
  <2>4. RewriteIn(f) = [f EXCEPT !.value = value] \/ RewriteIn(f) = [f EXCEPT !.subs = subs]
    BY DEF KindFields, Fields
  <2> HIDE DEF RewriteIn, Rewrite, value
  <2>5. subs \in [DOMAIN f.subs -> Subfields]
    BY <2>1, <2>3
  <2> HIDE DEF subs
  <2>6. subs \in Seq(Subfields)
    BY <2>5, SubsMapped
  <2>7. [f EXCEPT !.value = value] \in KindFields /\ [f EXCEPT !.value = value].tag = f.tag
    BY <2>2, FieldsChanged
  <2>8. [f EXCEPT !.subs = subs] \in KindFields /\ [f EXCEPT !.subs = subs].tag = f.tag
    BY <2>6, FieldsChanged
  <2> QED
    BY <2>4, <2>7, <2>8
<1>3. \A i \in positions : i \in DOMAIN fields /\ fields[i].tag \in sel.tags
  BY SelectedIs
<1> HIDE DEF RewriteIn, positions
<1>4. new \in [DOMAIN fields -> KindFields]
  BY <1>2
<1>5. \A i \in DOMAIN fields :
        new[i].tag = fields[i].tag /\ (fields[i].tag \notin sel.tags => new[i] = fields[i])
  BY <1>2, <1>3
<1> HIDE DEF new
<1> QED
  BY <1>1, <1>4, <1>5, OneByOne

\* Indicators that are set.
LEMMA SetIndicatorsKeeps ==
  ASSUME NEW fields \in Seq(KindFields), NEW sel, NEW ind1 \in Strings
  PROVE  /\ Keeps(fields, SetIndicators(fields, sel, ind1))
         /\ Leaves(fields, SetIndicators(fields, sel, ind1), sel.tags)
<1> DEFINE positions == {i \in SelectFields(fields, sel) : ~fields[i].is_control}
           new == [i \in DOMAIN fields |->
                     IF i \in positions THEN [fields[i] EXCEPT !.ind1 = ind1] ELSE fields[i]]
<1>1. SetIndicators(fields, sel, ind1) = new
  BY DEF SetIndicators, MapFields
<1>2. ASSUME NEW f \in KindFields
      PROVE  [f EXCEPT !.ind1 = ind1] \in KindFields /\ [f EXCEPT !.ind1 = ind1].tag = f.tag
  BY FieldsChanged
<1>3. \A i \in positions : i \in DOMAIN fields /\ fields[i].tag \in sel.tags
  BY SelectedIs
<1> HIDE DEF positions
<1>4. new \in [DOMAIN fields -> KindFields]
  BY <1>2
<1>5. \A i \in DOMAIN fields :
        new[i].tag = fields[i].tag /\ (fields[i].tag \notin sel.tags => new[i] = fields[i])
  BY <1>2, <1>3
<1> HIDE DEF new
<1> QED
  BY <1>1, <1>4, <1>5, OneByOne

\* Subfield codes that are renamed.
LEMMA RenameKeeps ==
  ASSUME NEW fields \in Seq(KindFields), NEW tags, NEW from, NEW to \in Strings
  PROVE  /\ Keeps(fields, RenameSubfield(fields, tags, from, to))
         /\ Leaves(fields, RenameSubfield(fields, tags, from, to), tags)
<1> DEFINE Rename1(sf) == IF sf.code = from THEN Sub(to, sf.value) ELSE sf
           RenameIn(f) == [f EXCEPT !.subs = [i \in DOMAIN @ |-> Rename1(@[i])]]
           positions == DataFields(fields, tags)
           new == [i \in DOMAIN fields |-> IF i \in positions THEN RenameIn(fields[i]) ELSE fields[i]]
<1>1. RenameSubfield(fields, tags, from, to) = new
  BY DEF RenameSubfield, MapFields, MapSubs
<1>2. ASSUME NEW f \in KindFields PROVE RenameIn(f) \in KindFields /\ RenameIn(f).tag = f.tag
  <2> DEFINE subs == [i \in DOMAIN f.subs |-> Rename1(f.subs[i])]
  <2>1. f.subs \in Seq(Subfields)
    BY DEF KindFields, Fields
  <2>2. \A sf \in Subfields : Rename1(sf) \in Subfields
    BY DEF Sub, Subfields
  <2>3. RenameIn(f) = [f EXCEPT !.subs = subs]
    BY DEF KindFields, Fields
  <2> HIDE DEF RenameIn, Rename1
  <2>4. subs \in [DOMAIN f.subs -> Subfields]
    BY <2>1, <2>2
  <2> HIDE DEF subs
  <2>5. subs \in Seq(Subfields)
    BY <2>4, SubsMapped
  <2> QED
    BY <2>3, <2>5, FieldsChanged
<1>3. \A i \in positions : i \in DOMAIN fields /\ fields[i].tag \in tags
  BY DEF DataFields
<1> HIDE DEF RenameIn, positions
<1>4. new \in [DOMAIN fields -> KindFields]
  BY <1>2
<1>5. \A i \in DOMAIN fields :
        new[i].tag = fields[i].tag /\ (fields[i].tag \notin tags => new[i] = fields[i])
  BY <1>2, <1>3
<1> HIDE DEF new
<1> QED
  BY <1>1, <1>4, <1>5, OneByOne

\* Values that change their case.
LEMMA ChangeCaseKeeps ==
  ASSUME NEW fields \in Seq(KindFields), NEW tags, NEW code, NEW mapping, IsRule(mapping)
  PROVE  /\ Keeps(fields, ChangeCase(fields, tags, code, mapping))
         /\ Leaves(fields, ChangeCase(fields, tags, code, mapping), tags)
<1> DEFINE Change(sf) == IF code \in {Unset, sf.code}
                         THEN Sub(sf.code, Rewritten(mapping, sf.value)) ELSE sf
           ChangeIn(f) == [f EXCEPT !.subs = [i \in DOMAIN @ |-> Change(@[i])]]
           positions == DataFields(fields, tags)
           new == [i \in DOMAIN fields |-> IF i \in positions THEN ChangeIn(fields[i]) ELSE fields[i]]
<1>1. ChangeCase(fields, tags, code, mapping) = new
  BY DEF ChangeCase, MapFields, MapSubs
<1>2. ASSUME NEW f \in KindFields PROVE ChangeIn(f) \in KindFields /\ ChangeIn(f).tag = f.tag
  <2> DEFINE subs == [i \in DOMAIN f.subs |-> Change(f.subs[i])]
  <2>1. f.subs \in Seq(Subfields)
    BY DEF KindFields, Fields
  <2>2. ASSUME NEW sf \in Subfields PROVE Change(sf) \in Subfields
    <3>1. sf.value \in Strings /\ sf.code \in Strings
      BY DEF Subfields
    <3>2. Rewritten(mapping, sf.value) \in Strings
      BY <3>1, RuleMakesStrings
    <3> QED
      BY <3>1, <3>2 DEF Sub, Subfields
  <2>3. ChangeIn(f) = [f EXCEPT !.subs = subs]
    BY DEF KindFields, Fields
  <2> HIDE DEF ChangeIn, Change
  <2>4. subs \in [DOMAIN f.subs -> Subfields]
    BY <2>1, <2>2
  <2> HIDE DEF subs
  <2>5. subs \in Seq(Subfields)
    BY <2>4, SubsMapped
  <2> QED
    BY <2>3, <2>5, FieldsChanged
<1>3. \A i \in positions : i \in DOMAIN fields /\ fields[i].tag \in tags
  BY DEF DataFields
<1> HIDE DEF ChangeIn, positions
<1>4. new \in [DOMAIN fields -> KindFields]
  BY <1>2
<1>5. \A i \in DOMAIN fields :
        new[i].tag = fields[i].tag /\ (fields[i].tag \notin tags => new[i] = fields[i])
  BY <1>2, <1>3
<1> HIDE DEF new
<1> QED
  BY <1>1, <1>4, <1>5, OneByOne

\* Fields that get another tag of the same kind.
LEMMA MoveMakes ==
  ASSUME NEW fields \in Seq(KindFields), NEW tags, NEW to \in Nat,
         ~CrossesBoundary(fields, tags, to)
  PROVE  /\ MoveField(fields, tags, to) \in Seq(KindFields)
         /\ Leaves(fields, MoveField(fields, tags, to), tags \cup {to})
<1> DEFINE positions == PositionsOf(fields, tags)
           new == [i \in DOMAIN fields |->
                     IF i \in positions THEN [fields[i] EXCEPT !.tag = to] ELSE fields[i]]
<1>1. MoveField(fields, tags, to) = new
  BY DEF MoveField, MapFields
<1>2. ASSUME NEW i \in DOMAIN fields, i \in positions
      PROVE  /\ [fields[i] EXCEPT !.tag = to] \in KindFields
             /\ [fields[i] EXCEPT !.tag = to].tag = to /\ fields[i].tag \in tags
  <2>1. fields[i] \in KindFields /\ fields[i].is_control = TagIsControl(to) /\ fields[i].tag \in tags
    BY <1>2 DEF CrossesBoundary, PositionsOf
  <2> QED
    BY <2>1, FieldsChanged
<1> HIDE DEF positions
<1>3. new \in [DOMAIN fields -> KindFields] /\ DOMAIN fields = 1..Len(fields) /\ Len(fields) \in Nat
  BY <1>2
<1>4. \A i \in 1..Len(fields) :
        new[i] = fields[i] \/ (new[i].tag \in tags \cup {to} /\ fields[i].tag \in tags \cup {to})
  BY <1>2, <1>3
<1> HIDE DEF new
<1>5. new \in Seq(KindFields) /\ Len(new) = Len(fields)
  BY <1>3
<1>6. Leaves(fields, new, tags \cup {to})
  BY <1>4, <1>5, MapLeaves
<1> QED
  BY <1>1, <1>5, <1>6

\* Two tags of one kind that are exchanged.
LEMMA SwapMakes ==
  ASSUME NEW fields \in Seq(KindFields), NEW a \in Nat, NEW b \in Nat, ~SwapThrows(fields, a, b)
  PROVE  SwapFields(fields, a, b) \in Seq(KindFields) /\ Leaves(fields, SwapFields(fields, a, b), {a, b})
<1> DEFINE positions == PositionsOf(fields, {a, b})
           Retag(f) == [f EXCEPT !.tag = IF @ = a THEN b ELSE a]
           new == [i \in DOMAIN fields |-> IF i \in positions THEN Retag(fields[i]) ELSE fields[i]]
<1>1. SwapFields(fields, a, b) = new
  BY DEF SwapFields, MapFields
<1>2. ASSUME NEW i \in DOMAIN fields, i \in positions
      PROVE  /\ Retag(fields[i]) \in KindFields
             /\ Retag(fields[i]).tag \in {a, b} /\ fields[i].tag \in {a, b}
  <2> DEFINE to == IF fields[i].tag = a THEN b ELSE a
  <2>1. /\ fields[i] \in KindFields /\ fields[i].is_control = TagIsControl(to) /\ to \in Nat
        /\ to \in {a, b} /\ fields[i].tag \in {a, b}
    BY <1>2 DEF SwapThrows, CrossesBoundary, PositionsOf
  <2>2. Retag(fields[i]) = [fields[i] EXCEPT !.tag = to]
    BY <2>1 DEF KindFields, Fields
  <2> HIDE DEF Retag, to
  <2> QED
    BY <2>1, <2>2, FieldsChanged
<1> HIDE DEF positions, Retag
<1>3. new \in [DOMAIN fields -> KindFields] /\ DOMAIN fields = 1..Len(fields) /\ Len(fields) \in Nat
  BY <1>2
<1>4. \A i \in 1..Len(fields) :
        new[i] = fields[i] \/ (new[i].tag \in {a, b} /\ fields[i].tag \in {a, b})
  BY <1>2, <1>3
<1> HIDE DEF new
<1>5. new \in Seq(KindFields) /\ Len(new) = Len(fields)
  BY <1>3
<1>6. Leaves(fields, new, {a, b})
  BY <1>4, <1>5, MapLeaves
<1> QED
  BY <1>1, <1>5, <1>6

\* A placeholder's value is a string.
LEMMA FirstSubfieldIs ==
  ASSUME NEW fields \in Seq(KindFields), NEW tags, NEW code
  PROVE  FirstSubfield(fields, tags, code) \in Strings
<1> DEFINE Hits(f) == ElementsAt(f.subs, {i \in DOMAIN f.subs : f.subs[i].code = code})
           lists == [k \in DOMAIN fields |->
                       IF k \in DataFields(fields, tags) THEN Hits(fields[k]) ELSE <<>>]
           all == FlattenSeq(lists)
<1>1. FirstSubfield(fields, tags, code) = IF all = <<>> THEN "" ELSE all[1].value
  BY DEF FirstSubfield
<1>2. ASSUME NEW f \in KindFields PROVE Hits(f) \in Seq(Subfields)
  <2>1. f.subs \in Seq(Subfields)
    BY DEF KindFields, Fields
  <2> QED
    BY <2>1, Picked
<1> HIDE DEF Hits
<1>3. /\ lists \in [DOMAIN fields -> Seq(Subfields)]
      /\ DOMAIN fields = 1..Len(fields) /\ Len(fields) \in Nat
  BY <1>2
<1> HIDE DEF lists
<1>4. lists \in Seq(Seq(Subfields))
  BY <1>3
<1>5. all \in Seq(Subfields)
  BY <1>4, FlattenIn
<1> HIDE DEF all
<1>6. all # <<>> => all[1] \in Subfields
  BY <1>5
<1>7. \A sf \in Subfields : sf.value \in Strings
  BY DEF Subfields
<1>8. "" \in Strings
  BY EditAssumption
<1>9. CASE all = <<>>
  BY <1>1, <1>8, <1>9
<1>10. CASE all # <<>>
  BY <1>1, <1>6, <1>7, <1>10
<1> QED
  BY <1>9, <1>10

\* A field that is built from a template.
LEMMA BuildKeeps ==
  ASSUME NEW fields \in Seq(KindFields), NEW tmpl, tmpl.to \in Nat
  PROVE  Keeps(fields, BuildField(fields, tmpl)) /\ Leaves(fields, BuildField(fields, tmpl), {tmpl.to})
<1> DEFINE value == Unescape(EscapeBreaker(FirstSubfield(fields, tmpl.tags, tmpl.code)))
           field == IF TagIsControl(tmpl.to) THEN Control(tmpl.to, value)
                    ELSE Data(tmpl.to, Blank, <<Sub("a", value)>>)
<1>1. value \in Strings
  <2> DEFINE v == FirstSubfield(fields, tmpl.tags, tmpl.code)
  <2>1. v \in Strings
    BY FirstSubfieldIs
  <2> HIDE DEF v
  <2>2. "$" \in Strings /\ "{dollar}" \in Strings
    BY EditAssumption
  <2>3. EscapeBreaker(v) \in Strings
    BY <2>1, <2>2 DEF EscapeBreaker
  <2>4. Unescape(EscapeBreaker(v)) \in Strings
    BY <2>2, <2>3 DEF Unescape
  <2> QED
    BY <2>4 DEF v
<1>2. BuildField(fields, tmpl) = AddField(fields, field, "order")
  BY DEF BuildField
<1> HIDE DEF value
<1>3. field \in KindFields /\ field.tag = tmpl.to
  <2> DEFINE sub == Sub("a", value)
  <2>1. sub \in Subfields
    <3>1. "a" \in Strings
      BY EditAssumption
    <3> QED
      BY <1>1, <3>1 DEF Sub, Subfields
  <2> HIDE DEF sub
  <2>2. <<sub>> \in Seq(Subfields) /\ <<>> \in Seq(Subfields)
    BY <2>1
  <2>3. Blank \in Strings /\ "" \in Strings
    BY EditAssumption
  <2>4. CASE TagIsControl(tmpl.to)
    <3>1. Control(tmpl.to, value) \in Fields
      BY <1>1, <2>2, <2>3 DEF Control, Fields
    <3>2. field = Control(tmpl.to, value)
      BY <2>4
    <3> QED
      BY ONLY <2>4, <3>1, <3>2 DEF KindFields, Control
  <2>5. CASE ~TagIsControl(tmpl.to)
    <3> DEFINE subs == <<sub>>
    <3>1. subs \in Seq(Subfields)
      BY <2>2
    <3>2. field = Data(tmpl.to, Blank, subs)
      BY <2>5 DEF sub, subs
    <3> HIDE DEF subs, field
    <3>3. Data(tmpl.to, Blank, subs) \in Fields
      BY <2>3, <3>1 DEF Data, Fields
    <3>4. Data(tmpl.to, Blank, subs).is_control = FALSE /\ Data(tmpl.to, Blank, subs).tag = tmpl.to
      BY DEF Data
    <3>5. field \in Fields /\ field.is_control = FALSE /\ field.tag = tmpl.to
      BY <3>2, <3>3, <3>4
    <3>6. TagIsControl(field.tag) = FALSE
      BY <2>5, <3>5 DEF TagIsControl
    <3>7. field.is_control = TagIsControl(field.tag)
      BY <3>5, <3>6
    <3> QED
      BY <3>5, <3>7 DEF KindFields
  <2> QED
    BY <2>4, <2>5
<1> HIDE DEF field
<1>4. /\ Keeps(fields, AddField(fields, field, "order"))
      /\ Leaves(fields, AddField(fields, field, "order"), {field.tag})
  BY <1>3, AddFieldKeeps
<1> QED
  BY <1>2, <1>3, <1>4
-----------------------------------------------------------------------------
(***************************************************************************)
(* Edits that go through a list with FoldLeft.  The function it is defined *)
(* with follows Rule; FoldExists gives one that does, and FoldIn then says *)
(* that every one that does stays in a set that the operation keeps, or,   *)
(* by FoldAlong, in a family of sets that it leads through.                *)
(***************************************************************************)

\* SS[n] holds what the first n fields may be sorted to.
SortCarries(SS, fields) ==
  /\ <<>> \in SS[0]
  /\ \A n \in 0..Len(fields) : SS[n] \subseteq Seq(KindFields)
  /\ \A n \in 1..Len(fields) : \A out \in SS[n - 1] :
       AddField(out, fields[n], "order") \in SS[n]

\* Sorting adds one field after the other in tag order.
LEMMA SortAlong ==
  ASSUME NEW fields \in Seq(KindFields), NEW SS, SortCarries(SS, fields)
  PROVE  SortFields(fields) \in SS[Len(fields)]
<1> DEFINE N == Len(fields)
           S == Seq(KindFields)
           Op(out, f) == Insert(out, TagOrderPosition(out, f.tag), <<f>>)
           step == [p \in (1..N) \X S |-> Op(p[2], fields[p[1]])]
           Rule(it) == [s \in SUBSET DOMAIN fields |->
                          IF s = {} THEN <<>> ELSE Op(it[s \ {Max(s)}], fields[Max(s)])]
           h == CHOOSE it : it = Rule(it)
<1>1. SortFields(fields) = h[DOMAIN fields]
  BY DEF SortFields, FoldLeft, MapThenFoldSet
<1>2. N \in Nat /\ DOMAIN fields = 1..N /\ N = Len(fields) /\ \A n \in 1..N : fields[n] \in KindFields
  OBVIOUS
<1>3. ASSUME NEW out, NEW f PROVE AddField(out, f, "order") = Op(out, f)
  BY DEF AddField
<1> HIDE DEF N
<1>4. ASSUME NEW out \in S, NEW f \in KindFields PROVE Op(out, f) \in S
  BY <1>3, AddFieldKeeps
<1>5. <<>> \in S
  OBVIOUS
<1> HIDE DEF S, Op
<1>6. \A n \in 1..N, out \in S :
        step[<<n, out>>] = Op(out, fields[n]) /\ Op(out, fields[n]) \in S
  BY <1>2, <1>4
<1>7. step \in Steps(1..N, S)
  BY <1>2, <1>4 DEF Steps
<1> HIDE DEF step
<1>8. PICK g : Folding(g, N, S, <<>>, step)
  BY <1>2, <1>5, <1>7, FoldExists
<1>9. \A s \in SUBSET (1..N) : s # {} => Max(s) \in 1..N /\ s \ {Max(s)} \in SUBSET (1..N)
  BY <1>2, MaxIs
<1>10. g = Rule(g)
  <2>1. g \in [SUBSET (1..N) -> S]
    BY <1>8 DEF Folding
  <2>2. ASSUME NEW s \in SUBSET (1..N)
        PROVE  g[s] = IF s = {} THEN <<>> ELSE Op(g[s \ {Max(s)}], fields[Max(s)])
    BY <1>6, <1>8, <1>9, <2>1 DEF Folding
  <2> QED
    BY <1>2, <2>1, <2>2
<1>11. h = Rule(h)
  BY <1>10
<1> HIDE DEF h
<1>12. ASSUME NEW s \in SUBSET (1..N), s = {} \/ h[s \ {Max(s)}] \in S
       PROVE  h[s] = IF s = {} THEN <<>> ELSE step[<<Max(s), h[s \ {Max(s)}]>>]
  <2> DEFINE before == h[s \ {Max(s)}]
  <2>1. h[s] = IF s = {} THEN <<>> ELSE Op(before, fields[Max(s)])
    BY <1>2, <1>11
  <2>2. s # {} => Max(s) \in 1..N /\ before \in S
    BY <1>9, <1>12
  <2> HIDE DEF before
  <2>3. s # {} => step[<<Max(s), before>>] = Op(before, fields[Max(s)])
    BY <1>6, <2>2
  <2>4. h[s] = IF s = {} THEN <<>> ELSE step[<<Max(s), before>>]
    BY <2>1, <2>3
  <2> QED
    BY <2>4 DEF before
<1>13. Follows(h, N, S, <<>>, step)
  BY <1>12 DEF Follows
<1>14. Carries(SS, N, S, <<>>, step)
  <2>1. <<>> \in SS[0] /\ \A n \in 0..N : SS[n] \subseteq S
    BY <1>2 DEF SortCarries, S
  <2>2. ASSUME NEW n \in 1..N, NEW out \in SS[n - 1] PROVE step[<<n, out>>] \in SS[n]
    <3>1. n - 1 \in 0..N
      BY <1>2
    <3>2. out \in S
      BY <2>1, <3>1
    <3>3. step[<<n, out>>] = AddField(out, fields[n], "order")
      BY <1>6, <1>3, <3>2
    <3>4. AddField(out, fields[n], "order") \in SS[n]
      BY <1>2 DEF SortCarries
    <3> QED
      BY <3>3, <3>4
  <2> QED
    BY <2>1, <2>2 DEF Carries
<1>15. h[1..N] \in SS[N]
  BY <1>2, <1>13, <1>14, FoldAlong
<1> QED
  BY <1>1, <1>2, <1>15

\* The first n elements, one by one.
LEMMA OneMore ==
  ASSUME NEW S, NEW s \in Seq(S), NEW n \in 1..Len(s)
  PROVE  SubSeq(s, 1, n) = Append(SubSeq(s, 1, n - 1), s[n]) /\ SubSeq(s, 1, n - 1) \in Seq(S)
<1> DEFINE a == SubSeq(s, 1, n)
           b == SubSeq(s, 1, n - 1)
<1>1. Len(s) \in Nat /\ n \in 0..Len(s) /\ n - 1 \in 0..Len(s) /\ s[n] \in S
  OBVIOUS
<1>2. a \in Seq(S) /\ Len(a) = n /\ \A i \in 1..n : a[i] = s[i]
  BY <1>1, Parted
<1>3. b \in Seq(S) /\ Len(b) = n - 1 /\ \A i \in 1..(n - 1) : b[i] = s[i]
  BY <1>1, Parted
<1> HIDE DEF a, b
<1>4. PICK c \in Seq(S) : c = Append(b, s[n])
  BY <1>1, <1>3, AppendProperties
<1>5. Len(c) = Len(b) + 1 /\ c[Len(b) + 1] = s[n] /\ \A i \in 1..Len(b) : c[i] = b[i]
  BY <1>1, <1>3, <1>4, AppendProperties
<1>6. Len(c) = n /\ \A i \in 1..n : c[i] = s[i]
  BY <1>1, <1>3, <1>5
<1>7. a = c
  BY <1>1, <1>2, <1>6, SeqEqual
<1> QED
  BY <1>3, <1>4, <1>7 DEF a, b

\* A field that is added in tag order stands behind those of its tag.
LEMMA AddedBehind ==
  ASSUME NEW out \in Seq(KindFields), NEW f \in KindFields
  PROVE  Having(AddField(out, f, "order"), {f.tag}) = Append(Having(out, {f.tag}), f)
<1> DEFINE tag == f.tag
           pos == TagOrderPosition(out, tag)
           group == <<f>>
           a == SubSeq(out, 1, pos)
           b == SubSeq(out, pos + 1, Len(out))
           x == Having(a, {tag})
<1>1. AddField(out, f, "order") = Insert(out, pos, group)
  BY DEF AddField
<1>2. tag \in Nat
  BY DEF KindFields, Fields
<1>3. pos \in 0..Len(out) /\ \A i \in 1..Len(out) : i > pos => out[i].tag # tag
  BY <1>2, PositionIs
<1>4. group \in Seq(KindFields) /\ Having(group, {tag}) = group
  <2>1. group \in Seq(KindFields) /\ Len(group) = 1 /\ group[1] = f
    OBVIOUS
  <2> HIDE DEF group
  <2>2. \A i \in 1..Len(group) : group[i].tag \in {tag}
    BY <2>1
  <2> QED
    BY <2>1, <2>2, HavingAll
<1> HIDE DEF pos
<1>5. /\ a \in Seq(KindFields)
      /\ b \in Seq(KindFields) /\ Len(b) = Len(out) - pos
      /\ \A i \in 1..(Len(out) - pos) : b[i] = out[pos + i]
  BY <1>3, Parted
<1>6. /\ Apart(out, a, b, {tag})
      /\ Having(Insert(out, pos, group), {tag}) = (x \o Having(group, {tag})) \o Having(b, {tag})
  <2>1. InsertedApart(out, pos, group, {tag})
    BY <1>3, <1>4, HavingInserted
  <2> QED
    BY ONLY <2>1 DEF InsertedApart
<1> HIDE DEF a, b, tag
<1>7. Having(b, {tag}) = <<>>
  <2>1. \A i \in 1..Len(b) : b[i].tag \notin {tag}
    BY <1>3, <1>5
  <2> QED
    BY <1>5, <2>1, HavingNone
<1>8. x \in Seq(KindFields)
  BY <1>5, HavingMakes
<1> HIDE DEF x
<1>9. x \o group = Append(x, f) /\ x \o <<>> = x /\ Append(x, f) \o <<>> = Append(x, f)
  BY <1>8
<1>10. Having(Insert(out, pos, group), {tag}) = Append(x, f)
  BY <1>4, <1>6, <1>7, <1>9
<1>11. Having(out, {tag}) = x
  BY <1>6, <1>7, <1>9 DEF Apart, x
<1> QED
  BY <1>1, <1>10, <1>11 DEF tag

\* Sorting keeps the kinds of the fields and puts them in tag order, those of
\* one tag in the order they had.
LEMMA SortMakes ==
  ASSUME NEW fields \in Seq(KindFields)
  PROVE  /\ SortFields(fields) \in Seq(KindFields) /\ InTagOrder(SortFields(fields))
         /\ \A tag : OfTag(SortFields(fields), tag) = OfTag(fields, tag)
<1> DEFINE N == Len(fields)
<1>1. N \in Nat /\ N \in 0..N /\ 0 \in 0..N /\ \A n \in 1..N : n - 1 \in 0..N /\ n \in 0..N
  OBVIOUS
<1>2. \A n \in 1..N : fields[n] \in KindFields
  OBVIOUS
<1> HIDE DEF N
<1>3. SortFields(fields) \in Seq(KindFields) /\ InTagOrder(SortFields(fields))
  <2> DEFINE S == {out \in Seq(KindFields) : InTagOrder(out)}
             SS == [n \in 0..N |-> S]
  <2>1. \A n \in 0..N : SS[n] = S
    OBVIOUS
  <2>2. ASSUME NEW out \in S, NEW f \in KindFields PROVE AddField(out, f, "order") \in S
    <3>1. out \in Seq(KindFields) /\ InTagOrder(out)
      OBVIOUS
    <3>2. Keeps(out, AddField(out, f, "order"))
      BY <3>1, AddFieldKeeps
    <3> QED
      BY <3>1, <3>2 DEF Keeps
  <2>3. <<>> \in S /\ S \subseteq Seq(KindFields)
    BY DEF InTagOrder
  <2> HIDE DEF SS, S
  <2>4. SortCarries(SS, fields)
    BY <1>1, <1>2, <2>1, <2>2, <2>3 DEF SortCarries, N
  <2>5. SortFields(fields) \in SS[N]
    BY <2>4, SortAlong DEF N
  <2> QED
    BY <1>1, <2>1, <2>5 DEF S
<1>4. ASSUME NEW tag PROVE OfTag(SortFields(fields), tag) = OfTag(fields, tag)
  <2> DEFINE T == {tag}
             Group(n) == Having(SubSeq(fields, 1, n), T)
             SS == [n \in 0..N |-> {out \in Seq(KindFields) : Having(out, T) = Group(n)}]
  <2>1. ASSUME NEW n \in 1..N
        PROVE  Group(n) = IF fields[n].tag \in T THEN Append(Group(n - 1), fields[n]) ELSE Group(n - 1)
    <3> DEFINE a == SubSeq(fields, 1, n - 1)
               f == fields[n]
    <3>1. SubSeq(fields, 1, n) = Append(a, f) /\ a \in Seq(KindFields)
      BY OneMore DEF N
    <3>2. f \in KindFields
      BY <1>2
    <3> HIDE DEF a, f, T
    <3>3. Having(Append(a, f), T) = IF f.tag \in T THEN Append(Having(a, T), f) ELSE Having(a, T)
      BY <3>1, <3>2, HavingAppend
    <3> QED
      BY <3>1, <3>3 DEF a, f
  <2>2. ASSUME NEW n \in 1..N, NEW out \in Seq(KindFields), Having(out, T) = Group(n - 1)
        PROVE  /\ AddField(out, fields[n], "order") \in Seq(KindFields)
               /\ Having(AddField(out, fields[n], "order"), T) = Group(n)
    <3> DEFINE f == fields[n]
               new == AddField(out, f, "order")
    <3>1. f \in KindFields
      BY <1>2
    <3> HIDE DEF Group, f
    <3>2. new \in Seq(KindFields) /\ Leaves(out, new, {f.tag})
      BY <3>1, AddFieldKeeps
    <3>3. CASE f.tag = tag
      <4>1. Having(new, {f.tag}) = Append(Having(out, {f.tag}), f)
        BY <3>1, AddedBehind
      <4>2. Group(n) = Append(Group(n - 1), f)
        BY <2>1, <3>3 DEF f
      <4> QED
        BY <2>2, <3>2, <3>3, <4>1, <4>2 DEF f
    <3>4. CASE f.tag # tag
      <4>1. Having(new, T) = Having(out, T)
        BY <3>2, <3>4 DEF Leaves
      <4>2. Group(n) = Group(n - 1)
        BY <2>1, <3>4 DEF f
      <4> QED
        BY <2>2, <3>2, <4>1, <4>2 DEF f
    <3> QED
      BY <3>3, <3>4
  <2>3. Having(<<>>, T) = Group(0) /\ <<>> \in Seq(KindFields)
    <3>1. SubSeq(fields, 1, 0) = <<>> /\ <<>> \in Seq(KindFields)
      OBVIOUS
    <3> HIDE DEF T
    <3>2. Group(0) = Having(<<>>, T)
      BY <3>1, Zenon
    <3> QED
      BY <3>1, <3>2, Zenon
  <2> HIDE DEF Group
  <2>4. \A n \in 0..N : SS[n] = {out \in Seq(KindFields) : Having(out, T) = Group(n)}
    OBVIOUS
  <2> HIDE DEF SS, T
  <2>5. SortCarries(SS, fields)
    <3>1. <<>> \in SS[0] /\ \A n \in 0..N : SS[n] \subseteq Seq(KindFields)
      BY <1>1, <2>3, <2>4
    <3>2. ASSUME NEW n \in 1..N, NEW out \in SS[n - 1]
          PROVE  AddField(out, fields[n], "order") \in SS[n]
      <4>1. out \in Seq(KindFields) /\ Having(out, T) = Group(n - 1)
        BY <1>1, <2>4
      <4> QED
        BY <1>1, <2>2, <2>4, <4>1
    <3> QED
      BY <3>1, <3>2 DEF SortCarries, N
  <2>6. SortFields(fields) \in SS[N]
    BY <2>5, SortAlong DEF N
  <2>7. Having(SortFields(fields), T) = Group(N)
    BY <1>1, <2>4, <2>6
  <2>8. Group(N) = Having(fields, T)
    <3>1. SubSeq(fields, 1, Len(fields)) = fields
      BY SubSeqFull
    <3> QED
      BY <3>1 DEF Group, N
  <2> QED
    BY <1>3, <2>7, <2>8, HavingIs DEF T
<1> QED
  BY <1>3, <1>4

\* A set of lists of fields that the passes do not leave.
LEMMA RulesStay ==
  ASSUME NEW S, NEW fields \in S, NEW rules, Len(rules) \in Nat, DOMAIN rules = 1..Len(rules),
         \A n \in 1..Len(rules), out \in S :
           ReplaceInValues(out, rules[n].sel, rules[n].rule, BOOLEAN) \in S
  PROVE  ApplyReplaceRules(fields, rules) \in S
<1> DEFINE N == Len(rules)
           Op(out, pass) == ReplaceInValues(out, pass.sel, pass.rule, BOOLEAN)
           step == [p \in (1..N) \X S |-> Op(p[2], rules[p[1]])]
           Rule(it) == [s \in SUBSET DOMAIN rules |->
                          IF s = {} THEN fields ELSE Op(it[s \ {Max(s)}], rules[Max(s)])]
           h == CHOOSE it : it = Rule(it)
<1>1. ApplyReplaceRules(fields, rules) = h[DOMAIN rules]
  BY DEF ApplyReplaceRules, FoldLeft, MapThenFoldSet
<1>2. N \in Nat /\ DOMAIN rules = 1..N
  OBVIOUS
<1>3. ASSUME NEW out \in S, NEW n \in 1..N PROVE Op(out, rules[n]) \in S
  OBVIOUS
<1>4. fields \in S
  OBVIOUS
<1> HIDE DEF N, Op
<1>5. \A n \in 1..N, out \in S :
        step[<<n, out>>] = Op(out, rules[n]) /\ Op(out, rules[n]) \in S
  BY <1>2, <1>3
<1>6. step \in Steps(1..N, S)
  BY <1>2, <1>3 DEF Steps
<1> HIDE DEF step
<1>7. PICK g : Folding(g, N, S, fields, step)
  BY <1>2, <1>4, <1>6, FoldExists
<1>8. \A s \in SUBSET (1..N) : s # {} => Max(s) \in 1..N /\ s \ {Max(s)} \in SUBSET (1..N)
  BY <1>2, MaxIs
<1>9. g = Rule(g)
  <2>1. g \in [SUBSET (1..N) -> S]
    BY <1>7 DEF Folding
  <2>2. ASSUME NEW s \in SUBSET (1..N)
        PROVE  g[s] = IF s = {} THEN fields ELSE Op(g[s \ {Max(s)}], rules[Max(s)])
    BY <1>5, <1>7, <1>8, <2>1 DEF Folding
  <2> QED
    BY <1>2, <2>1, <2>2
<1>10. h = Rule(h)
  BY <1>9
<1> HIDE DEF h
<1>11. ASSUME NEW s \in SUBSET (1..N), s = {} \/ h[s \ {Max(s)}] \in S
       PROVE  h[s] = IF s = {} THEN fields ELSE step[<<Max(s), h[s \ {Max(s)}]>>]
  <2> DEFINE before == h[s \ {Max(s)}]
  <2>1. h[s] = IF s = {} THEN fields ELSE Op(before, rules[Max(s)])
    BY <1>2, <1>10
  <2>2. s # {} => Max(s) \in 1..N /\ before \in S
    BY <1>8, <1>11
  <2> HIDE DEF before
  <2>3. s # {} => step[<<Max(s), before>>] = Op(before, rules[Max(s)])
    BY <1>5, <2>2
  <2>4. h[s] = IF s = {} THEN fields ELSE step[<<Max(s), before>>]
    BY <2>1, <2>3
  <2> QED
    BY <2>4 DEF before
<1>12. Follows(h, N, S, fields, step)
  BY <1>11 DEF Follows
<1>13. h[1..N] \in S
  BY <1>2, <1>4, <1>6, <1>12, FoldIn
<1> QED
  BY <1>1, <1>2, <1>13

\* Rewritings, one pass after the other.
LEMMA RulesKeep ==
  ASSUME NEW fields \in Seq(KindFields), NEW rules,
         Len(rules) \in Nat, DOMAIN rules = 1..Len(rules),
         \A i \in DOMAIN rules : IsRule(rules[i].rule)
  PROVE  /\ Keeps(fields, ApplyReplaceRules(fields, rules))
         /\ Leaves(fields, ApplyReplaceRules(fields, rules),
                   UNION {rules[i].sel.tags : i \in DOMAIN rules})
<1> DEFINE tags == UNION {rules[i].sel.tags : i \in DOMAIN rules}
           S == {out \in Seq(KindFields) : Keeps(fields, out) /\ Leaves(fields, out, tags)}
<1>1. ASSUME NEW n \in 1..Len(rules), NEW out \in S
      PROVE  ReplaceInValues(out, rules[n].sel, rules[n].rule, BOOLEAN) \in S
  <2> DEFINE new == ReplaceInValues(out, rules[n].sel, rules[n].rule, BOOLEAN)
  <2>1. /\ out \in Seq(KindFields) /\ Keeps(fields, out) /\ IsRule(rules[n].rule)
        /\ Leaves(fields, out, tags) /\ rules[n].sel.tags \subseteq tags
    OBVIOUS
  <2>2. Keeps(out, new) /\ Leaves(out, new, rules[n].sel.tags)
    BY <2>1, ReplaceKeeps
  <2> HIDE DEF new, tags
  <2>3. Leaves(out, new, tags)
    BY <2>1, <2>2, LeavesMore
  <2>4. Leaves(fields, new, tags)
    BY <2>1, <2>3, LeavesAlong
  <2>5. new \in S
    BY <2>1, <2>2, <2>4 DEF Keeps
  <2> QED
    BY <2>5 DEF new
<1>2. fields \in S
  BY LeavesAll DEF Keeps
<1> HIDE DEF S
<1>3. ApplyReplaceRules(fields, rules) \in S
  BY <1>1, <1>2, RulesStay
<1> QED
  BY <1>3 DEF S

\* A field with another tag, put in tag order.
CopyOne(out, f, to) == Insert(out, TagOrderPosition(out, to), <<[f EXCEPT !.tag = to]>>)

\* A set of lists of fields that the copies do not leave.
LEMMA CopyStays ==
  ASSUME NEW S, NEW fields \in S, fields \in Seq(KindFields), NEW tags, NEW to \in Nat,
         ~CrossesBoundary(fields, tags, to),
         \A f \in KindFields, out \in S :
           f.is_control = TagIsControl(to) => CopyOne(out, f, to) \in S
  PROVE  CopyField(fields, tags, to) \in S
<1> DEFINE copies == ElementsAt(fields, PositionsOf(fields, tags))
           N == Len(copies)
           Op(out, f) == CopyOne(out, f, to)
           step == [p \in (1..N) \X S |-> Op(p[2], copies[p[1]])]
           Rule(it) == [s \in SUBSET DOMAIN copies |->
                          IF s = {} THEN fields ELSE Op(it[s \ {Max(s)}], copies[Max(s)])]
           h == CHOOSE it : it = Rule(it)
<1>1. CopyField(fields, tags, to) = h[DOMAIN copies]
  BY DEF CopyField, FoldLeft, MapThenFoldSet, CopyOne
<1>2. N \in Nat /\ DOMAIN copies = 1..N /\ \A n \in 1..N :
        copies[n] \in KindFields /\ copies[n].is_control = TagIsControl(to)
  <2> HIDE DEF copies
  <2>1. copies \in Seq(KindFields) /\
        \E pos : Places(pos, copies, Len(fields), fields, PositionsOf(fields, tags))
    BY Picked DEF copies
  <2>2. PICK pos : Places(pos, copies, Len(fields), fields, PositionsOf(fields, tags))
    BY <2>1
  <2>3. N \in Nat /\ DOMAIN copies = 1..N /\ \A n \in 1..N : copies[n] \in KindFields
    BY <2>1
  <2>4. ASSUME NEW n \in 1..N PROVE copies[n].is_control = TagIsControl(to)
    <3>1. pos[n] \in PositionsOf(fields, tags) /\ copies[n] = fields[pos[n]]
      BY <2>2 DEF Places
    <3>2. fields[pos[n]].is_control = TagIsControl(to)
      BY <3>1 DEF CrossesBoundary, PositionsOf
    <3> QED
      BY <3>1, <3>2
  <2> QED
    BY <2>3, <2>4
<1> HIDE DEF copies, N
<1>3. ASSUME NEW out \in S, NEW n \in 1..N PROVE Op(out, copies[n]) \in S
  BY <1>2
<1>4. fields \in S
  OBVIOUS
<1> HIDE DEF Op
<1>5. \A n \in 1..N, out \in S :
        step[<<n, out>>] = Op(out, copies[n]) /\ Op(out, copies[n]) \in S
  BY <1>2, <1>3
<1>6. step \in Steps(1..N, S)
  BY <1>2, <1>3 DEF Steps
<1> HIDE DEF step
<1>7. PICK g : Folding(g, N, S, fields, step)
  BY <1>2, <1>4, <1>6, FoldExists
<1>8. \A s \in SUBSET (1..N) : s # {} => Max(s) \in 1..N /\ s \ {Max(s)} \in SUBSET (1..N)
  BY <1>2, MaxIs
<1>9. g = Rule(g)
  <2>1. g \in [SUBSET (1..N) -> S]
    BY <1>7 DEF Folding
  <2>2. ASSUME NEW s \in SUBSET (1..N)
        PROVE  g[s] = IF s = {} THEN fields ELSE Op(g[s \ {Max(s)}], copies[Max(s)])
    BY <1>5, <1>7, <1>8, <2>1 DEF Folding
  <2> QED
    BY <1>2, <2>1, <2>2
<1>10. h = Rule(h)
  BY <1>9
<1> HIDE DEF h
<1>11. ASSUME NEW s \in SUBSET (1..N), s = {} \/ h[s \ {Max(s)}] \in S
       PROVE  h[s] = IF s = {} THEN fields ELSE step[<<Max(s), h[s \ {Max(s)}]>>]
  <2> DEFINE before == h[s \ {Max(s)}]
  <2>1. h[s] = IF s = {} THEN fields ELSE Op(before, copies[Max(s)])
    BY <1>2, <1>10
  <2>2. s # {} => Max(s) \in 1..N /\ before \in S
    BY <1>8, <1>11
  <2> HIDE DEF before
  <2>3. s # {} => step[<<Max(s), before>>] = Op(before, copies[Max(s)])
    BY <1>5, <2>2
  <2>4. h[s] = IF s = {} THEN fields ELSE step[<<Max(s), before>>]
    BY <2>1, <2>3
  <2> QED
    BY <2>4 DEF before
<1>12. Follows(h, N, S, fields, step)
  BY <1>11 DEF Follows
<1>13. h[1..N] \in S
  BY <1>2, <1>4, <1>6, <1>12, FoldIn
<1> QED
  BY <1>1, <1>2, <1>13

\* One copy.
LEMMA CopyIs ==
  ASSUME NEW out \in Seq(KindFields), NEW f \in KindFields, NEW to \in Nat,
         f.is_control = TagIsControl(to)
  PROVE  /\ Keeps(out, CopyOne(out, f, to))
         /\ Leaves(out, CopyOne(out, f, to), {to})
<1> DEFINE copy == [f EXCEPT !.tag = to]
           group == <<copy>>
<1>1. copy \in KindFields /\ copy.tag = to
  BY FieldsChanged
<1> HIDE DEF copy
<1>2. group \in Seq(KindFields) /\ Len(group) = 1 /\ group[1] = copy
  BY <1>1
<1> HIDE DEF group
<1>3. \A i \in 1..Len(group) : group[i].tag = to
  BY <1>1, <1>2
<1>4. /\ Keeps(out, Insert(out, TagOrderPosition(out, to), group))
      /\ Leaves(out, Insert(out, TagOrderPosition(out, to), group), {to})
  BY <1>2, <1>3, AtPosition
<1> QED
  BY <1>4 DEF group, copy, CopyOne

\* Copies, inserted one after the other.
LEMMA CopyKeeps ==
  ASSUME NEW fields \in Seq(KindFields), NEW tags, NEW to \in Nat,
         ~CrossesBoundary(fields, tags, to)
  PROVE  Keeps(fields, CopyField(fields, tags, to)) /\ Leaves(fields, CopyField(fields, tags, to), {to})
<1> DEFINE S == {out \in Seq(KindFields) : Keeps(fields, out) /\ Leaves(fields, out, {to})}
<1>1. ASSUME NEW f \in KindFields, NEW out \in S, f.is_control = TagIsControl(to)
      PROVE  CopyOne(out, f, to) \in S
  <2>1. out \in Seq(KindFields) /\ Keeps(fields, out) /\ Leaves(fields, out, {to})
    OBVIOUS
  <2>2. Keeps(out, CopyOne(out, f, to)) /\ Leaves(out, CopyOne(out, f, to), {to})
    BY <1>1, <2>1, CopyIs
  <2>3. Leaves(fields, CopyOne(out, f, to), {to})
    BY <2>1, <2>2, LeavesAlong
  <2> QED
    BY <2>1, <2>2, <2>3 DEF Keeps
<1>2. fields \in S
  BY LeavesAll DEF Keeps
<1> HIDE DEF S
<1>3. CopyField(fields, tags, to) \in S
  BY <1>1, <1>2, CopyStays
<1> QED
  BY <1>3 DEF S
-----------------------------------------------------------------------------
(***************************************************************************)
(* Merging.                                                                *)
(***************************************************************************)

\* A group of fields of one tag that replaces those of the tag.
LEMMA ReplaceGroupKeeps ==
  ASSUME NEW fields \in Seq(KindFields), NEW tag \in Nat, NEW group \in Seq(KindFields),
         \A i \in 1..Len(group) : group[i].tag = tag
  PROVE  /\ Keeps(fields, ReplaceGroup(fields, tag, group))
         /\ Leaves(fields, ReplaceGroup(fields, tag, group), {tag})
<1> DEFINE old == PositionsOf(fields, {tag})
           P == DOMAIN fields \ old
           rest == ElementsAt(fields, P)
           first == CHOOSE i \in old : \A j \in old : i <= j
           before == IF old = {} THEN Len(rest) ELSE first - 1
           pos == IF before = Len(rest) THEN TagOrderPosition(rest, tag) ELSE before
<1>1. ReplaceGroup(fields, tag, group) = Insert(rest, pos, group)
  BY DEF ReplaceGroup
<1>2. DOMAIN fields = 1..Len(fields) /\ Len(fields) \in Nat
  OBVIOUS
<1>3. /\ \A i \in old : i \in 1..Len(fields) /\ fields[i].tag = tag
      /\ P = 1..Len(fields) \ old
  BY DEF PositionsOf
<1>4. \A i \in 1..Len(fields) : fields[i].tag \in Nat
  BY DEF KindFields, Fields
<1>5. old # {} => first \in old /\ \A j \in old : first <= j
  <2> SUFFICES ASSUME old # {} PROVE \E i \in old : \A j \in old : i <= j
    OBVIOUS
  <2> HIDE DEF old
  <2>1. old \in SUBSET Nat
    BY <1>3
  <2> QED
    BY <2>1, Least
<1>6. \A i \in 1..Len(fields) : i \notin P => fields[i].tag \in {tag}
  BY <1>3
<1> HIDE DEF old, P, first
<1>7. Keeps(fields, rest)
  BY PickKeeps
<1>8. Leaves(fields, rest, {tag})
  BY <1>6, PickLeaves
<1>9. rest \in Seq(KindFields) /\ \E places : Places(places, rest, Len(fields), fields, P)
  BY Picked
<1> HIDE DEF rest
<1>10. CASE before = Len(rest)
  <2>1. pos = TagOrderPosition(rest, tag)
    BY <1>10
  <2> HIDE DEF pos
  <2>2. /\ Keeps(rest, Insert(rest, TagOrderPosition(rest, tag), group))
        /\ Leaves(rest, Insert(rest, TagOrderPosition(rest, tag), group), {tag})
    BY <1>9, AtPosition
  <2>3. Leaves(fields, Insert(rest, TagOrderPosition(rest, tag), group), {tag})
    BY <1>8, <2>2, LeavesAlong
  <2> QED
    BY <1>1, <1>7, <2>1, <2>2, <2>3 DEF Keeps
<1>11. CASE before # Len(rest)
  <2>1. old # {} /\ before = first - 1 /\ pos = first - 1 /\ first \in old
    BY <1>5, <1>11
  <2>2. first \in 1..Len(fields) /\ fields[first].tag = tag /\ pos \in 0..Len(fields)
        /\ pos + 1 = first
    BY <1>2, <1>3, <2>1
  <2>3. 1..pos \subseteq P
    <3> SUFFICES ASSUME NEW k \in 1..pos PROVE k \in P
      OBVIOUS
    <3> HIDE DEF pos, before
    <3>1. k \in 1..Len(fields) /\ k < first
      BY <1>2, <2>2
    <3>2. k \notin old
      BY <1>2, <1>5, <2>1, <2>2, <3>1
    <3> QED
      BY <1>3, <3>1, <3>2 DEF P
  <2> HIDE DEF pos, before
  <2>4. PICK places : Places(places, rest, Len(fields), fields, P)
    BY <1>9
  <2>5. pos <= Len(rest) /\ \A k \in 1..pos : places[k] = k
    BY <2>2, <2>3, <2>4 DEF Places
  <2>6. pos \in 0..Len(rest) /\ Len(rest) \in Nat
    BY <1>9, <2>2, <2>5
  <2>7. \A k \in 1..Len(rest) :
          places[k] \in 1..Len(fields) /\ places[k] \in P /\ rest[k] = fields[places[k]]
    BY <2>4 DEF Places
  <2>8. ASSUME InTagOrder(fields), NEW i \in 1..pos PROVE rest[i].tag <= tag
    <3>1. i \in 1..Len(rest) /\ i \in 1..Len(fields) /\ i < first
      BY <2>2, <2>6
    <3>2. rest[i] = fields[i]
      BY <2>5, <2>7, <3>1
    <3>3. fields[i].tag <= fields[first].tag
      BY <1>2, <2>2, <2>8, <3>1 DEF InTagOrder
    <3> QED
      BY <2>2, <3>2, <3>3
  <2>9. ASSUME InTagOrder(fields), NEW i \in 1..Len(rest), i > pos PROVE rest[i].tag >= tag
    <3>1. places[i] \in 1..Len(fields) /\ places[i] \in P /\ rest[i] = fields[places[i]]
      BY <2>7
    <3>2. places[i] > pos
      <4> SUFFICES ASSUME places[i] <= pos PROVE FALSE
        BY <2>2, <3>1
      <4> DEFINE k == places[i]
      <4>1. k \in 1..pos /\ k < i /\ k \in 1..Len(rest)
        BY <2>6, <2>9, <3>1
      <4> HIDE DEF k
      <4>2. places[k] = k /\ places[k] < places[i] /\ places[i] = k
        BY <2>4, <2>5, <4>1 DEF Places, k
      <4> QED
        BY <4>1, <4>2
    <3>3. places[i] # first
      BY <1>3, <2>1, <3>1
    <3>4. places[i] > first
      BY <2>2, <3>1, <3>2, <3>3
    <3>5. fields[first].tag <= fields[places[i]].tag
      BY <1>2, <2>2, <2>9, <3>1, <3>4 DEF InTagOrder
    <3> QED
      BY <1>4, <2>2, <3>1, <3>5
  <2> DEFINE new == Insert(rest, pos, group)
  <2>10. new \in Seq(KindFields)
    BY <1>9, <2>6, Inserted
  <2>11. ASSUME InTagOrder(fields) PROVE Keeps(rest, new)
    <3>1. /\ \A i \in 1..pos : rest[i].tag <= tag
          /\ \A i \in 1..Len(rest) : i > pos => rest[i].tag >= tag
      BY <2>8, <2>9, <2>11
    <3> HIDE DEF new
    <3> QED
      BY <1>9, <2>6, <3>1, InsertKeeps DEF new
  <2>12. ReplaceGroup(fields, tag, group) = new
    BY <1>1, <2>1, <2>2 DEF pos, before
  <2>13. Leaves(rest, new, {tag})
    BY <1>9, <2>6, InsertLeaves
  <2> HIDE DEF new
  <2>14. Leaves(fields, new, {tag})
    BY <1>8, <2>13, LeavesAlong
  <2> QED
    BY <1>7, <2>10, <2>11, <2>12, <2>14 DEF Keeps
<1> QED
  BY <1>10, <1>11

\* A group that is put behind the fields of its tag.
LEMMA AddGroupKeeps ==
  ASSUME NEW fields \in Seq(KindFields), NEW tag \in Nat, NEW group \in Seq(KindFields),
         \A i \in 1..Len(group) : group[i].tag = tag
  PROVE  /\ Keeps(fields, AddGroup(fields, tag, group))
         /\ Leaves(fields, AddGroup(fields, tag, group), {tag})
<1> DEFINE old == PositionsOf(fields, {tag})
           final == CHOOSE i \in old : \A j \in old : j <= i
<1>1. AddGroup(fields, tag, group) =
        Insert(fields, IF old = {} THEN TagOrderPosition(fields, tag) ELSE final, group)
  BY DEF AddGroup
<1>2. DOMAIN fields = 1..Len(fields) /\ Len(fields) \in Nat
      /\ \A i \in 1..Len(fields) : fields[i].tag \in Nat
  BY DEF KindFields, Fields
<1>3. \A i \in old : i \in 1..Len(fields) /\ fields[i].tag = tag
  BY DEF PositionsOf
<1> HIDE DEF old
<1>4. CASE old = {}
  <2>1. /\ Keeps(fields, Insert(fields, TagOrderPosition(fields, tag), group))
        /\ Leaves(fields, Insert(fields, TagOrderPosition(fields, tag), group), {tag})
    BY AtPosition
  <2> QED
    BY <1>1, <1>4, <2>1
<1>5. CASE old # {}
  <2>1. \E i \in old : \A j \in old : j <= i
    <3>1. old \in SUBSET Nat /\ \A i \in old : i <= Len(fields)
      BY <1>2, <1>3
    <3> QED
      BY <1>2, <1>5, <3>1, Greatest
  <2>2. final \in old
    BY <2>1
  <2> HIDE DEF final
  <2>3. final \in 1..Len(fields) /\ final \in 0..Len(fields) /\ fields[final].tag = tag
    BY <1>2, <1>3, <2>2
  <2>4. ASSUME InTagOrder(fields), NEW i \in 1..final PROVE fields[i].tag <= tag
    <3>1. i \in 1..Len(fields) /\ (i = final \/ i < final)
      BY <1>2, <2>3
    <3>2. i = final \/ fields[i].tag <= fields[final].tag
      BY <1>2, <2>3, <2>4, <3>1 DEF InTagOrder
    <3> QED
      BY <1>2, <2>3, <3>1, <3>2
  <2>5. ASSUME InTagOrder(fields), NEW i \in 1..Len(fields), i > final
        PROVE  fields[i].tag >= tag
    <3>1. fields[final].tag <= fields[i].tag
      BY <1>2, <2>3, <2>5 DEF InTagOrder
    <3> QED
      BY <1>2, <2>3, <3>1
  <2>6. Keeps(fields, Insert(fields, final, group))
    BY <2>3, <2>4, <2>5, InsertKeeps
  <2>7. Leaves(fields, Insert(fields, final, group), {tag})
    BY <2>3, InsertLeaves
  <2> QED
    BY <1>1, <1>5, <2>6, <2>7
<1> QED
  BY <1>4, <1>5

\* A group that is added if there is none of its tag.
LEMMA KeepGroupKeeps ==
  ASSUME NEW fields \in Seq(KindFields), NEW tag \in Nat, NEW group \in Seq(KindFields),
         \A i \in 1..Len(group) : group[i].tag = tag
  PROVE  /\ Keeps(fields, KeepGroup(fields, tag, group))
         /\ Leaves(fields, KeepGroup(fields, tag, group), {tag})
<1>1. /\ Keeps(fields, Insert(fields, TagOrderPosition(fields, tag), group))
      /\ Leaves(fields, Insert(fields, TagOrderPosition(fields, tag), group), {tag})
  BY AtPosition
<1>2. Keeps(fields, fields) /\ Leaves(fields, fields, {tag})
  BY LeavesAll DEF Keeps
<1> QED
  BY <1>1, <1>2 DEF KeepGroup

\* The fields of one tag.
LEMMA GroupIs ==
  ASSUME NEW fields \in Seq(KindFields), NEW tag
  PROVE  /\ OfTag(fields, tag) \in Seq(KindFields)
         /\ \A i \in 1..Len(OfTag(fields, tag)) : OfTag(fields, tag)[i].tag = tag
<1> DEFINE group == OfTag(fields, tag)
           P == PositionsOf(fields, {tag})
<1>1. group = ElementsAt(fields, P)
  BY DEF OfTag
<1>2. \A i \in P : fields[i].tag = tag
  BY DEF PositionsOf
<1> HIDE DEF group, P
<1>3. group \in Seq(KindFields) /\ \E pos : Places(pos, group, Len(fields), fields, P)
  BY <1>1, Picked
<1>4. PICK pos : Places(pos, group, Len(fields), fields, P)
  BY <1>3
<1>5. \A i \in 1..Len(group) : group[i].tag = tag
  BY <1>2, <1>4 DEF Places
<1> QED
  BY <1>3, <1>5 DEF group

\* The tags of a record.
LEMMA TagsAre ==
  ASSUME NEW fields \in Seq(KindFields)
  PROVE  /\ FirstAppearances(fields) \in Seq(Nat)
         /\ \A n \in 1..Len(FirstAppearances(fields)) : FirstAppearances(fields)[n] \in TagsOf(fields)
<1> DEFINE tags == [k \in DOMAIN fields |-> fields[k].tag]
           P == {i \in DOMAIN tags : \A j \in 1..(i - 1) : tags[j] # tags[i]}
<1>1. FirstAppearances(fields) = ElementsAt(tags, P)
  BY DEF FirstAppearances
<1>2. DOMAIN fields = 1..Len(fields) /\ Len(fields) \in Nat
      /\ \A i \in 1..Len(fields) : fields[i].tag \in Nat
  BY DEF KindFields, Fields
<1>3. tags \in [1..Len(fields) -> Nat] /\ tags \in [1..Len(fields) -> TagsOf(fields)]
  BY <1>2 DEF TagsOf
<1> HIDE DEF tags, P
<1>4. tags \in Seq(Nat) /\ tags \in Seq(TagsOf(fields))
  BY <1>2, <1>3
<1>5. ElementsAt(tags, P) \in Seq(Nat)
  BY <1>4, Picked
<1>6. ElementsAt(tags, P) \in Seq(TagsOf(fields))
  BY <1>4, Picked
<1> HIDE DEF TagsOf
<1>7. \A n \in 1..Len(ElementsAt(tags, P)) : ElementsAt(tags, P)[n] \in TagsOf(fields)
  BY <1>6
<1> QED
  BY <1>1, <1>5, <1>7

\* What a profile says of a tag.
Actions == {"protected", "replace", "add", "keep"}

\* One group of a merge.
MergeOne(out, incoming, profile, tag) ==
  LET group == OfTag(incoming, tag) IN
  CASE ActionOf(profile, tag) = "protected" -> out
    [] ActionOf(profile, tag) = "replace" -> ReplaceGroup(out, tag, group)
    [] ActionOf(profile, tag) = "add" -> AddGroup(out, tag, group)
    [] ActionOf(profile, tag) = "keep" -> KeepGroup(out, tag, group)

\* It does what the profile says, and nothing if that is nothing it knows.
LEMMA MergeOneIs ==
  ASSUME NEW out, NEW incoming, NEW profile, NEW tag, profile.default \in Actions
  PROVE  LET group == OfTag(incoming, tag)
             new == MergeOne(out, incoming, profile, tag) IN
         \/ ActionOf(profile, tag) = "protected" /\ new = out
         \/ ActionOf(profile, tag) = "replace" /\ new = ReplaceGroup(out, tag, group)
         \/ ActionOf(profile, tag) = "add" /\ new = AddGroup(out, tag, group)
         \/ ActionOf(profile, tag) = "keep" /\ new = KeepGroup(out, tag, group)
<1> DEFINE action == ActionOf(profile, tag)
<1>1. action \in Actions
  BY DEF ActionOf, Actions
<1> HIDE DEF action
<1>2. action = "protected" \/ action = "replace" \/ action = "add" \/ action = "keep"
  BY <1>1 DEF Actions
<1> QED
  BY <1>2 DEF MergeOne, action

\* It keeps the order.
LEMMA GroupKeeps ==
  ASSUME NEW fields \in Seq(KindFields), NEW incoming \in Seq(KindFields), NEW tag \in Nat,
         NEW profile, profile.default \in Actions
  PROVE  /\ Keeps(fields, MergeOne(fields, incoming, profile, tag))
         /\ Leaves(fields, MergeOne(fields, incoming, profile, tag), {tag})
<1> DEFINE group == OfTag(incoming, tag)
           new == MergeOne(fields, incoming, profile, tag)
<1>1. group \in Seq(KindFields) /\ \A i \in 1..Len(group) : group[i].tag = tag
  BY GroupIs
<1>2. \/ new = fields \/ new = ReplaceGroup(fields, tag, group)
      \/ new = AddGroup(fields, tag, group) \/ new = KeepGroup(fields, tag, group)
  BY MergeOneIs
<1> HIDE DEF group, new
<1>3. Keeps(fields, fields) /\ Leaves(fields, fields, {tag})
  BY LeavesAll DEF Keeps
<1>4. /\ Keeps(fields, ReplaceGroup(fields, tag, group))
      /\ Leaves(fields, ReplaceGroup(fields, tag, group), {tag})
  BY <1>1, ReplaceGroupKeeps
<1>5. Keeps(fields, AddGroup(fields, tag, group)) /\ Leaves(fields, AddGroup(fields, tag, group), {tag})
  BY <1>1, AddGroupKeeps
<1>6. Keeps(fields, KeepGroup(fields, tag, group)) /\ Leaves(fields, KeepGroup(fields, tag, group), {tag})
  BY <1>1, KeepGroupKeeps
<1>7. Keeps(fields, new) /\ Leaves(fields, new, {tag})
  BY <1>2, <1>3, <1>4, <1>5, <1>6
<1> QED
  BY <1>7 DEF new

\* SS[n] holds what the first n groups may make of the base.
MergeCarries(SS, fields, incoming, profile) ==
  LET tags == FirstAppearances(incoming) IN
  /\ fields \in SS[0]
  /\ \A n \in 0..Len(tags) : SS[n] \subseteq Seq(KindFields)
  /\ \A n \in 1..Len(tags) : \A out \in SS[n - 1] :
       MergeOne(out, incoming, profile, tags[n]) \in SS[n]

\* A merge, one group after the other.
LEMMA MergeAlong ==
  ASSUME NEW fields \in Seq(KindFields), NEW incoming \in Seq(KindFields), NEW profile,
         profile.default \in Actions, NEW SS, MergeCarries(SS, fields, incoming, profile)
  PROVE  MergeFields(fields, incoming, profile) \in SS[Len(FirstAppearances(incoming))]
<1> DEFINE tags == FirstAppearances(incoming)
           N == Len(tags)
           S == Seq(KindFields)
           Op(out, tag) == MergeOne(out, incoming, profile, tag)
           step == [p \in (1..N) \X S |-> Op(p[2], tags[p[1]])]
           Rule(it) == [s \in SUBSET DOMAIN tags |->
                          IF s = {} THEN fields ELSE Op(it[s \ {Max(s)}], tags[Max(s)])]
           h == CHOOSE it : it = Rule(it)
<1>1. MergeFields(fields, incoming, profile) = h[DOMAIN tags]
  BY DEF MergeFields, FoldLeft, MapThenFoldSet, MergeOne
<1>2. /\ fields \in SS[0]
      /\ \A n \in 0..N : SS[n] \subseteq S
      /\ \A n \in 1..N : \A out \in SS[n - 1] : Op(out, tags[n]) \in SS[n]
  BY DEF MergeCarries
<1>3. N \in Nat /\ DOMAIN tags = 1..N /\ \A n \in 1..N : tags[n] \in Nat
  <2> HIDE DEF tags
  <2>1. tags \in Seq(Nat)
    BY TagsAre DEF tags
  <2> QED
    BY <2>1
<1> HIDE DEF tags, N
<1>4. ASSUME NEW out \in S, NEW n \in 1..N PROVE Op(out, tags[n]) \in S
  <2>1. tags[n] \in Nat
    BY <1>3
  <2> QED
    BY <2>1, GroupKeeps DEF Keeps
<1>5. fields \in S
  OBVIOUS
<1> HIDE DEF S, Op
<1>6. \A n \in 1..N, out \in S :
        step[<<n, out>>] = Op(out, tags[n]) /\ Op(out, tags[n]) \in S
  BY <1>3, <1>4
<1>7. step \in Steps(1..N, S)
  BY <1>3, <1>4 DEF Steps
<1> HIDE DEF step
<1>8. PICK g : Folding(g, N, S, fields, step)
  BY <1>3, <1>5, <1>7, FoldExists
<1>9. \A s \in SUBSET (1..N) : s # {} => Max(s) \in 1..N /\ s \ {Max(s)} \in SUBSET (1..N)
  BY <1>3, MaxIs
<1>10. g = Rule(g)
  <2>1. g \in [SUBSET (1..N) -> S]
    BY <1>8 DEF Folding
  <2>2. ASSUME NEW s \in SUBSET (1..N)
        PROVE  g[s] = IF s = {} THEN fields ELSE Op(g[s \ {Max(s)}], tags[Max(s)])
    BY <1>6, <1>8, <1>9, <2>1 DEF Folding
  <2> QED
    BY <1>3, <2>1, <2>2
<1>11. h = Rule(h)
  BY <1>10
<1> HIDE DEF h
<1>12. ASSUME NEW s \in SUBSET (1..N), s = {} \/ h[s \ {Max(s)}] \in S
       PROVE  h[s] = IF s = {} THEN fields ELSE step[<<Max(s), h[s \ {Max(s)}]>>]
  <2> DEFINE before == h[s \ {Max(s)}]
  <2>1. h[s] = IF s = {} THEN fields ELSE Op(before, tags[Max(s)])
    BY <1>3, <1>11
  <2>2. s # {} => Max(s) \in 1..N /\ before \in S
    BY <1>9, <1>12
  <2> HIDE DEF before
  <2>3. s # {} => step[<<Max(s), before>>] = Op(before, tags[Max(s)])
    BY <1>6, <2>2
  <2>4. h[s] = IF s = {} THEN fields ELSE step[<<Max(s), before>>]
    BY <2>1, <2>3
  <2> QED
    BY <2>4 DEF before
<1>13. Follows(h, N, S, fields, step)
  BY <1>12 DEF Follows
<1>14. Carries(SS, N, S, fields, step)
  <2>1. ASSUME NEW n \in 1..N, NEW out \in SS[n - 1] PROVE step[<<n, out>>] \in SS[n]
    <3>1. n - 1 \in 0..N
      BY <1>3
    <3>2. out \in S
      BY <1>2, <3>1
    <3> QED
      BY <1>6, <1>2, <3>2
  <2> QED
    BY <1>2, <2>1 DEF Carries
<1>15. h[1..N] \in SS[N]
  BY <1>3, <1>13, <1>14, FoldAlong
<1> QED
  BY <1>1, <1>3, <1>15 DEF N, tags

\* A set of lists of fields that a merge does not leave.
LEMMA MergeStays ==
  ASSUME NEW S \in SUBSET Seq(KindFields), NEW fields \in S, NEW incoming \in Seq(KindFields),
         NEW profile, profile.default \in Actions,
         \A n \in 1..Len(FirstAppearances(incoming)) : \A out \in S :
           MergeOne(out, incoming, profile, FirstAppearances(incoming)[n]) \in S
  PROVE  MergeFields(fields, incoming, profile) \in S
<1> DEFINE tags == FirstAppearances(incoming)
           N == Len(tags)
           SS == [n \in 0..N |-> S]
<1>1. tags \in Seq(Nat)
  BY TagsAre
<1>2. \A n \in 1..N : \A out \in S : MergeOne(out, incoming, profile, tags[n]) \in S
  OBVIOUS
<1> HIDE DEF tags
<1>3. N \in Nat /\ N \in 0..N /\ 0 \in 0..N /\ \A n \in 1..N : n - 1 \in 0..N /\ n \in 0..N
  BY <1>1
<1>4. \A n \in 0..N : SS[n] = S
  OBVIOUS
<1> HIDE DEF SS, N
<1>5. MergeCarries(SS, fields, incoming, profile)
  BY <1>2, <1>3, <1>4 DEF MergeCarries, N, tags
<1>6. MergeFields(fields, incoming, profile) \in SS[N]
  BY <1>5, MergeAlong DEF N, tags
<1> QED
  BY <1>3, <1>4, <1>6

\* The tags a merge is about: those of the incoming record that the profile
\* does not protect.
MergedTags(incoming, profile) ==
  {tag \in TagsOf(incoming) : ActionOf(profile, tag) # "protected"}

\* So a merge keeps the order, and the fields of other tags.
LEMMA MergeFieldsKeep ==
  ASSUME NEW fields \in Seq(KindFields), NEW incoming \in Seq(KindFields), NEW profile,
         profile.default \in Actions
  PROVE  /\ Keeps(fields, MergeFields(fields, incoming, profile))
         /\ Leaves(fields, MergeFields(fields, incoming, profile), MergedTags(incoming, profile))
<1> DEFINE merged == MergedTags(incoming, profile)
           S == {out \in Seq(KindFields) : Keeps(fields, out) /\ Leaves(fields, out, merged)}
           tags == FirstAppearances(incoming)
<1>1. tags \in Seq(Nat) /\ \A n \in 1..Len(tags) : tags[n] \in TagsOf(incoming)
  BY TagsAre
<1>2. ASSUME NEW n \in 1..Len(tags), NEW out \in S
      PROVE  MergeOne(out, incoming, profile, tags[n]) \in S
  <2> DEFINE tag == tags[n]
             new == MergeOne(out, incoming, profile, tag)
  <2>1. out \in Seq(KindFields) /\ Keeps(fields, out) /\ Leaves(fields, out, merged)
    OBVIOUS
  <2>2. tag \in Nat /\ tag \in TagsOf(incoming)
    BY <1>1
  <2> HIDE DEF tag
  <2>3. Keeps(out, new) /\ Leaves(out, new, {tag})
    BY <2>1, <2>2, GroupKeeps
  <2>4. ActionOf(profile, tag) = "protected" => new = out
    BY MergeOneIs
  <2> HIDE DEF new
  <2>5. Leaves(out, new, merged)
    <3>1. CASE ActionOf(profile, tag) = "protected"
      BY <2>4, <3>1, LeavesAll
    <3>2. CASE ActionOf(profile, tag) # "protected"
      <4>1. {tag} \subseteq merged
        BY <2>2, <3>2 DEF MergedTags
      <4> QED
        BY <2>3, <4>1, LeavesMore
    <3> QED
      BY <3>1, <3>2
  <2>6. Leaves(fields, new, merged)
    BY <2>1, <2>5, LeavesAlong
  <2>7. new \in S
    BY <2>1, <2>3, <2>6 DEF Keeps
  <2> QED
    BY <2>7 DEF new, tag
<1>3. fields \in S /\ S \in SUBSET Seq(KindFields)
  BY LeavesAll DEF Keeps
<1> HIDE DEF S
<1>4. MergeFields(fields, incoming, profile) \in S
  BY <1>2, <1>3, MergeStays
<1> QED
  BY <1>4 DEF S

\* A merge keeps records records.
LEMMA MergeKeeps ==
  ASSUME NEW base \in MarcRecords, NEW incoming \in MarcRecords, NEW profile,
         profile.default \in Actions
  PROVE  /\ MergeRecords(base, incoming, profile) \in MarcRecords
         /\ Keeps(base.fields, MergeRecords(base, incoming, profile).fields)
         /\ Leaves(base.fields, MergeRecords(base, incoming, profile).fields,
                   MergedTags(incoming.fields, profile))
<1>1. /\ base.fields \in Seq(KindFields) /\ incoming.fields \in Seq(KindFields)
      /\ base.leader \in Strings /\ incoming.leader \in Strings
  BY DEF MarcRecords
<1> DEFINE fields == MergeFields(base.fields, incoming.fields, profile)
           leader == IF base.leader = "" THEN incoming.leader ELSE base.leader
<1>2. Keeps(base.fields, fields) /\ Leaves(base.fields, fields, MergedTags(incoming.fields, profile))
  BY <1>1, MergeFieldsKeep
<1>3. MergeRecords(base, incoming, profile) = [leader |-> leader, fields |-> fields]
  BY DEF MergeRecords
<1>4. leader \in Strings
  BY <1>1
<1> HIDE DEF fields, leader
<1>5. fields \in Seq(KindFields)
  BY <1>2 DEF Keeps
<1> QED
  BY <1>2, <1>3, <1>4, <1>5 DEF MarcRecords
-----------------------------------------------------------------------------
(***************************************************************************)
(* Merging the same record once more.                                      *)
(***************************************************************************)

\* A tag that occurs has a group.
LEMMA GroupIsThere ==
  ASSUME NEW fields \in Seq(KindFields), NEW tag
  PROVE  tag \in TagsOf(fields) <=> OfTag(fields, tag) # <<>>
<1> DEFINE group == OfTag(fields, tag)
<1>1. ASSUME tag \in TagsOf(fields) PROVE group # <<>>
  <2> DEFINE P == PositionsOf(fields, {tag})
  <2>1. PICK i \in DOMAIN fields : fields[i].tag = tag
    BY <1>1 DEF TagsOf
  <2>2. i \in P /\ i \in 1..Len(fields)
    BY <2>1 DEF PositionsOf
  <2>3. group = ElementsAt(fields, P)
    BY DEF OfTag
  <2> HIDE DEF P, group
  <2>4. group \in Seq(KindFields) /\ \E pos : Places(pos, group, Len(fields), fields, P)
    BY <2>3, Picked
  <2>5. PICK pos : Places(pos, group, Len(fields), fields, P)
    BY <2>4
  <2>6. \E n \in 1..Len(group) : pos[n] = i
    BY <2>2, <2>5 DEF Places
  <2> QED
    BY <2>6
<1>2. ASSUME tag \notin TagsOf(fields) PROVE group = <<>>
  <2>1. \A i \in 1..Len(fields) : fields[i].tag \notin {tag}
    BY <1>2 DEF TagsOf
  <2>2. Having(fields, {tag}) = <<>>
    BY <2>1, HavingNone
  <2> QED
    BY <2>2, HavingIs
<1> QED
  BY <1>1, <1>2

\* A group that is inserted where there is none of its tag is the tag's.
IsGroup(fields, tag, group) == Having(fields, {tag}) = group

\* See IsGroup.
LEMMA InsertedHas ==
  ASSUME NEW fields \in Seq(KindFields), NEW group \in Seq(KindFields), NEW pos \in 0..Len(fields),
         NEW tag, \A i \in 1..Len(fields) : fields[i].tag # tag,
         \A i \in 1..Len(group) : group[i].tag = tag
  PROVE  IsGroup(Insert(fields, pos, group), tag, group)
<1> DEFINE a == SubSeq(fields, 1, pos)
           b == SubSeq(fields, pos + 1, Len(fields))
<1>1. /\ a \in Seq(KindFields) /\ Len(a) = pos /\ \A i \in 1..pos : a[i] = fields[i]
      /\ b \in Seq(KindFields) /\ Len(b) = Len(fields) - pos
      /\ \A i \in 1..(Len(fields) - pos) : b[i] = fields[pos + i]
  BY Parted
<1>2. Having(Insert(fields, pos, group), {tag}) = (Having(a, {tag}) \o Having(group, {tag})) \o Having(b, {tag})
  BY HavingInserted DEF InsertedApart
<1>3. Len(fields) \in Nat /\ pos \in Nat /\ pos <= Len(fields)
  OBVIOUS
<1> HIDE DEF a, b
<1>4. Having(a, {tag}) = <<>>
  <2>1. ASSUME NEW i \in 1..Len(a) PROVE a[i].tag \notin {tag}
    <3>1. i \in 1..pos /\ i \in 1..Len(fields)
      BY <1>1, <1>3
    <3>2. a[i] = fields[i]
      BY <1>1, <3>1
    <3> QED
      BY <3>1, <3>2
  <2> QED
    BY <1>1, <2>1, HavingNone
<1>5. Having(b, {tag}) = <<>>
  <2>1. ASSUME NEW i \in 1..Len(b) PROVE b[i].tag \notin {tag}
    <3>1. pos + i \in 1..Len(fields) /\ b[i] = fields[pos + i]
      BY <1>1, <1>3
    <3> QED
      BY <3>1
  <2> QED
    BY <1>1, <2>1, HavingNone
<1>6. Having(group, {tag}) = group
  <2>1. \A i \in 1..Len(group) : group[i].tag \in {tag}
    OBVIOUS
  <2> QED
    BY <2>1, HavingAll
<1>7. (<<>> \o group) \o <<>> = group
  OBVIOUS
<1> QED
  BY <1>2, <1>4, <1>5, <1>6, <1>7 DEF IsGroup

\* Where a group is replaced: among the other fields, the rest, at a position
\* of them.
ReplacedAt(fields, tag, group, rest, pos) ==
  /\ rest \in Seq(KindFields) /\ \A i \in 1..Len(rest) : rest[i].tag # tag
  /\ pos \in 0..Len(rest)
  /\ ReplaceGroup(fields, tag, group) = Insert(rest, pos, group)
  /\ \A first \in PositionsOf(fields, {tag}) :
       (\A j \in PositionsOf(fields, {tag}) : first <= j) =>
         pos = IF first - 1 = Len(rest) THEN TagOrderPosition(rest, tag) ELSE first - 1

\* See ReplacedAt.
LEMMA ReplaceGroupIs ==
  ASSUME NEW fields \in Seq(KindFields), NEW tag \in Nat, NEW group
  PROVE  \E pos : ReplacedAt(fields, tag, group, Without(fields, {tag}), pos)
<1> DEFINE old == PositionsOf(fields, {tag})
           P == DOMAIN fields \ old
           rest == ElementsAt(fields, P)
           first == CHOOSE i \in old : \A j \in old : i <= j
           before == IF old = {} THEN Len(rest) ELSE first - 1
           pos == IF before = Len(rest) THEN TagOrderPosition(rest, tag) ELSE before
<1>1. ReplaceGroup(fields, tag, group) = Insert(rest, pos, group) /\ Without(fields, {tag}) = rest
  BY DEF ReplaceGroup, Without
<1>2. DOMAIN fields = 1..Len(fields) /\ Len(fields) \in Nat
  OBVIOUS
<1>3. /\ \A i \in 1..Len(fields) : i \in old <=> fields[i].tag = tag
      /\ \A i \in old : i \in 1..Len(fields)
      /\ P = 1..Len(fields) \ old
  BY DEF PositionsOf
<1>4. old # {} => first \in old /\ \A j \in old : first <= j
  <2> SUFFICES ASSUME old # {} PROVE \E i \in old : \A j \in old : i <= j
    OBVIOUS
  <2> HIDE DEF old
  <2>1. old \in SUBSET Nat
    BY <1>3
  <2> QED
    BY <2>1, Least
<1> HIDE DEF old, P, first
<1>5. rest \in Seq(KindFields) /\ \E places : Places(places, rest, Len(fields), fields, P)
  BY Picked
<1> HIDE DEF rest
<1>6. PICK places : Places(places, rest, Len(fields), fields, P)
  BY <1>5
<1>7. ASSUME NEW i \in 1..Len(rest) PROVE rest[i].tag # tag
  <2>1. places[i] \in P /\ rest[i] = fields[places[i]]
    BY <1>6 DEF Places
  <2> QED
    BY <1>3, <2>1
<1>8. pos \in 0..Len(rest)
  <2>1. CASE before = Len(rest)
    BY <2>1, <1>5, PositionIs
  <2>2. CASE before # Len(rest)
    <3>1. old # {} /\ pos = first - 1 /\ first \in old
      BY <1>4, <2>2
    <3>2. pos \in 0..Len(fields) /\ 1..pos \subseteq P
      <4>1. first \in 1..Len(fields)
        BY <1>3, <3>1
      <4>2. pos \in 0..Len(fields)
        BY <1>2, <3>1, <4>1
      <4>3. ASSUME NEW k \in 1..pos PROVE k \in P
        <5> HIDE DEF pos
        <5>1. k \in 1..Len(fields) /\ k < first
          BY <1>2, <3>1, <4>1, <4>2
        <5>2. k \notin old
          BY <1>2, <1>4, <3>1, <4>1, <5>1
        <5> QED
          BY <1>3, <5>1, <5>2
      <4> QED
        BY <4>2, <4>3
    <3> HIDE DEF pos
    <3>3. pos <= Len(rest)
      BY <1>6, <3>2 DEF Places
    <3> QED
      BY <1>5, <3>2, <3>3
  <2> QED
    BY <2>1, <2>2
<1>9. ASSUME NEW f \in old, \A j \in old : f <= j
      PROVE  pos = IF f - 1 = Len(rest) THEN TagOrderPosition(rest, tag) ELSE f - 1
  <2>1. old # {} /\ first \in old /\ first <= f /\ f <= first
    BY <1>4, <1>9
  <2>2. f = first
    BY <1>3, <2>1
  <2> QED
    BY <2>1, <2>2
<1> HIDE DEF pos
<1>10. ReplacedAt(fields, tag, group, rest, pos)
  BY <1>1, <1>5, <1>7, <1>8, <1>9 DEF old, ReplacedAt
<1> QED
  BY <1>1, <1>10

\* What stands between two parts.
Between(w, a, b, c) == Insert(w, Len(a), b) = a \o (b \o c)

\* See Between.
LEMMA InsertBetween ==
  ASSUME NEW S, NEW a \in Seq(S), NEW b \in Seq(S), NEW c \in Seq(S), NEW w \in Seq(S), w = a \o c
  PROVE  Between(w, a, b, c)
<1> DEFINE x == SubSeq(w, 1, Len(a))
           y == SubSeq(w, Len(a) + 1, Len(w))
<1>1. /\ Len(w) = Len(a) + Len(c) /\ Len(a) \in Nat /\ Len(c) \in Nat /\ Len(a) \in 0..Len(w)
      /\ \A i \in 1..Len(a) : w[i] = a[i]
      /\ \A i \in 1..Len(c) : w[Len(a) + i] = c[i]
  BY Joined
<1>2. /\ x \in Seq(S) /\ Len(x) = Len(a) /\ \A i \in 1..Len(a) : x[i] = w[i]
      /\ y \in Seq(S) /\ Len(y) = Len(w) - Len(a)
      /\ \A i \in 1..(Len(w) - Len(a)) : y[i] = w[Len(a) + i]
  <2>1. PICK m \in 0..Len(w) : m = Len(a)
    BY <1>1
  <2>2. /\ SubSeq(w, 1, m) \in Seq(S) /\ Len(SubSeq(w, 1, m)) = m
        /\ \A i \in 1..m : SubSeq(w, 1, m)[i] = w[i]
        /\ SubSeq(w, m + 1, Len(w)) \in Seq(S) /\ Len(SubSeq(w, m + 1, Len(w))) = Len(w) - m
        /\ \A i \in 1..(Len(w) - m) : SubSeq(w, m + 1, Len(w))[i] = w[m + i]
    BY Parted, SMTT(30)
  <2> QED
    BY <2>1, <2>2
<1> HIDE DEF x, y
<1>3. x = a
  BY <1>1, <1>2, SeqEqual
<1>4. y = c
  <2>1. Len(y) = Len(c) /\ \A i \in 1..Len(c) : y[i] = c[i]
    BY <1>1, <1>2
  <2> QED
    BY <1>2, <2>1, SeqEqual
<1>5. Insert(w, Len(a), b) = (a \o b) \o c
  BY <1>3, <1>4 DEF Insert, x, y
<1>6. (a \o b) \o c = a \o (b \o c)
  OBVIOUS
<1> QED
  BY <1>5, <1>6 DEF Between

\* In tag order, the fields of a tag stand together: a before them, b, and c
\* behind them.
Grouped(fields, tag, a, b, c) ==
  /\ fields = a \o (b \o c)
  /\ Having(fields, {tag}) = b /\ Having(fields, Nat \ {tag}) = a \o c
  /\ Len(a) + 1 \in PositionsOf(fields, {tag})
  /\ \A j \in PositionsOf(fields, {tag}) : Len(a) + 1 <= j
  /\ \A i \in 1..Len(a) : a[i].tag < tag

\* See Grouped.
LEMMA StandTogether ==
  ASSUME NEW fields \in Seq(KindFields), InTagOrder(fields), NEW tag \in Nat, tag \in TagsOf(fields)
  PROVE  \E a, b, c \in Seq(KindFields) : Grouped(fields, tag, a, b, c)
<1> DEFINE L == Len(fields)
           old == PositionsOf(fields, {tag})
<1>1. L \in Nat /\ DOMAIN fields = 1..L /\ \A i \in 1..L : fields[i].tag \in Nat
  BY DEF KindFields, Fields
<1>2. /\ \A i \in 1..L : i \in old <=> fields[i].tag = tag
      /\ old \in SUBSET Nat /\ old # {} /\ \A i \in old : i \in 1..L /\ i <= L
  BY <1>1 DEF PositionsOf, TagsOf
<1>3. \A i, j \in 1..L : i < j => fields[i].tag <= fields[j].tag
  BY <1>1 DEF InTagOrder
<1> HIDE DEF old, L
<1>4. PICK first \in old : \A j \in old : first <= j
  BY <1>2, Least
<1>5. PICK final \in old : \A j \in old : j <= final
  BY <1>1, <1>2, Greatest
<1>6. first \in 1..L /\ final \in 1..L /\ first <= final /\ first \in Nat /\ final \in Nat
  BY <1>1, <1>2, <1>4, <1>5
<1>7. fields[first].tag = tag /\ fields[final].tag = tag
  BY <1>2, <1>4, <1>5, <1>6
<1>8. ASSUME NEW i \in 1..L, i < first PROVE fields[i].tag < tag
  <2>1. i \notin old
    BY <1>1, <1>4, <1>6, <1>8
  <2> QED
    BY <1>1, <1>2, <1>3, <1>6, <1>7, <1>8, <2>1
<1>9. ASSUME NEW i \in 1..L, first <= i, i <= final PROVE fields[i].tag = tag
  <2>1. CASE i = first \/ i = final
    BY <1>7, <2>1
  <2>2. CASE first < i /\ i < final
    BY <1>1, <1>3, <1>6, <1>7, <2>2
  <2> QED
    BY <1>1, <1>6, <1>9, <2>1, <2>2
<1>10. ASSUME NEW i \in 1..L, final < i PROVE fields[i].tag # tag
  BY <1>1, <1>2, <1>5, <1>6, <1>10
<1>11. PICK n \in 0..L : n = first - 1
  BY <1>1, <1>6
<1> DEFINE a == SubSeq(fields, 1, n)
           d == SubSeq(fields, n + 1, Len(fields))
<1>12. /\ a \in Seq(KindFields) /\ Len(a) = n /\ \A i \in 1..n : a[i] = fields[i]
       /\ d \in Seq(KindFields) /\ Len(d) = L - n
       /\ \A i \in 1..(L - n) : d[i] = fields[n + i]
  BY Parted DEF L
<1>13. Apart(fields, a, d, {tag}) /\ Apart(fields, a, d, Nat \ {tag})
  BY HavingParts DEF L
<1> HIDE DEF a, d
<1>14. PICK k \in 0..Len(d) : k = final - n
  BY <1>1, <1>6, <1>11, <1>12
<1> DEFINE b == SubSeq(d, 1, k)
           c == SubSeq(d, k + 1, Len(d))
<1>15. /\ b \in Seq(KindFields) /\ Len(b) = k /\ \A i \in 1..k : b[i] = d[i]
       /\ c \in Seq(KindFields) /\ Len(c) = Len(d) - k
       /\ \A i \in 1..(Len(d) - k) : c[i] = d[k + i]
  BY <1>12, Parted
<1>16. Apart(d, b, c, {tag}) /\ Apart(d, b, c, Nat \ {tag})
  BY <1>12, HavingParts
<1> HIDE DEF b, c
<1>17. \A i \in 1..Len(a) : a[i] \in KindFields /\ a[i].tag \in Nat /\ a[i].tag < tag
  <2>1. ASSUME NEW i \in 1..Len(a)
        PROVE  a[i] \in KindFields /\ a[i].tag \in Nat /\ a[i].tag < tag
    <3>1. i \in 1..L /\ i < first /\ a[i] = fields[i]
      BY <1>1, <1>6, <1>11, <1>12
    <3> QED
      BY <1>1, <1>8, <1>12, <3>1
  <2> QED
    BY <2>1
<1>18. \A i \in 1..Len(b) : b[i].tag = tag
  <2>1. ASSUME NEW i \in 1..Len(b) PROVE b[i].tag = tag
    <3>1. /\ i \in 1..k /\ i \in 1..(L - n) /\ n + i \in 1..L /\ first <= n + i /\ n + i <= final
      BY <1>1, <1>6, <1>11, <1>12, <1>14, <1>15
    <3>2. b[i] = fields[n + i]
      BY <1>12, <1>15, <3>1
    <3> QED
      BY <1>9, <3>1, <3>2
  <2> QED
    BY <2>1
<1>19. \A i \in 1..Len(c) : c[i].tag # tag /\ c[i].tag \in Nat
  <2>1. ASSUME NEW i \in 1..Len(c) PROVE c[i].tag # tag /\ c[i].tag \in Nat
    <3>1. /\ i \in 1..(Len(d) - k) /\ k + i \in 1..(L - n) /\ n + (k + i) \in 1..L
          /\ final < n + (k + i)
      BY <1>1, <1>6, <1>11, <1>12, <1>14, <1>15
    <3>2. c[i] = fields[n + (k + i)]
      BY <1>12, <1>15, <3>1
    <3> QED
      BY <1>1, <1>10, <3>1, <3>2
  <2> QED
    BY <2>1
<1>20. Having(a, {tag}) = <<>> /\ Having(a, Nat \ {tag}) = a
  <2>1. /\ \A i \in 1..Len(a) : a[i].tag \notin {tag}
        /\ \A i \in 1..Len(a) : a[i].tag \in Nat \ {tag}
    BY <1>17
  <2> QED
    BY <1>12, <2>1, HavingNone, HavingAll
<1>21. Having(b, {tag}) = b /\ Having(b, Nat \ {tag}) = <<>>
  <2>1. /\ \A i \in 1..Len(b) : b[i].tag \in {tag}
        /\ \A i \in 1..Len(b) : b[i].tag \notin Nat \ {tag}
    BY <1>18
  <2> QED
    BY <1>15, <2>1, HavingNone, HavingAll
<1>22. Having(c, {tag}) = <<>> /\ Having(c, Nat \ {tag}) = c
  <2>1. /\ \A i \in 1..Len(c) : c[i].tag \notin {tag}
        /\ \A i \in 1..Len(c) : c[i].tag \in Nat \ {tag}
    BY <1>19
  <2> QED
    BY <1>15, <2>1, HavingNone, HavingAll
<1>23. b \o <<>> = b /\ <<>> \o b = b /\ <<>> \o c = c
  BY <1>15, ConcatEmptySeq
<1>24. Having(d, {tag}) = b /\ Having(d, Nat \ {tag}) = c /\ d = b \o c
  BY <1>16, <1>21, <1>22, <1>23 DEF Apart
<1>25. Having(fields, {tag}) = b /\ Having(fields, Nat \ {tag}) = a \o c /\ fields = a \o (b \o c)
  BY <1>13, <1>20, <1>23, <1>24 DEF Apart
<1>26. Len(a) + 1 \in old /\ \A j \in old : Len(a) + 1 <= j
  BY <1>4, <1>6, <1>11, <1>12
<1>27. Grouped(fields, tag, a, b, c)
  BY <1>17, <1>25, <1>26 DEF Grouped, old
<1> QED
  BY <1>12, <1>15, <1>27

\* So, in tag order, replacing a group by itself changes nothing.
LEMMA ReplaceSelf ==
  ASSUME NEW fields \in Seq(KindFields), InTagOrder(fields), NEW tag \in Nat, tag \in TagsOf(fields)
  PROVE  ReplaceGroup(fields, tag, Having(fields, {tag})) = fields
<1>1. PICK a, b, c \in Seq(KindFields) : Grouped(fields, tag, a, b, c)
  BY StandTogether
<1> DEFINE rest == Without(fields, {tag})
<1>2. PICK pos : ReplacedAt(fields, tag, b, rest, pos)
  BY ReplaceGroupIs
<1>3. rest \in Seq(KindFields) /\ rest = a \o c
  <2>1. rest = Having(fields, Nat \ {tag})
    BY HavingIs
  <2>2. rest = a \o c
    BY <1>1, <2>1 DEF Grouped
  <2>3. a \o c \in Seq(KindFields)
    BY ConcatProperties
  <2> QED
    BY <2>2, <2>3
<1> HIDE DEF rest
<1>4. /\ Len(rest) = Len(a) + Len(c) /\ Len(a) \in Nat /\ Len(c) \in Nat
      /\ \A i \in 1..Len(a) : rest[i] = a[i]
  BY <1>3, Joined
<1>5. (Len(a) + 1) - 1 = Len(a)
  BY <1>4
<1>6. pos = IF Len(a) = Len(rest) THEN TagOrderPosition(rest, tag) ELSE Len(a)
  <2>1. Len(a) + 1 \in PositionsOf(fields, {tag}) /\ \A j \in PositionsOf(fields, {tag}) : Len(a) + 1 <= j
    BY <1>1 DEF Grouped
  <2> QED
    BY <1>2, <1>5, <2>1 DEF ReplacedAt
<1>7. pos = Len(a)
  <2>1. CASE Len(a) = Len(rest)
    <3>1. /\ TagOrderPosition(rest, tag) \in 0..Len(rest)
          /\ \A i \in 1..Len(rest) : i > TagOrderPosition(rest, tag) => rest[i].tag >= tag
      BY <1>3, PositionIs
    <3>2. ASSUME pos # Len(rest) PROVE FALSE
      <4>1. pos < Len(rest) /\ Len(rest) \in 1..Len(a) /\ Len(rest) \in 1..Len(rest)
        BY <1>4, <1>6, <2>1, <3>1, <3>2
      <4>2. rest[Len(rest)].tag >= tag
        BY <1>6, <2>1, <3>1, <4>1
      <4>3. rest[Len(rest)] = a[Len(rest)] /\ a[Len(rest)].tag < tag
        BY <1>1, <1>4, <4>1 DEF Grouped
      <4>4. rest[Len(rest)].tag \in Nat
        BY <1>3, <4>1 DEF KindFields, Fields
      <4> QED
        BY <4>2, <4>3, <4>4
    <3> QED
      BY <2>1, <3>2
  <2>2. CASE Len(a) # Len(rest)
    BY <1>6, <2>2
  <2> QED
    BY <2>1, <2>2
<1>8. Between(rest, a, b, c)
  BY <1>3, InsertBetween
<1> QED
  BY <1>1, <1>2, <1>7, <1>8 DEF Grouped, Between, ReplacedAt

\* What a merge has made of the fields of a tag, so that another merge of the
\* same record has nothing left to do.
Settled(out, incoming, profile, tag) ==
  /\ ActionOf(profile, tag) = "replace" => Having(out, {tag}) = OfTag(incoming, tag)
  /\ ActionOf(profile, tag) = "keep" => Having(out, {tag}) # <<>>

\* One group of a merge settles its tag,
LEMMA GroupSettles ==
  ASSUME NEW out \in Seq(KindFields), NEW incoming \in Seq(KindFields), NEW tag \in Nat,
         tag \in TagsOf(incoming), NEW profile, profile.default \in Actions
  PROVE  Settled(MergeOne(out, incoming, profile, tag), incoming, profile, tag)
<1> DEFINE group == OfTag(incoming, tag)
           new == MergeOne(out, incoming, profile, tag)
<1>1. /\ group \in Seq(KindFields) /\ \A i \in 1..Len(group) : group[i].tag = tag
      /\ group # <<>>
  BY GroupIs, GroupIsThere
<1>2. /\ ActionOf(profile, tag) = "replace" => new = ReplaceGroup(out, tag, group)
      /\ ActionOf(profile, tag) = "keep" => new = KeepGroup(out, tag, group)
  BY DEF MergeOne
<1> HIDE DEF group, new
<1>3. Having(ReplaceGroup(out, tag, group), {tag}) = group
  <2> DEFINE rest == Without(out, {tag})
  <2>1. PICK pos : ReplacedAt(out, tag, group, rest, pos)
    BY ReplaceGroupIs
  <2> HIDE DEF rest
  <2>2. /\ rest \in Seq(KindFields) /\ pos \in 0..Len(rest)
        /\ \A i \in 1..Len(rest) : rest[i].tag # tag
        /\ ReplaceGroup(out, tag, group) = Insert(rest, pos, group)
    BY <2>1 DEF ReplacedAt
  <2>3. IsGroup(Insert(rest, pos, group), tag, group)
    BY <1>1, <2>2, InsertedHas
  <2> QED
    BY <2>2, <2>3 DEF IsGroup
<1>4. Having(KeepGroup(out, tag, group), {tag}) # <<>>
  <2>1. CASE PositionsOf(out, {tag}) # {}
    <3>1. tag \in TagsOf(out)
      BY <2>1 DEF PositionsOf, TagsOf
    <3>2. KeepGroup(out, tag, group) = out
      BY <2>1 DEF KeepGroup
    <3>3. OfTag(out, tag) # <<>> /\ OfTag(out, tag) = Having(out, {tag})
      BY <3>1, GroupIsThere, HavingIs
    <3> QED
      BY <3>2, <3>3
  <2>2. CASE PositionsOf(out, {tag}) = {}
    <3> DEFINE pos == TagOrderPosition(out, tag)
    <3>1. pos \in 0..Len(out)
      BY PositionIs
    <3>2. KeepGroup(out, tag, group) = Insert(out, pos, group)
      BY <2>2 DEF KeepGroup
    <3>3. \A i \in 1..Len(out) : out[i].tag # tag
      BY <2>2 DEF PositionsOf
    <3> HIDE DEF pos
    <3>4. IsGroup(Insert(out, pos, group), tag, group)
      BY <1>1, <3>1, <3>3, InsertedHas
    <3> QED
      BY <1>1, <3>2, <3>4 DEF IsGroup
  <2> QED
    BY <2>1, <2>2
<1>5. Settled(new, incoming, profile, tag)
  BY <1>2, <1>3, <1>4 DEF Settled, group
<1> QED
  BY <1>5 DEF new

\* and leaves the others settled;
LEMMA SettledStays ==
  ASSUME NEW out, NEW new, NEW incoming, NEW profile, NEW tag, NEW other, tag # other,
         Settled(out, incoming, profile, tag), Leaves(out, new, {other})
  PROVE  Settled(new, incoming, profile, tag)
<1>1. Having(new, {tag}) = Having(out, {tag})
  BY DEF Leaves
<1> QED
  BY <1>1 DEF Settled

\* and it changes nothing when its tag is settled.
LEMMA GroupChangesNothing ==
  ASSUME NEW out \in Seq(KindFields), InTagOrder(out), NEW incoming \in Seq(KindFields),
         NEW tag \in Nat, tag \in TagsOf(incoming), NEW profile, profile.default \in Actions,
         ActionOf(profile, tag) # "add", Settled(out, incoming, profile, tag)
  PROVE  MergeOne(out, incoming, profile, tag) = out
<1> DEFINE group == OfTag(incoming, tag)
           new == MergeOne(out, incoming, profile, tag)
<1>1. \/ ActionOf(profile, tag) = "protected" /\ new = out
      \/ ActionOf(profile, tag) = "replace" /\ new = ReplaceGroup(out, tag, group)
      \/ ActionOf(profile, tag) = "keep" /\ new = KeepGroup(out, tag, group)
  BY MergeOneIs
<1>2. group # <<>> /\ Having(out, {tag}) = OfTag(out, tag)
  BY GroupIsThere, HavingIs
<1>3. OfTag(out, tag) # <<>> => tag \in TagsOf(out)
  BY GroupIsThere
<1> HIDE DEF new
<1>4. CASE ActionOf(profile, tag) = "replace" /\ new = ReplaceGroup(out, tag, group)
  <2>1. Having(out, {tag}) = group /\ tag \in TagsOf(out)
    BY <1>2, <1>3, <1>4 DEF Settled
  <2>2. ReplaceGroup(out, tag, Having(out, {tag})) = out
    BY <2>1, ReplaceSelf
  <2> QED
    BY <1>4, <2>1, <2>2 DEF new
<1>5. CASE ActionOf(profile, tag) = "keep" /\ new = KeepGroup(out, tag, group)
  <2>1. tag \in TagsOf(out)
    BY <1>2, <1>3, <1>5 DEF Settled
  <2>2. PositionsOf(out, {tag}) # {}
    BY <2>1 DEF TagsOf, PositionsOf
  <2> QED
    BY <1>5, <2>2 DEF KeepGroup, new
<1> QED
  BY <1>1, <1>4, <1>5 DEF new

\* So a merge settles all tags of the incoming record,
LEMMA MergeSettles ==
  ASSUME NEW fields \in Seq(KindFields), NEW incoming \in Seq(KindFields), NEW profile,
         profile.default \in Actions
  PROVE  LET tags == FirstAppearances(incoming) IN
         \A n \in 1..Len(tags) :
           Settled(MergeFields(fields, incoming, profile), incoming, profile, tags[n])
<1> DEFINE tags == FirstAppearances(incoming)
           N == Len(tags)
           SS == [n \in 0..N |-> {out \in Seq(KindFields) :
                    \A m \in 1..n : Settled(out, incoming, profile, tags[m])}]
<1>1. tags \in Seq(Nat) /\ \A n \in 1..N : tags[n] \in TagsOf(incoming)
  BY TagsAre
<1>2. \A n \in 1..N, out \in Seq(KindFields) :
        /\ MergeOne(out, incoming, profile, tags[n]) \in Seq(KindFields)
        /\ Leaves(out, MergeOne(out, incoming, profile, tags[n]), {tags[n]})
        /\ Settled(MergeOne(out, incoming, profile, tags[n]), incoming, profile, tags[n])
  <2> SUFFICES ASSUME NEW n \in 1..N, NEW out \in Seq(KindFields)
               PROVE  /\ MergeOne(out, incoming, profile, tags[n]) \in Seq(KindFields)
                      /\ Leaves(out, MergeOne(out, incoming, profile, tags[n]), {tags[n]})
                      /\ Settled(MergeOne(out, incoming, profile, tags[n]), incoming, profile,
                                 tags[n])
    OBVIOUS
  <2> DEFINE tag == tags[n]
  <2>1. tag \in Nat /\ tag \in TagsOf(incoming)
    BY <1>1
  <2> HIDE DEF tag
  <2>2. /\ Keeps(out, MergeOne(out, incoming, profile, tag))
        /\ Leaves(out, MergeOne(out, incoming, profile, tag), {tag})
    BY <2>1, GroupKeeps
  <2>3. Settled(MergeOne(out, incoming, profile, tag), incoming, profile, tag)
    BY <2>1, GroupSettles
  <2> QED
    BY <2>2, <2>3 DEF Keeps, tag
<1>3. N \in Nat
  BY <1>1
<1> HIDE DEF tags, N
<1>4. \A n \in 0..N : SS[n] = {out \in Seq(KindFields) :
        \A m \in 1..n : Settled(out, incoming, profile, tags[m])}
  OBVIOUS
<1> HIDE DEF SS
<1>5. fields \in SS[0] /\ \A n \in 0..N : SS[n] \subseteq Seq(KindFields)
  BY <1>3, <1>4
<1>6. ASSUME NEW n \in 1..N, NEW out \in SS[n - 1]
      PROVE  MergeOne(out, incoming, profile, tags[n]) \in SS[n]
  <2> DEFINE new == MergeOne(out, incoming, profile, tags[n])
  <2>1. n - 1 \in 0..N /\ n \in 0..N
    BY <1>3
  <2>2. out \in Seq(KindFields) /\ \A m \in 1..(n - 1) : Settled(out, incoming, profile, tags[m])
    BY <1>4, <2>1
  <2>3. new \in Seq(KindFields) /\ Leaves(out, new, {tags[n]}) /\ Settled(new, incoming, profile, tags[n])
    BY <1>2, <2>2
  <2> HIDE DEF new
  <2>4. ASSUME NEW m \in 1..n PROVE Settled(new, incoming, profile, tags[m])
    <3>1. CASE tags[m] = tags[n]
      BY <2>3, <3>1
    <3>2. CASE tags[m] # tags[n]
      <4>1. m \in 1..(n - 1)
        BY <1>3, <3>2
      <4>2. Settled(out, incoming, profile, tags[m])
        BY <2>2, <4>1
      <4> QED
        BY <2>3, <3>2, <4>2, SettledStays
    <3> QED
      BY <3>1, <3>2
  <2>5. new \in SS[n]
    BY <1>4, <2>1, <2>3, <2>4
  <2> QED
    BY <2>5 DEF new
<1>7. MergeCarries(SS, fields, incoming, profile)
  BY <1>5, <1>6 DEF MergeCarries, N, tags
<1>8. MergeFields(fields, incoming, profile) \in SS[N]
  BY <1>7, MergeAlong DEF N, tags
<1>9. N \in 0..N
  BY <1>3
<1>10. \A m \in 1..N : Settled(MergeFields(fields, incoming, profile), incoming, profile, tags[m])
  BY <1>4, <1>8, <1>9
<1> QED
  BY <1>10 DEF N, tags

\* and a second one changes nothing.
LEMMA MergeTwice ==
  ASSUME NEW fields \in Seq(KindFields), InTagOrder(fields), NEW incoming \in Seq(KindFields),
         NEW profile, profile.default \in Actions,
         \A tag \in TagsOf(incoming) : ActionOf(profile, tag) # "add"
  PROVE  LET once == MergeFields(fields, incoming, profile)
         IN  MergeFields(once, incoming, profile) = once
<1> DEFINE tags == FirstAppearances(incoming)
           once == MergeFields(fields, incoming, profile)
           S == {once}
<1>1. tags \in Seq(Nat) /\ \A n \in 1..Len(tags) : tags[n] \in TagsOf(incoming)
  BY TagsAre
<1>2. once \in Seq(KindFields) /\ InTagOrder(once)
  BY MergeFieldsKeep DEF Keeps
<1>3. \A n \in 1..Len(tags) : Settled(once, incoming, profile, tags[n])
  BY MergeSettles
<1> HIDE DEF once
<1>4. ASSUME NEW n \in 1..Len(tags), NEW out \in S
      PROVE  MergeOne(out, incoming, profile, tags[n]) \in S
  <2> DEFINE tag == tags[n]
  <2>1. /\ tag \in Nat /\ tag \in TagsOf(incoming) /\ Settled(once, incoming, profile, tag)
        /\ ActionOf(profile, tag) # "add" /\ out = once
    BY <1>1, <1>3
  <2> HIDE DEF tag
  <2>2. MergeOne(once, incoming, profile, tag) = once
    BY <1>2, <2>1, GroupChangesNothing
  <2> QED
    BY <2>1, <2>2 DEF tag
<1>5. once \in S /\ S \in SUBSET Seq(KindFields)
  BY <1>2
<1> HIDE DEF S
<1>6. MergeFields(once, incoming, profile) \in S
  BY <1>4, <1>5, MergeStays
<1> QED
  BY <1>6 DEF S, once
-----------------------------------------------------------------------------
(***************************************************************************)
(* Comparing records.                                                      *)
(***************************************************************************)

\* e names, in ascending order, the fields of a tag that are not listed.
Names(e, fields, listed, tag) ==
  /\ Len(e) \in Nat /\ Ascending(e, Len(e))
  /\ \A k \in 1..Len(e) : e[k] \in 1..Len(fields) /\ fields[e[k]].tag = tag /\ e[k] \notin listed
  /\ \A i \in 1..Len(fields) :
       fields[i].tag = tag /\ i \notin listed => \E k \in 1..Len(e) : e[k] = i

\* The occurrences of a tag, as DiffEntries counts them.
OccurrencesOf(fields, tag) == ElementsAt([i \in DOMAIN fields |-> i], PositionsOf(fields, {tag}))

\* They are all of its fields.
LEMMA OccurrencesAre ==
  ASSUME NEW fields \in Seq(KindFields), NEW tag
  PROVE  Names(OccurrencesOf(fields, tag), fields, {}, tag)
<1> DEFINE all == [i \in DOMAIN fields |-> i]
           P == PositionsOf(fields, {tag})
           e == OccurrencesOf(fields, tag)
           L == Len(fields)
<1>1. L \in Nat /\ DOMAIN fields = 1..L
  OBVIOUS
<1>2. all \in Seq(Nat) /\ Len(all) = L /\ \A i \in 1..L : all[i] = i
  BY <1>1
<1>3. \A i \in 1..L : i \in P <=> fields[i].tag = tag
  BY <1>1 DEF PositionsOf
<1>4. e = ElementsAt(all, P)
  BY DEF OccurrencesOf
<1> HIDE DEF all, P, e, L
<1>5. e \in Seq(Nat) /\ \E pos : Places(pos, e, Len(all), all, P)
  BY <1>2, <1>4, Picked
<1>6. PICK pos : Places(pos, e, L, all, P)
  BY <1>2, <1>5
<1>7. \A k \in 1..Len(e) : pos[k] \in 1..L /\ pos[k] \in P /\ e[k] = pos[k]
  BY <1>2, <1>6 DEF Places
<1>8. \A k, l \in 1..Len(e) : k < l => e[k] < e[l]
  BY <1>6, <1>7 DEF Places
<1>9. \A i \in 1..L : i \in P => \E k \in 1..Len(e) : e[k] = i
  BY <1>6, <1>7 DEF Places
<1>10. Len(e) \in Nat /\ e \in [1..Len(e) -> Nat]
  BY <1>5
<1> QED
  BY <1>3, <1>7, <1>8, <1>9, <1>10 DEF Names, Ascending, e, L

\* Fields in breaker form.
Rendered == {RenderFieldBreaker(f) : f \in KindFields}

\* The breaker form keeps the tag.
LEMMA RenderKeeps ==
  ASSUME NEW f \in KindFields
  PROVE  RenderFieldBreaker(f) \in Rendered /\ RenderFieldBreaker(f).tag = f.tag
<1>1. f \in Fields
  BY DEF KindFields
<1>2. RenderFieldBreaker(f).tag = f.tag
  BY <1>1 DEF RenderFieldBreaker, MapSubs, Fields
<1> QED
  BY <1>2 DEF Rendered

\* What is not listed, of a tag, in breaker form.
LEMMA UnlistedIs ==
  ASSUME NEW fields \in Seq(KindFields), NEW listed, NEW tag, NEW e, Names(e, fields, listed, tag)
  PROVE  LET group == OfTag(Unlisted(fields, listed), tag) IN
         /\ group \in Seq(Rendered) /\ Len(group) = Len(e)
         /\ \A k \in 1..Len(e) : group[k] = RenderFieldBreaker(fields[e[k]])
<1> DEFINE L == Len(fields)
           P == DOMAIN fields \ listed
           out == ElementsAt(fields, P)
           U == [k \in DOMAIN out |-> RenderFieldBreaker(out[k])]
           Q == PositionsOf(U, {tag})
           group == ElementsAt(U, Q)
<1>1. OfTag(Unlisted(fields, listed), tag) = group
  BY DEF OfTag, Unlisted
<1>2. L \in Nat /\ DOMAIN fields = 1..L /\ \A i \in 1..L : i \in P <=> i \notin listed
  OBVIOUS
<1> HIDE DEF P, L
<1>3. out \in Seq(KindFields) /\ \E po : Places(po, out, L, fields, P)
  BY Picked DEF L
<1> HIDE DEF out
<1>4. PICK po : Places(po, out, L, fields, P)
  BY <1>3
<1>5. Len(out) \in Nat /\ DOMAIN out = 1..Len(out) /\ \A k \in 1..Len(out) : out[k] \in KindFields
  BY <1>3
<1>6. /\ U \in Seq(Rendered) /\ Len(U) = Len(out)
      /\ \A k \in 1..Len(out) : U[k] = RenderFieldBreaker(out[k]) /\ U[k].tag = out[k].tag
  BY <1>5, RenderKeeps
<1> HIDE DEF U
<1>7. \A k \in 1..Len(out) : k \in Q <=> out[k].tag = tag
  BY <1>6 DEF PositionsOf
<1> HIDE DEF Q
<1>8. group \in Seq(Rendered) /\ \E pg : Places(pg, group, Len(U), U, Q)
  BY <1>6, Picked
<1> HIDE DEF group
<1>9. PICK pg : Places(pg, group, Len(out), U, Q)
  BY <1>6, <1>8
<1>10. /\ \A k \in 1..Len(out) : po[k] \in 1..L /\ po[k] \in P /\ out[k] = fields[po[k]]
       /\ \A k, l \in 1..Len(out) : k < l => po[k] < po[l]
       /\ \A i \in 1..L : i \in P => \E k \in 1..Len(out) : po[k] = i
  BY <1>4 DEF Places
<1>11. /\ \A k \in 1..Len(group) : pg[k] \in 1..Len(out) /\ pg[k] \in Q /\ group[k] = U[pg[k]]
       /\ \A k, l \in 1..Len(group) : k < l => pg[k] < pg[l]
       /\ \A i \in 1..Len(out) : i \in Q => \E k \in 1..Len(group) : pg[k] = i
  BY <1>9 DEF Places
<1> DEFINE h == [k \in 1..Len(group) |-> po[pg[k]]]
<1>12. \A k \in 1..Len(group) : h[k] = po[pg[k]] /\ h[k] \in 1..L /\ h[k] \in Nat
  BY <1>2, <1>10, <1>11
<1>13. Ascending(h, Len(group))
  <2>1. h \in [1..Len(group) -> Nat]
    BY <1>12
  <2> HIDE DEF h
  <2>2. ASSUME NEW k \in 1..Len(group), NEW l \in 1..Len(group), k < l PROVE h[k] < h[l]
    <3>1. pg[k] \in 1..Len(out) /\ pg[l] \in 1..Len(out) /\ pg[k] < pg[l]
      BY <1>11, <2>2
    <3> QED
      BY <1>10, <1>12, <3>1
  <2> QED
    BY <2>1, <2>2 DEF Ascending
<1> HIDE DEF h
<1>14. /\ Len(e) \in Nat /\ Ascending(e, Len(e))
       /\ \A k \in 1..Len(e) : e[k] \in 1..L /\ fields[e[k]].tag = tag /\ e[k] \notin listed
       /\ \A i \in 1..L : fields[i].tag = tag /\ i \notin listed => \E k \in 1..Len(e) : e[k] = i
  BY DEF Names, L
<1>15. ASSUME NEW k \in 1..Len(group) PROVE \E l \in 1..Len(e) : e[l] = h[k]
  <2>1. pg[k] \in 1..Len(out) /\ out[pg[k]].tag = tag
    BY <1>7, <1>11
  <2>2. h[k] \in 1..L /\ h[k] \in P /\ fields[h[k]].tag = tag
    BY <1>10, <1>12, <2>1
  <2> QED
    BY <1>2, <1>14, <2>2
<1>16. ASSUME NEW l \in 1..Len(e) PROVE \E k \in 1..Len(group) : h[k] = e[l]
  <2>1. e[l] \in 1..L /\ e[l] \in P /\ fields[e[l]].tag = tag
    BY <1>2, <1>14
  <2>2. PICK j \in 1..Len(out) : po[j] = e[l]
    BY <1>10, <2>1
  <2>3. j \in Q
    BY <1>7, <1>10, <2>1, <2>2
  <2>4. PICK k \in 1..Len(group) : pg[k] = j
    BY <1>11, <2>3
  <2> QED
    BY <1>12, <2>2, <2>4
<1>17. Len(group) \in Nat
  BY <1>8
<1>18. Len(group) = Len(e) /\ \A k \in 1..Len(group) : h[k] = e[k]
  <2>1. PICK m \in Nat : m = Len(group)
    BY <1>17
  <2>2. PICK n \in Nat : n = Len(e)
    BY <1>14
  <2>3. Ascending(h, m) /\ Ascending(e, n) /\ Among(h, m, e, n) /\ Among(e, n, h, m)
    BY <1>13, <1>14, <1>15, <1>16, <2>1, <2>2 DEF Among
  <2>4. m = n /\ \A k \in 1..m : h[k] = e[k]
    BY <2>3, SameAscending
  <2> QED
    BY <2>1, <2>2, <2>4
<1>19. ASSUME NEW k \in 1..Len(group) PROVE group[k] = RenderFieldBreaker(fields[e[k]])
  <2>1. pg[k] \in 1..Len(out) /\ group[k] = U[pg[k]] /\ po[pg[k]] = e[k]
    BY <1>11, <1>12, <1>18
  <2>2. U[pg[k]] = RenderFieldBreaker(out[pg[k]]) /\ out[pg[k]] = fields[e[k]]
    BY <1>6, <1>10, <2>1
  <2> QED
    BY <2>1, <2>2
<1> QED
  BY <1>1, <1>8, <1>18, <1>19

\* The comparison of the k-th occurrences of a tag, of which there are so many.
Compared(a, b, tag, k) ==
  LET in_a == OccurrencesOf(a, tag)
      in_b == OccurrencesOf(b, tag)
  IN CASE k > Len(in_b) -> <<Entry("removed", tag, in_a[k], 0)>>
       [] k > Len(in_a) -> <<Entry("added", tag, 0, in_b[k])>>
       [] OTHER -> IF RenderFieldBreaker(a[in_a[k]]) = RenderFieldBreaker(b[in_b[k]])
                   THEN <<>> ELSE <<Entry("changed", tag, in_a[k], in_b[k])>>
Count(a, b, tag) == Occurrences(OccurrencesOf(a, tag), OccurrencesOf(b, tag))

Entries ==
  [kind : {"removed", "added", "changed"}, tag : Int, field_no_a : Nat, field_no_b : Nat]

\* The fields that are compared, if there are, are the same.
SameAt(a, b, tag, k) ==
  LET in_a == OccurrencesOf(a, tag)
      in_b == OccurrencesOf(b, tag)
  IN /\ k <= Len(in_a) /\ k <= Len(in_b)
     /\ RenderFieldBreaker(a[in_a[k]]) = RenderFieldBreaker(b[in_b[k]])

\* An entry names the fields that are compared, and they are not the same.
EntryAt(e, a, b, tag, k) ==
  LET in_a == OccurrencesOf(a, tag)
      in_b == OccurrencesOf(b, tag)
  IN /\ e \in Entries /\ e.tag = tag /\ k \in Nat \ {0}
     /\ e.field_no_a = IF k <= Len(in_a) THEN in_a[k] ELSE 0
     /\ e.field_no_b = IF k <= Len(in_b) THEN in_b[k] ELSE 0
     /\ e.kind = IF k > Len(in_b) THEN "removed" ELSE IF k > Len(in_a) THEN "added" ELSE "changed"
     /\ k <= Len(in_a) \/ k <= Len(in_b)
     /\ ~SameAt(a, b, tag, k)

\* A comparison gives one such entry, or none if the fields are the same.
LEMMA ComparedIs ==
  ASSUME NEW a \in Seq(KindFields), NEW b \in Seq(KindFields), NEW tag \in Nat,
         NEW k \in 1..Count(a, b, tag)
  PROVE  \/ SameAt(a, b, tag, k) /\ Compared(a, b, tag, k) = <<>>
         \/ \E e \in Entries : EntryAt(e, a, b, tag, k) /\ Compared(a, b, tag, k) = <<e>>
<1> DEFINE in_a == OccurrencesOf(a, tag)
           in_b == OccurrencesOf(b, tag)
           same == RenderFieldBreaker(a[in_a[k]]) = RenderFieldBreaker(b[in_b[k]])
<1>1. Names(in_a, a, {}, tag) /\ Names(in_b, b, {}, tag)
  BY OccurrencesAre
<1>2. /\ Count(a, b, tag) = IF Len(in_a) < Len(in_b) THEN Len(in_b) ELSE Len(in_a)
      /\ Compared(a, b, tag, k) =
           CASE k > Len(in_b) -> <<Entry("removed", tag, in_a[k], 0)>>
             [] k > Len(in_a) -> <<Entry("added", tag, 0, in_b[k])>>
             [] OTHER -> IF same THEN <<>> ELSE <<Entry("changed", tag, in_a[k], in_b[k])>>
      /\ SameAt(a, b, tag, k) <=> k <= Len(in_a) /\ k <= Len(in_b) /\ same
  BY DEF Count, Occurrences, Compared, SameAt
<1>3. /\ Len(in_a) \in Nat /\ \A i \in 1..Len(in_a) : in_a[i] \in Nat
      /\ Len(in_b) \in Nat /\ \A i \in 1..Len(in_b) : in_b[i] \in Nat
  BY <1>1 DEF Names, Ascending
<1>4. \A e : EntryAt(e, a, b, tag, k) <=>
        /\ e \in Entries /\ e.tag = tag /\ k \in Nat \ {0}
        /\ e.field_no_a = IF k <= Len(in_a) THEN in_a[k] ELSE 0
        /\ e.field_no_b = IF k <= Len(in_b) THEN in_b[k] ELSE 0
        /\ e.kind = IF k > Len(in_b) THEN "removed" ELSE IF k > Len(in_a) THEN "added" ELSE "changed"
        /\ k <= Len(in_a) \/ k <= Len(in_b)
        /\ ~SameAt(a, b, tag, k)
  BY DEF EntryAt
<1> HIDE DEF in_a, in_b, same
<1>5. k \in Nat \ {0} /\ (k <= Len(in_a) \/ k <= Len(in_b))
  BY <1>2, <1>3
<1>6. CASE k > Len(in_b)
  <2>1. k <= Len(in_a) /\ in_a[k] \in Nat /\ ~(k <= Len(in_b))
    BY <1>3, <1>5, <1>6
  <2> DEFINE e == Entry("removed", tag, in_a[k], 0)
  <2>2. /\ e \in Entries /\ e.tag = tag /\ e.field_no_a = in_a[k] /\ e.field_no_b = 0
        /\ e.kind = "removed"
    BY <2>1 DEF Entry, Entries
  <2>3. Compared(a, b, tag, k) = <<e>>
    BY <1>2, <1>6
  <2> HIDE DEF e
  <2>4. EntryAt(e, a, b, tag, k)
    BY <1>2, <1>4, <1>5, <1>6, <2>1, <2>2
  <2> QED
    BY <2>2, <2>3, <2>4
<1>7. CASE ~(k > Len(in_b)) /\ k > Len(in_a)
  <2>1. k <= Len(in_b) /\ in_b[k] \in Nat /\ ~(k <= Len(in_a))
    BY <1>3, <1>5, <1>7
  <2> DEFINE e == Entry("added", tag, 0, in_b[k])
  <2>2. /\ e \in Entries /\ e.tag = tag /\ e.field_no_a = 0 /\ e.field_no_b = in_b[k]
        /\ e.kind = "added"
    BY <2>1 DEF Entry, Entries
  <2>3. Compared(a, b, tag, k) = <<e>>
    BY <1>2, <1>7
  <2> HIDE DEF e
  <2>4. EntryAt(e, a, b, tag, k)
    BY <1>2, <1>4, <1>5, <1>7, <2>1, <2>2
  <2> QED
    BY <2>2, <2>3, <2>4
<1>8. CASE ~(k > Len(in_b)) /\ ~(k > Len(in_a))
  <2>1. /\ k <= Len(in_a) /\ in_a[k] \in Nat /\ k <= Len(in_b) /\ in_b[k] \in Nat
    BY <1>3, <1>5, <1>8
  <2>2. CASE same
    BY <1>2, <1>8, <2>1, <2>2
  <2>3. CASE ~same
    <3> DEFINE e == Entry("changed", tag, in_a[k], in_b[k])
    <3>1. /\ e \in Entries /\ e.tag = tag /\ e.field_no_a = in_a[k] /\ e.field_no_b = in_b[k]
          /\ e.kind = "changed"
      BY <2>1 DEF Entry, Entries
    <3>2. Compared(a, b, tag, k) = <<e>>
      BY <1>2, <1>8, <2>3
    <3> HIDE DEF e
    <3>3. EntryAt(e, a, b, tag, k)
      BY <1>2, <1>4, <1>5, <1>8, <2>1, <2>3, <3>1
    <3> QED
      BY <3>1, <3>2, <3>3
  <2> QED
    BY <2>2, <2>3
<1> QED
  BY <1>6, <1>7, <1>8

\* A field is one occurrence of one tag.
LEMMA OneOccurrence ==
  ASSUME NEW g \in Seq(KindFields), NEW tag, NEW other, NEW i \in Nat \ {0}, NEW j \in Nat \ {0},
         i <= Len(OccurrencesOf(g, tag)), j <= Len(OccurrencesOf(g, other)),
         OccurrencesOf(g, tag)[i] = OccurrencesOf(g, other)[j]
  PROVE  tag = other /\ i = j
<1> DEFINE here == OccurrencesOf(g, tag)
           there == OccurrencesOf(g, other)
<1>1. Names(here, g, {}, tag) /\ Names(there, g, {}, other)
  BY OccurrencesAre
<1>2. here[i] = there[j] /\ i <= Len(here) /\ j <= Len(there)
  OBVIOUS
<1>3. tag = other => here = there
  OBVIOUS
<1> HIDE DEF here, there
<1>4. i \in 1..Len(here) /\ j \in 1..Len(there)
  BY <1>1, <1>2 DEF Names
<1>5. tag = other
  BY <1>1, <1>2, <1>4 DEF Names
<1>6. \A p, q \in 1..Len(here) : p < q => here[p] < here[q]
  BY <1>1 DEF Names, Ascending
<1>7. here[i] \in Nat /\ here[j] = here[i]
  BY <1>1, <1>2, <1>3, <1>4, <1>5 DEF Names, Ascending
<1>8. ~(i < j) /\ ~(j < i)
  BY <1>2, <1>3, <1>4, <1>5, <1>6, <1>7
<1> QED
  BY <1>5, <1>8

\* So the fields an entry names tell which comparison it is of.
LEMMA OneComparison ==
  ASSUME NEW a \in Seq(KindFields), NEW b \in Seq(KindFields), NEW tag, NEW k,
         NEW other, NEW l, NEW e, NEW f, EntryAt(e, a, b, tag, k), EntryAt(f, a, b, other, l),
         \/ e.field_no_a = f.field_no_a /\ e.field_no_a # 0
         \/ e.field_no_b = f.field_no_b /\ e.field_no_b # 0
  PROVE  tag = other /\ k = l
<1>1. /\ k \in Nat \ {0} /\ l \in Nat \ {0}
      /\ e.field_no_a = IF k <= Len(OccurrencesOf(a, tag)) THEN OccurrencesOf(a, tag)[k] ELSE 0
      /\ e.field_no_b = IF k <= Len(OccurrencesOf(b, tag)) THEN OccurrencesOf(b, tag)[k] ELSE 0
      /\ f.field_no_a = IF l <= Len(OccurrencesOf(a, other)) THEN OccurrencesOf(a, other)[l] ELSE 0
      /\ f.field_no_b = IF l <= Len(OccurrencesOf(b, other)) THEN OccurrencesOf(b, other)[l] ELSE 0
  BY DEF EntryAt
<1>2. CASE e.field_no_a = f.field_no_a /\ e.field_no_a # 0
  <2>1. /\ k <= Len(OccurrencesOf(a, tag)) /\ l <= Len(OccurrencesOf(a, other))
        /\ OccurrencesOf(a, tag)[k] = OccurrencesOf(a, other)[l]
    BY <1>1, <1>2
  <2> QED
    BY <1>1, <2>1, OneOccurrence
<1>3. CASE e.field_no_b = f.field_no_b /\ e.field_no_b # 0
  <2>1. /\ k <= Len(OccurrencesOf(b, tag)) /\ l <= Len(OccurrencesOf(b, other))
        /\ OccurrencesOf(b, tag)[k] = OccurrencesOf(b, other)[l]
    BY <1>1, <1>3
  <2> QED
    BY <1>1, <2>1, OneOccurrence
<1> QED
  BY <1>2, <1>3

\* The entries of a list are those of all comparisons of the tags that differ,
\* each once: the i-th entry is of the occ[i]-th occurrences of about[i].
Compares(list, a, b, tags, about, occ) ==
  /\ \A i \in 1..Len(list) :
       /\ about[i] \in tags /\ occ[i] \in 1..Count(a, b, about[i])
       /\ EntryAt(list[i], a, b, about[i], occ[i])
  /\ \A i, j \in 1..Len(list) : about[i] = about[j] /\ occ[i] = occ[j] => i = j
  /\ \A tag \in tags : \A k \in 1..Count(a, b, tag) :
       ~SameAt(a, b, tag, k) => \E i \in 1..Len(list) : about[i] = tag /\ occ[i] = k

\* The entries of one tag.
LEMMA DiffOfTag ==
  ASSUME NEW a \in Seq(KindFields), NEW b \in Seq(KindFields), NEW tag \in Nat
  PROVE  /\ DiffEntries(a, b, tag) \in Seq(Entries)
         /\ \E about, occ : Compares(DiffEntries(a, b, tag), a, b, {tag}, about, occ)
<1> DEFINE N == Count(a, b, tag)
           seqs == [k \in 1..N |-> Compared(a, b, tag, k)]
           list == DiffEntries(a, b, tag)
           about == [i \in 1..Len(list) |-> tag]
<1>1. list = FlattenSeq(seqs)
  BY DEF DiffEntries, Compared, Count, OccurrencesOf
<1>2. N \in Nat
  <2>1. Names(OccurrencesOf(a, tag), a, {}, tag) /\ Names(OccurrencesOf(b, tag), b, {}, tag)
    BY OccurrencesAre
  <2> QED
    BY <2>1 DEF Names, Count, Occurrences
<1>3. \A k \in 1..N : seqs[k] = Compared(a, b, tag, k)
  OBVIOUS
<1> HIDE DEF list
<1>4. ASSUME NEW k \in 1..N
      PROVE  /\ Compared(a, b, tag, k) \in Seq(Entries)
             /\ SameAt(a, b, tag, k) => Len(Compared(a, b, tag, k)) = 0
             /\ ~SameAt(a, b, tag, k) => /\ Len(Compared(a, b, tag, k)) = 1
                                         /\ EntryAt(Compared(a, b, tag, k)[1], a, b, tag, k)
  <2>1. CASE SameAt(a, b, tag, k) /\ Compared(a, b, tag, k) = <<>>
    BY <2>1
  <2>2. ASSUME NEW e \in Entries, EntryAt(e, a, b, tag, k), Compared(a, b, tag, k) = <<e>>
        PROVE  /\ Compared(a, b, tag, k) \in Seq(Entries)
               /\ ~SameAt(a, b, tag, k) /\ Len(Compared(a, b, tag, k)) = 1
               /\ EntryAt(Compared(a, b, tag, k)[1], a, b, tag, k)
    <3>1. <<e>> \in Seq(Entries) /\ Len(<<e>>) = 1 /\ <<e>>[1] = e
      OBVIOUS
    <3>2. ~SameAt(a, b, tag, k)
      BY <2>2 DEF EntryAt
    <3> QED
      BY <2>2, <3>1, <3>2
  <2>3. \/ SameAt(a, b, tag, k) /\ Compared(a, b, tag, k) = <<>>
        \/ \E e \in Entries : EntryAt(e, a, b, tag, k) /\ Compared(a, b, tag, k) = <<e>>
    BY ComparedIs
  <2> QED
    BY <2>1, <2>2, <2>3
<1>5. seqs \in Seq(Seq(Entries)) /\ Len(seqs) = N
  <2>1. \A k \in 1..N : Compared(a, b, tag, k) \in Seq(Entries)
    BY <1>4
  <2> HIDE DEF N
  <2> QED
    BY <1>2, <2>1
<1> HIDE DEF seqs
<1>6. list \in Seq(Entries)
  BY <1>1, <1>5, FlattenIn
<1>7. PICK part, place : FlatUpTo(list, seqs, N, part, place)
  BY <1>1, <1>5, FlattenParts
<1>8. /\ \A i \in 1..Len(list) : part[i] \in 1..N
      /\ \A i \in 1..Len(list) :
           place[i] \in 1..Len(seqs[part[i]]) /\ list[i] = seqs[part[i]][place[i]]
      /\ \A i, j \in 1..Len(list) : part[i] = part[j] /\ place[i] = place[j] => i = j
      /\ \A p \in 1..N : \A q \in 1..Len(seqs[p]) :
           \E i \in 1..Len(list) : part[i] = p /\ place[i] = q
  BY <1>7 DEF FlatUpTo
<1>9. \A i \in 1..Len(list) : about[i] = tag
  OBVIOUS
<1> HIDE DEF N, about
<1>10. ASSUME NEW i \in 1..Len(list)
       PROVE  place[i] = 1 /\ EntryAt(list[i], a, b, tag, part[i])
  <2> DEFINE k == part[i]
  <2>1. k \in 1..N /\ place[i] \in 1..Len(seqs[k]) /\ list[i] = seqs[k][place[i]]
    BY <1>8
  <2> HIDE DEF k
  <2>2. seqs[k] = Compared(a, b, tag, k)
    BY <1>3, <2>1
  <2>3. ~SameAt(a, b, tag, k)
    BY <1>4, <2>1, <2>2
  <2>4. Len(seqs[k]) = 1 /\ EntryAt(seqs[k][1], a, b, tag, k)
    BY <1>4, <2>1, <2>2, <2>3
  <2> QED
    BY <2>1, <2>4 DEF k
<1>11. ASSUME NEW k \in 1..N, ~SameAt(a, b, tag, k) PROVE \E i \in 1..Len(list) : part[i] = k
  <2>1. 1 \in 1..Len(seqs[k])
    BY <1>3, <1>4, <1>11
  <2>2. PICK i \in 1..Len(list) : part[i] = k /\ place[i] = 1
    BY <1>8, <2>1
  <2> QED
    BY <2>2
<1>12. Compares(list, a, b, {tag}, about, part)
  <2>1. ASSUME NEW i \in 1..Len(list)
        PROVE  /\ about[i] \in {tag} /\ part[i] \in 1..Count(a, b, about[i])
               /\ EntryAt(list[i], a, b, about[i], part[i])
    BY <1>8, <1>9, <1>10, SMTT(30) DEF N
  <2>2. ASSUME NEW i \in 1..Len(list), NEW j \in 1..Len(list), part[i] = part[j] PROVE i = j
    <3>1. place[i] = 1 /\ place[j] = 1
      BY <1>10
    <3> QED
      BY <1>8, <2>2, <3>1
  <2>3. \A u \in {tag} : \A k \in 1..Count(a, b, u) :
          ~SameAt(a, b, u, k) => \E i \in 1..Len(list) : about[i] = u /\ part[i] = k
    BY <1>9, <1>11 DEF N
  <2> QED
    BY <2>1, <2>2, <2>3 DEF Compares
<1> QED
  BY <1>6, <1>12 DEF list

\* FirstAppearances has every tag, once.
LEMMA TagsOnce ==
  ASSUME NEW fields \in Seq(KindFields)
  PROVE  LET tags == FirstAppearances(fields) IN
         /\ \A m, n \in 1..Len(tags) : tags[m] = tags[n] => m = n
         /\ \A tag \in TagsOf(fields) : \E n \in 1..Len(tags) : tags[n] = tag
<1> DEFINE ts == [k \in DOMAIN fields |-> fields[k].tag]
           P == {i \in DOMAIN ts : \A j \in 1..(i - 1) : ts[j] # ts[i]}
           tags == FirstAppearances(fields)
           L == Len(fields)
<1>1. tags = ElementsAt(ts, P)
  BY DEF FirstAppearances
<1>2. DOMAIN fields = 1..L /\ L \in Nat /\ \A i \in 1..L : fields[i].tag \in Nat
  BY DEF KindFields, Fields
<1>3. ts \in Seq(Nat) /\ Len(ts) = L /\ DOMAIN ts = 1..L /\ \A i \in 1..L : ts[i] = fields[i].tag
  BY <1>2
<1> HIDE DEF ts, L
<1>4. \A i \in P : i \in 1..L /\ \A j \in 1..(i - 1) : ts[j] # ts[i]
  BY <1>3
<1>5. \A i \in 1..L : (\A j \in 1..(i - 1) : ts[j] # ts[i]) => i \in P
  BY <1>3
<1> HIDE DEF P, tags
<1>6. tags \in Seq(Nat) /\ \E pos : Places(pos, tags, Len(ts), ts, P)
  BY <1>1, <1>3, Picked
<1>7. PICK pos : Places(pos, tags, L, ts, P)
  BY <1>3, <1>6
<1>8. /\ \A n \in 1..Len(tags) : pos[n] \in 1..L /\ pos[n] \in P /\ tags[n] = ts[pos[n]]
      /\ \A m, n \in 1..Len(tags) : m < n => pos[m] < pos[n]
      /\ \A i \in 1..L : i \in P => \E n \in 1..Len(tags) : pos[n] = i
  BY <1>7 DEF Places
<1>9. ASSUME NEW m \in 1..Len(tags), NEW n \in 1..Len(tags), m < n PROVE tags[m] # tags[n]
  <2>1. pos[m] \in 1..L /\ pos[n] \in 1..L /\ pos[m] < pos[n] /\ pos[n] \in P
    BY <1>8, <1>9
  <2>2. pos[m] \in 1..(pos[n] - 1)
    BY <1>2, <2>1
  <2>3. ts[pos[m]] # ts[pos[n]]
    BY <1>4, <2>1, <2>2
  <2>4. tags[m] = ts[pos[m]] /\ tags[n] = ts[pos[n]]
    BY <1>8
  <2> QED
    BY <2>3, <2>4
<1>10. ASSUME NEW m \in 1..Len(tags), NEW n \in 1..Len(tags), tags[m] = tags[n] PROVE m = n
  <2>1. ~(m < n) /\ ~(n < m)
    BY <1>9, <1>10
  <2> QED
    BY <2>1
<1>11. ASSUME NEW tag \in TagsOf(fields) PROVE \E n \in 1..Len(tags) : tags[n] = tag
  <2> DEFINE H == {i \in 1..L : ts[i] = tag}
  <2>1. H \in SUBSET Nat /\ H # {}
    BY <1>2, <1>3 DEF TagsOf
  <2>2. \A i \in H : i \in 1..L /\ ts[i] = tag
    OBVIOUS
  <2>3. \A i \in 1..L : ts[i] = tag => i \in H
    OBVIOUS
  <2> HIDE DEF H
  <2>4. PICK i \in H : \A j \in H : i <= j
    BY <2>1, Least
  <2>5. ASSUME NEW j \in 1..(i - 1) PROVE ts[j] # ts[i]
    <3>1. j \in 1..L /\ ~(i <= j)
      BY <1>2, <2>2
    <3> QED
      BY <2>2, <2>3, <2>4, <3>1
  <2>6. i \in P /\ i \in 1..L /\ ts[i] = tag
    BY <1>5, <2>2, <2>5
  <2> QED
    BY <1>8, <2>6
<1> QED
  BY <1>10, <1>11 DEF tags

\* The tags that are compared.
LEMMA ComparedTags ==
  ASSUME NEW a \in Seq(KindFields), NEW b \in Seq(KindFields)
  PROVE  LET both == SortFields(a \o b) IN
         both \in Seq(KindFields) /\ TagsOf(both) = TagsOf(a) \cup TagsOf(b)
<1> DEFINE joined == a \o b
           both == SortFields(joined)
<1>1. /\ joined \in Seq(KindFields) /\ Len(joined) = Len(a) + Len(b)
      /\ Len(a) \in Nat /\ Len(b) \in Nat
      /\ \A i \in 1..Len(a) : joined[i] = a[i]
      /\ \A i \in 1..Len(b) : joined[Len(a) + i] = b[i]
  BY Joined
<1>2. \A m \in 1..Len(joined) :
        \/ m \in 1..Len(a) /\ joined[m] = a[m]
        \/ \E j \in 1..Len(b) : m = Len(a) + j /\ joined[m] = b[j]
  BY JoinedAt
<1>3. DOMAIN a = 1..Len(a) /\ DOMAIN b = 1..Len(b) /\ DOMAIN joined = 1..Len(joined)
  BY <1>1
<1> HIDE DEF joined
<1>4. TagsOf(joined) = TagsOf(a) \cup TagsOf(b)
  <2>1. ASSUME NEW tag \in TagsOf(joined) PROVE tag \in TagsOf(a) \cup TagsOf(b)
    <3>1. PICK m \in 1..Len(joined) : joined[m].tag = tag
      BY <1>3 DEF TagsOf
    <3> QED
      BY <1>2, <1>3, <3>1 DEF TagsOf
  <2>2. ASSUME NEW tag \in TagsOf(a) PROVE tag \in TagsOf(joined)
    <3>1. PICK i \in 1..Len(a) : a[i].tag = tag
      BY <1>3 DEF TagsOf
    <3>2. i \in 1..Len(joined) /\ joined[i] = a[i]
      BY <1>1
    <3> QED
      BY <1>3, <3>1, <3>2 DEF TagsOf
  <2>3. ASSUME NEW tag \in TagsOf(b) PROVE tag \in TagsOf(joined)
    <3>1. PICK i \in 1..Len(b) : b[i].tag = tag
      BY <1>3 DEF TagsOf
    <3>2. Len(a) + i \in 1..Len(joined) /\ joined[Len(a) + i] = b[i]
      BY <1>1
    <3> QED
      BY <1>3, <3>1, <3>2 DEF TagsOf
  <2> QED
    BY <2>1, <2>2, <2>3
<1>5. both \in Seq(KindFields) /\ \A tag : OfTag(both, tag) = OfTag(joined, tag)
  BY <1>1, SortMakes
<1> HIDE DEF both
<1>6. ASSUME NEW tag PROVE tag \in TagsOf(both) <=> tag \in TagsOf(joined)
  <2>1. tag \in TagsOf(both) <=> OfTag(both, tag) # <<>>
    BY <1>5, GroupIsThere
  <2>2. tag \in TagsOf(joined) <=> OfTag(joined, tag) # <<>>
    BY <1>1, GroupIsThere
  <2> QED
    BY <1>5, <2>1, <2>2
<1>7. TagsOf(both) = TagsOf(a) \cup TagsOf(b)
  BY <1>4, <1>6
<1> QED
  BY <1>5, <1>7 DEF both, joined

\* The entries of several tags.
EntriesOf(a, b, tags) == FlattenSeq([n \in DOMAIN tags |-> DiffEntries(a, b, tags[n])])

\* See EntriesOf.
LEMMA DiffOfTags ==
  ASSUME NEW a \in Seq(KindFields), NEW b \in Seq(KindFields), NEW tags \in Seq(Nat),
         \A m, n \in 1..Len(tags) : tags[m] = tags[n] => m = n
  PROVE  /\ EntriesOf(a, b, tags) \in Seq(Entries)
         /\ \E about, occ :
              Compares(EntriesOf(a, b, tags), a, b, {tags[n] : n \in 1..Len(tags)}, about, occ)
<1> DEFINE N == Len(tags)
           all == {tags[n] : n \in 1..N}
           seqs == [n \in DOMAIN tags |-> DiffEntries(a, b, tags[n])]
           list == FlattenSeq(seqs)
           O == [n \in 1..N |-> CHOOSE oc :
                   \E ab : Compares(DiffEntries(a, b, tags[n]), a, b, {tags[n]}, ab, oc)]
<1>1. N \in Nat /\ DOMAIN tags = 1..N /\ \A n \in 1..N : tags[n] \in Nat
  OBVIOUS
<1>2. \A n \in 1..N : DiffEntries(a, b, tags[n]) \in Seq(Entries)
  BY <1>1, DiffOfTag
<1>3. seqs \in Seq(Seq(Entries)) /\ Len(seqs) = N /\ \A n \in 1..N : seqs[n] = DiffEntries(a, b, tags[n])
  <2> HIDE DEF N
  <2> QED
    BY <1>1, <1>2
<1> HIDE DEF seqs
<1>4. ASSUME NEW n \in 1..N
      PROVE  \E ab : Compares(seqs[n], a, b, {tags[n]}, ab, O[n])
  <2>1. tags[n] \in Nat
    BY <1>1
  <2>2. \E ab, oc : Compares(DiffEntries(a, b, tags[n]), a, b, {tags[n]}, ab, oc)
    BY <2>1, DiffOfTag
  <2>3. \E oc : \E ab : Compares(DiffEntries(a, b, tags[n]), a, b, {tags[n]}, ab, oc)
    BY <2>2
  <2>4. O[n] = CHOOSE oc : \E ab : Compares(DiffEntries(a, b, tags[n]), a, b, {tags[n]}, ab, oc)
    OBVIOUS
  <2>5. \E ab : Compares(DiffEntries(a, b, tags[n]), a, b, {tags[n]}, ab, O[n])
    BY <2>3, <2>4
  <2> QED
    BY <1>3, <2>5
<1> HIDE DEF O
<1>5. ASSUME NEW n \in 1..N
      PROVE  /\ \A q \in 1..Len(seqs[n]) :
                  /\ O[n][q] \in 1..Count(a, b, tags[n])
                  /\ EntryAt(seqs[n][q], a, b, tags[n], O[n][q])
             /\ \A p, q \in 1..Len(seqs[n]) : O[n][p] = O[n][q] => p = q
             /\ \A k \in 1..Count(a, b, tags[n]) :
                  ~SameAt(a, b, tags[n], k) => \E q \in 1..Len(seqs[n]) : O[n][q] = k
  <2> DEFINE part == seqs[n]
             tag == tags[n]
             o == O[n]
  <2>1. PICK ab : Compares(part, a, b, {tag}, ab, o)
    BY <1>4
  <2> HIDE DEF part, tag, o
  <2>2. /\ \A q \in 1..Len(part) : ab[q] \in {tag} /\ o[q] \in 1..Count(a, b, ab[q])
                                   /\ EntryAt(part[q], a, b, ab[q], o[q])
        /\ \A p, q \in 1..Len(part) : ab[p] = ab[q] /\ o[p] = o[q] => p = q
        /\ \A u \in {tag} : \A k \in 1..Count(a, b, u) :
             ~SameAt(a, b, u, k) => \E q \in 1..Len(part) : ab[q] = u /\ o[q] = k
    BY <2>1 DEF Compares
  <2>3. \A q \in 1..Len(part) : ab[q] = tag
    BY <2>2
  <2>4. \A q \in 1..Len(part) : o[q] \in 1..Count(a, b, tag) /\ EntryAt(part[q], a, b, tag, o[q])
    BY <2>2, <2>3
  <2>5. \A p, q \in 1..Len(part) : o[p] = o[q] => p = q
    BY <2>2, <2>3
  <2>6. \A k \in 1..Count(a, b, tag) : ~SameAt(a, b, tag, k) => \E q \in 1..Len(part) : o[q] = k
    BY <2>2
  <2> QED
    BY <2>4, <2>5, <2>6 DEF part, tag, o
<1>6. list \in Seq(Entries)
  BY <1>3, FlattenIn
<1>7. PICK part, place : FlatUpTo(list, seqs, N, part, place)
  BY <1>3, FlattenParts
<1> HIDE DEF list
<1>8. /\ \A i \in 1..Len(list) : part[i] \in 1..N
      /\ \A i \in 1..Len(list) :
           place[i] \in 1..Len(seqs[part[i]]) /\ list[i] = seqs[part[i]][place[i]]
      /\ \A i, j \in 1..Len(list) : part[i] = part[j] /\ place[i] = place[j] => i = j
      /\ \A p \in 1..N : \A q \in 1..Len(seqs[p]) :
           \E i \in 1..Len(list) : part[i] = p /\ place[i] = q
  BY <1>7 DEF FlatUpTo
<1> DEFINE about == [i \in 1..Len(list) |-> tags[part[i]]]
           occ == [i \in 1..Len(list) |-> O[part[i]][place[i]]]
<1>9. \A i \in 1..Len(list) : about[i] = tags[part[i]] /\ occ[i] = O[part[i]][place[i]]
  OBVIOUS
<1>10. \A m, n \in 1..N : tags[m] = tags[n] => m = n
  OBVIOUS
<1>11. all = {tags[n] : n \in 1..N}
  OBVIOUS
<1> HIDE DEF about, occ, all, N
<1>12. ASSUME NEW i \in 1..Len(list)
       PROVE  /\ about[i] \in all /\ occ[i] \in 1..Count(a, b, about[i])
              /\ EntryAt(list[i], a, b, about[i], occ[i])
  <2> DEFINE n == part[i]
             q == place[i]
  <2>1. n \in 1..N /\ q \in 1..Len(seqs[n]) /\ list[i] = seqs[n][q]
    BY <1>8
  <2>2. about[i] = tags[n] /\ occ[i] = O[n][q]
    BY <1>9
  <2> HIDE DEF n, q
  <2>3. O[n][q] \in 1..Count(a, b, tags[n]) /\ EntryAt(seqs[n][q], a, b, tags[n], O[n][q])
    BY <1>5, <2>1
  <2>4. tags[n] \in all
    BY <1>11, <2>1
  <2> QED
    BY <2>1, <2>2, <2>3, <2>4
<1>13. ASSUME NEW i \in 1..Len(list), NEW j \in 1..Len(list), about[i] = about[j], occ[i] = occ[j]
       PROVE  i = j
  <2>1. part[i] \in 1..N /\ part[j] \in 1..N /\ tags[part[i]] = tags[part[j]]
    BY <1>8, <1>9, <1>13
  <2>2. part[i] = part[j]
    BY <1>10, <2>1
  <2>3. place[i] \in 1..Len(seqs[part[i]]) /\ place[j] \in 1..Len(seqs[part[i]])
    BY <1>8, <2>2
  <2>4. O[part[i]][place[i]] = O[part[i]][place[j]]
    BY <1>9, <1>13, <2>2
  <2>5. \A p, q \in 1..Len(seqs[part[i]]) : O[part[i]][p] = O[part[i]][q] => p = q
    BY <1>5, <2>1
  <2>6. place[i] = place[j]
    BY <2>3, <2>4, <2>5
  <2> QED
    BY <1>8, <2>2, <2>6
<1>14. ASSUME NEW tag \in all, NEW k \in 1..Count(a, b, tag), ~SameAt(a, b, tag, k)
       PROVE  \E i \in 1..Len(list) : about[i] = tag /\ occ[i] = k
  <2>1. PICK n \in 1..N : tags[n] = tag
    BY <1>11
  <2>2. PICK q \in 1..Len(seqs[n]) : O[n][q] = k
    BY <1>5, <1>14, <2>1
  <2>3. PICK i \in 1..Len(list) : part[i] = n /\ place[i] = q
    BY <1>8
  <2> QED
    BY <1>9, <2>1, <2>2, <2>3
<1>15. Compares(list, a, b, all, about, occ)
  BY <1>12, <1>13, <1>14 DEF Compares
<1> QED
  BY <1>6, <1>15 DEF EntriesOf, list, seqs, all, N

\* So a diff has the leader's entry, if the leaders differ, and behind it the
\* entries of all tags of the two records.
IsDiff(diff, n, list, a, b, about, occ) ==
  /\ list \in Seq(Entries) /\ n \in {0, 1}
  /\ Len(diff) = n + Len(list) /\ DOMAIN diff = 1..Len(diff)
  /\ \A i \in 1..n : diff[i] = Entry("changed", LDR, 0, 0)
  /\ \A i \in 1..Len(list) : diff[n + i] = list[i]
  /\ Compares(list, a, b, TagsOf(a) \cup TagsOf(b), about, occ)

\* See IsDiff.
LEMMA DiffIs ==
  ASSUME NEW x \in MarcRecords, NEW y \in MarcRecords
  PROVE  \E n, list, about, occ :
           IsDiff(DiffRecords(x, y), n, list, x.fields, y.fields, about, occ)
<1> DEFINE a == x.fields
           b == y.fields
           both == SortFields(a \o b)
           tags == FirstAppearances(both)
           list == EntriesOf(a, b, tags)
           lead == Entry("changed", LDR, 0, 0)
           leader == IF x.leader = y.leader THEN <<>> ELSE <<lead>>
           diff == DiffRecords(x, y)
<1>1. a \in Seq(KindFields) /\ b \in Seq(KindFields)
  BY DEF MarcRecords
<1>2. diff = leader \o list
  BY DEF DiffRecords, EntriesOf
<1> HIDE DEF a, b
<1>3. both \in Seq(KindFields) /\ TagsOf(both) = TagsOf(a) \cup TagsOf(b)
  BY <1>1, ComparedTags
<1> HIDE DEF both
<1>4. /\ tags \in Seq(Nat) /\ \A n \in 1..Len(tags) : tags[n] \in TagsOf(both)
      /\ \A m, n \in 1..Len(tags) : tags[m] = tags[n] => m = n
      /\ \A tag \in TagsOf(both) : \E n \in 1..Len(tags) : tags[n] = tag
  BY <1>3, TagsAre, TagsOnce
<1> HIDE DEF tags
<1>5. {tags[n] : n \in 1..Len(tags)} = TagsOf(a) \cup TagsOf(b)
  BY <1>3, <1>4
<1>6. /\ list \in Seq(Entries)
      /\ \E about, occ : Compares(list, a, b, {tags[n] : n \in 1..Len(tags)}, about, occ)
  BY <1>1, <1>4, DiffOfTags
<1> HIDE DEF list, diff
<1>7. PICK about, occ : Compares(list, a, b, TagsOf(a) \cup TagsOf(b), about, occ)
  BY <1>5, <1>6
<1>8. lead \in [kind : {"changed"}, tag : Int, field_no_a : Nat, field_no_b : Nat]
  BY DEF Entry, LDR
<1> DEFINE S == Entries \cup {lead}
<1>9. /\ leader \in Seq(S) /\ list \in Seq(S) /\ Len(leader) \in {0, 1}
      /\ \A i \in 1..Len(leader) : leader[i] = lead
  <2>1. list \in Seq(S)
    BY <1>6
  <2>2. CASE x.leader = y.leader
    BY <2>1, <2>2
  <2>3. CASE x.leader # y.leader
    <3>1. leader = <<lead>> /\ lead \in S
      BY <2>3
    <3> HIDE DEF lead, S, leader
    <3> QED
      BY <2>1, <3>1
  <2> QED
    BY <2>2, <2>3
<1> HIDE DEF leader, lead, S
<1>10. /\ Len(diff) = Len(leader) + Len(list)
       /\ \A i \in 1..Len(leader) : diff[i] = leader[i]
       /\ \A i \in 1..Len(list) : diff[Len(leader) + i] = list[i]
  BY <1>2, <1>9, Joined
<1>11. DOMAIN diff = 1..Len(diff)
  <2>1. diff \in Seq(S)
    BY <1>2, <1>9
  <2> QED
    BY <2>1
<1>12. IsDiff(diff, Len(leader), list, a, b, about, occ)
  BY <1>6, <1>7, <1>9, <1>10, <1>11 DEF IsDiff, lead
<1> QED
  BY <1>12 DEF diff, a, b

\* As many positions are named as there are entries that name one.
CountedOnce(key, K) ==
  Cardinality({key[m] : m \in 1..K} \ {0}) = Cardinality({m \in 1..K : key[m] # 0})

\* They are, if none is named twice.
LEMMA NamedOnce ==
  ASSUME NEW K \in Nat, NEW key \in [1..K -> Nat],
         \A m, l \in 1..K : key[m] = key[l] /\ key[m] # 0 => m = l
  PROVE  CountedOnce(key, K)
<1> DEFINE S == {m \in 1..K : key[m] # 0}
           T == {key[m] : m \in 1..K} \ {0}
           f == [m \in S |-> key[m]]
<1>1. IsFiniteSet(S)
  <2>1. IsFiniteSet(1..K)
    BY FS_Interval
  <2>2. S \subseteq 1..K
    OBVIOUS
  <2> QED
    BY <2>1, <2>2, FS_Subset
<1>2. f \in Bijection(S, T)
  <2>1. f \in [S -> T]
    OBVIOUS
  <2>2. \A m, l \in S : f[m] = f[l] => m = l
    OBVIOUS
  <2>3. \A t \in T : \E m \in S : f[m] = t
    OBVIOUS
  <2> QED
    BY <2>1, <2>2, <2>3 DEF Bijection, Injection, Surjection, IsInjective
<1>3. ExistsBijection(S, T)
  BY <1>2 DEF ExistsBijection
<1>4. Cardinality(S) = Cardinality(T)
  BY <1>1, <1>3, FS_Bijection
<1> QED
  BY <1>4 DEF CountedOnce

\* What the entries of a diff are, one by one.
LEMMA EntriesAre ==
  ASSUME NEW a \in Seq(KindFields), NEW b \in Seq(KindFields), NEW diff, NEW n, NEW list,
         NEW about, NEW occ, IsDiff(diff, n, list, a, b, about, occ)
  PROVE  /\ Len(diff) \in Nat
         /\ \A m \in 1..Len(diff) :
              /\ diff[m].field_no_a \in Nat /\ diff[m].field_no_b \in Nat
              /\ diff[m].kind \in {"removed", "added", "changed"}
              /\ diff[m].field_no_a # 0 <=> diff[m].kind \in {"changed", "removed"} /\ diff[m].tag # LDR
              /\ diff[m].field_no_b # 0 <=> diff[m].kind \in {"changed", "added"} /\ diff[m].tag # LDR
              /\ diff[m].kind = "changed" /\ diff[m].tag # LDR =>
                   RenderFieldBreaker(a[diff[m].field_no_a]) # RenderFieldBreaker(b[diff[m].field_no_b])
         /\ \A m, l \in 1..Len(diff) :
              /\ diff[m].field_no_a = diff[l].field_no_a /\ diff[m].field_no_a # 0 => m = l
              /\ diff[m].field_no_b = diff[l].field_no_b /\ diff[m].field_no_b # 0 => m = l
<1>1. /\ list \in Seq(Entries) /\ n \in Nat /\ Len(diff) = n + Len(list) /\ Len(list) \in Nat
      /\ \A i \in 1..n : diff[i] = Entry("changed", LDR, 0, 0)
      /\ \A i \in 1..Len(list) : diff[n + i] = list[i]
      /\ Compares(list, a, b, TagsOf(a) \cup TagsOf(b), about, occ)
  BY DEF IsDiff
<1>2. ASSUME NEW m \in 1..Len(diff)
      PROVE  m \in 1..n \/ \E i \in 1..Len(list) : m = n + i
  <2>1. CASE m <= n
    BY <1>1, <2>1
  <2>2. CASE ~(m <= n)
    <3>1. m - n \in 1..Len(list) /\ m = n + (m - n)
      BY <1>1, <2>2
    <3> QED
      BY <3>1
  <2> QED
    BY <2>1, <2>2
<1>3. ASSUME NEW i \in 1..n
      PROVE  /\ diff[i].field_no_a = 0 /\ diff[i].field_no_b = 0
             /\ diff[i].kind = "changed" /\ diff[i].tag = LDR
  BY <1>1 DEF Entry
<1>4. ASSUME NEW i \in 1..Len(list)
      PROVE  /\ diff[n + i] = list[i] /\ EntryAt(list[i], a, b, about[i], occ[i])
             /\ about[i] \in Nat
  <2>1. about[i] \in TagsOf(a) \cup TagsOf(b) /\ EntryAt(list[i], a, b, about[i], occ[i])
    BY <1>1 DEF Compares
  <2>2. /\ DOMAIN a = 1..Len(a) /\ \A j \in 1..Len(a) : a[j].tag \in Nat
        /\ DOMAIN b = 1..Len(b) /\ \A j \in 1..Len(b) : b[j].tag \in Nat
    BY DEF KindFields, Fields
  <2>3. about[i] \in Nat
    BY <2>1, <2>2 DEF TagsOf
  <2> QED
    BY <1>1, <2>1, <2>3
<1>5. ASSUME NEW i \in 1..Len(list)
      PROVE  LET e == diff[n + i] IN
             /\ e.field_no_a \in Nat /\ e.field_no_b \in Nat /\ e.tag # LDR
             /\ e.kind \in {"removed", "added", "changed"}
             /\ e.field_no_a # 0 <=> e.kind \in {"changed", "removed"}
             /\ e.field_no_b # 0 <=> e.kind \in {"changed", "added"}
             /\ e.kind = "changed" =>
                  RenderFieldBreaker(a[e.field_no_a]) # RenderFieldBreaker(b[e.field_no_b])
  <2> DEFINE e == diff[n + i]
             tag == about[i]
             k == occ[i]
             in_a == OccurrencesOf(a, tag)
             in_b == OccurrencesOf(b, tag)
  <2>1. EntryAt(e, a, b, tag, k) /\ tag \in Nat
    BY <1>4
  <2>2. Names(in_a, a, {}, tag) /\ Names(in_b, b, {}, tag)
    BY OccurrencesAre
  <2> HIDE DEF e, tag, k
  <2>3. /\ e \in Entries /\ e.tag = tag /\ k \in Nat \ {0}
        /\ e.field_no_a = IF k <= Len(in_a) THEN in_a[k] ELSE 0
        /\ e.field_no_b = IF k <= Len(in_b) THEN in_b[k] ELSE 0
        /\ e.kind = IF k > Len(in_b) THEN "removed" ELSE IF k > Len(in_a) THEN "added" ELSE "changed"
        /\ k <= Len(in_a) \/ k <= Len(in_b)
        /\ k <= Len(in_a) /\ k <= Len(in_b) =>
             RenderFieldBreaker(a[in_a[k]]) # RenderFieldBreaker(b[in_b[k]])
    BY <2>1 DEF EntryAt, SameAt
  <2> HIDE DEF in_a, in_b
  <2>4. /\ Len(in_a) \in Nat /\ \A j \in 1..Len(in_a) : in_a[j] \in 1..Len(a)
        /\ Len(in_b) \in Nat /\ \A j \in 1..Len(in_b) : in_b[j] \in 1..Len(b)
    BY <2>2 DEF Names
  <2>5. /\ k <= Len(in_a) => in_a[k] \in Nat /\ in_a[k] # 0
        /\ k <= Len(in_b) => in_b[k] \in Nat /\ in_b[k] # 0
    BY <2>3, <2>4
  <2>6. e.tag # LDR
    BY <2>1, <2>3 DEF LDR
  <2>7. CASE k > Len(in_b)
    <3>1. k <= Len(in_a) /\ ~(k <= Len(in_b)) /\ e.kind = "removed" /\ e.field_no_b = 0
          /\ e.field_no_a = in_a[k]
      BY <2>3, <2>4, <2>7
    <3> QED
      BY <2>5, <2>6, <3>1 DEF e
  <2>8. CASE ~(k > Len(in_b)) /\ k > Len(in_a)
    <3>1. k <= Len(in_b) /\ ~(k <= Len(in_a)) /\ e.kind = "added" /\ e.field_no_a = 0
          /\ e.field_no_b = in_b[k]
      BY <2>3, <2>4, <2>8
    <3> QED
      BY <2>5, <2>6, <3>1 DEF e
  <2>9. CASE ~(k > Len(in_b)) /\ ~(k > Len(in_a))
    <3>1. k <= Len(in_b) /\ k <= Len(in_a) /\ e.kind = "changed" /\ e.field_no_a = in_a[k]
          /\ e.field_no_b = in_b[k]
      BY <2>3, <2>4, <2>9
    <3> QED
      BY <2>3, <2>5, <2>6, <3>1 DEF e
  <2> QED
    BY <2>7, <2>8, <2>9
<1>6. ASSUME NEW m \in 1..Len(diff), NEW l \in 1..Len(diff),
             \/ diff[m].field_no_a = diff[l].field_no_a /\ diff[m].field_no_a # 0
             \/ diff[m].field_no_b = diff[l].field_no_b /\ diff[m].field_no_b # 0
      PROVE  m = l
  <2>1. m \notin 1..n /\ l \notin 1..n
    BY <1>3, <1>6
  <2>2. PICK i \in 1..Len(list) : m = n + i
    BY <1>2, <2>1
  <2>3. PICK j \in 1..Len(list) : l = n + j
    BY <1>2, <2>1
  <2>4. EntryAt(diff[m], a, b, about[i], occ[i]) /\ EntryAt(diff[l], a, b, about[j], occ[j])
    BY <1>4, <2>2, <2>3
  <2>5. about[i] = about[j] /\ occ[i] = occ[j]
    BY <1>6, <2>4, OneComparison
  <2>6. i = j
    BY <1>1, <2>5 DEF Compares
  <2> QED
    BY <2>2, <2>3, <2>6
<1>7. Len(diff) \in Nat
  BY <1>1
<1>8. ASSUME NEW m \in 1..Len(diff)
      PROVE  /\ diff[m].field_no_a \in Nat /\ diff[m].field_no_b \in Nat
             /\ diff[m].kind \in {"removed", "added", "changed"}
             /\ diff[m].field_no_a # 0 <=> diff[m].kind \in {"changed", "removed"} /\ diff[m].tag # LDR
             /\ diff[m].field_no_b # 0 <=> diff[m].kind \in {"changed", "added"} /\ diff[m].tag # LDR
             /\ diff[m].kind = "changed" /\ diff[m].tag # LDR =>
                  RenderFieldBreaker(a[diff[m].field_no_a]) # RenderFieldBreaker(b[diff[m].field_no_b])
  <2>1. CASE m \in 1..n
    BY <1>3, <2>1
  <2>2. ASSUME NEW i \in 1..Len(list), m = n + i
        PROVE  /\ diff[m].field_no_a \in Nat /\ diff[m].field_no_b \in Nat
               /\ diff[m].kind \in {"removed", "added", "changed"}
               /\ diff[m].field_no_a # 0 <=> diff[m].kind \in {"changed", "removed"}
               /\ diff[m].field_no_b # 0 <=> diff[m].kind \in {"changed", "added"}
               /\ diff[m].tag # LDR
               /\ diff[m].kind = "changed" =>
                    RenderFieldBreaker(a[diff[m].field_no_a]) # RenderFieldBreaker(b[diff[m].field_no_b])
    BY <1>5, <2>2
  <2> QED
    BY <1>2, <2>1, <2>2
<1> QED
  BY <1>6, <1>7, <1>8

\* The numbers of a set in ascending order.
Listing(e, K) ==
  /\ Len(e) \in Nat /\ Ascending(e, Len(e))
  /\ \A i \in 1..Len(e) : e[i] \in K
  /\ \A k \in K : \E i \in 1..Len(e) : e[i] = k

\* Every set of positions can be listed so.
LEMMA ListingExists ==
  ASSUME NEW C \in Nat, NEW K \in SUBSET (1..C)
  PROVE  \E e : Listing(e, K)
<1> DEFINE all == [i \in 1..C |-> i]
           e == ElementsAt(all, K)
<1>1. all \in Seq(Nat) /\ Len(all) = C /\ \A i \in 1..C : all[i] = i
  OBVIOUS
<1> HIDE DEF all
<1>2. e \in Seq(Nat) /\ \E pos : Places(pos, e, Len(all), all, K)
  BY <1>1, Picked
<1> HIDE DEF e
<1>3. PICK pos : Places(pos, e, C, all, K)
  BY <1>1, <1>2
<1>4. /\ \A k \in 1..Len(e) : pos[k] \in 1..C /\ pos[k] \in K /\ e[k] = all[pos[k]]
      /\ \A k, l \in 1..Len(e) : k < l => pos[k] < pos[l]
      /\ \A i \in 1..C : i \in K => \E k \in 1..Len(e) : pos[k] = i
  BY <1>3 DEF Places
<1>5. \A k \in 1..Len(e) : e[k] = pos[k]
  BY <1>1, <1>4
<1>6. Len(e) \in Nat /\ e \in [1..Len(e) -> Nat]
  BY <1>2
<1>7. Ascending(e, Len(e))
  BY <1>4, <1>5, <1>6 DEF Ascending
<1>8. \A k \in K : \E i \in 1..Len(e) : e[i] = k
  BY <1>4, <1>5
<1>9. Listing(e, K)
  BY <1>4, <1>5, <1>6, <1>7, <1>8 DEF Listing
<1> QED
  BY <1>9

\* If it is the occurrences K of a tag that are not listed, they are named by
\* the numbers of K.
LEMMA NamesSome ==
  ASSUME NEW g \in Seq(KindFields), NEW tag, NEW listed, NEW K, NEW kappa, Listing(kappa, K),
         \A k \in K : k \in 1..Len(OccurrencesOf(g, tag)),
         \A k \in 1..Len(OccurrencesOf(g, tag)) :
           OccurrencesOf(g, tag)[k] \notin listed <=> k \in K
  PROVE  Names([i \in 1..Len(kappa) |-> OccurrencesOf(g, tag)[kappa[i]]], g, listed, tag)
<1> DEFINE o == OccurrencesOf(g, tag)
           M == Len(kappa)
           e == [i \in 1..M |-> o[kappa[i]]]
           L == Len(g)
<1>1. Names(o, g, {}, tag)
  BY OccurrencesAre
<1>2. /\ \A k \in K : k \in 1..Len(o)
      /\ \A k \in 1..Len(o) : o[k] \notin listed <=> k \in K
  OBVIOUS
<1>3. /\ M \in Nat /\ \A i, j \in 1..M : i < j => kappa[i] < kappa[j]
      /\ \A i \in 1..M : kappa[i] \in K
      /\ \A k \in K : \E i \in 1..M : kappa[i] = k
  BY DEF Listing, Ascending
<1> HIDE DEF o, M
<1>4. /\ Len(o) \in Nat /\ o \in [1..Len(o) -> Nat]
      /\ \A k, l \in 1..Len(o) : k < l => o[k] < o[l]
      /\ \A k \in 1..Len(o) : o[k] \in 1..L /\ g[o[k]].tag = tag
      /\ \A i \in 1..L : g[i].tag = tag => \E k \in 1..Len(o) : o[k] = i
  BY <1>1 DEF Names, Ascending
<1> HIDE DEF L
<1>5. ASSUME NEW i \in 1..M
      PROVE  /\ kappa[i] \in 1..Len(o) /\ e[i] = o[kappa[i]] /\ e[i] \in Nat /\ e[i] \in 1..L
             /\ g[e[i]].tag = tag /\ e[i] \notin listed
  <2>1. kappa[i] \in K /\ kappa[i] \in 1..Len(o)
    BY <1>2, <1>3
  <2>2. e[i] = o[kappa[i]]
    OBVIOUS
  <2> HIDE DEF e
  <2> QED
    BY <1>2, <1>4, <2>1, <2>2
<1>6. Len(e) = M /\ e \in [1..M -> Nat]
  BY <1>3, <1>5
<1> HIDE DEF e
<1>7. Ascending(e, M)
  <2>1. ASSUME NEW i \in 1..M, NEW j \in 1..M, i < j PROVE e[i] < e[j]
    <3>1. kappa[i] < kappa[j] /\ kappa[i] \in 1..Len(o) /\ kappa[j] \in 1..Len(o)
      BY <1>3, <1>5, <2>1
    <3> QED
      BY <1>4, <1>5, <3>1
  <2> QED
    BY <1>6, <2>1 DEF Ascending
<1>8. ASSUME NEW i \in 1..L, g[i].tag = tag, i \notin listed PROVE \E k \in 1..M : e[k] = i
  <2>1. PICK k \in 1..Len(o) : o[k] = i
    BY <1>4, <1>8
  <2>2. k \in K
    BY <1>2, <1>8, <2>1
  <2>3. PICK j \in 1..M : kappa[j] = k
    BY <1>3, <2>2
  <2> QED
    BY <1>5, <2>1, <2>3
<1>9. Names(e, g, listed, tag)
  BY <1>3, <1>5, <1>6, <1>7, <1>8 DEF Names, L
<1> QED
  BY <1>9 DEF e, o, M

\* The fields that a diff lists of each record.
ListedA(diff) == {diff[m].field_no_a : m \in DOMAIN diff}
ListedB(diff) == {diff[m].field_no_b : m \in DOMAIN diff}

\* The occurrences of a tag that are listed are those that differ.
ListedAsCompared(diff, a, b, tag) ==
  LET in_a == OccurrencesOf(a, tag)
      in_b == OccurrencesOf(b, tag)
  IN /\ \A k \in 1..Len(in_a) : in_a[k] \notin ListedA(diff) <=> SameAt(a, b, tag, k)
     /\ \A k \in 1..Len(in_b) : in_b[k] \notin ListedB(diff) <=> SameAt(a, b, tag, k)

\* See ListedAsCompared.
LEMMA ListedAre ==
  ASSUME NEW a \in Seq(KindFields), NEW b \in Seq(KindFields), NEW diff, NEW n, NEW list,
         NEW about, NEW occ, IsDiff(diff, n, list, a, b, about, occ),
         NEW tag \in TagsOf(a) \cup TagsOf(b)
  PROVE  ListedAsCompared(diff, a, b, tag)
<1> DEFINE in_a == OccurrencesOf(a, tag)
           in_b == OccurrencesOf(b, tag)
<1>1. /\ n \in Nat /\ Len(list) \in Nat /\ Len(diff) = n + Len(list) /\ DOMAIN diff = 1..Len(diff)
      /\ \A i \in 1..n : diff[i] = Entry("changed", LDR, 0, 0)
      /\ \A i \in 1..Len(list) : diff[n + i] = list[i]
      /\ Compares(list, a, b, TagsOf(a) \cup TagsOf(b), about, occ)
  BY DEF IsDiff
<1>2. Names(in_a, a, {}, tag) /\ Names(in_b, b, {}, tag)
  BY OccurrencesAre
<1>3. /\ Len(in_a) \in Nat /\ \A k \in 1..Len(in_a) : in_a[k] \in Nat \ {0}
      /\ Len(in_b) \in Nat /\ \A k \in 1..Len(in_b) : in_b[k] \in Nat \ {0}
  BY <1>2 DEF Names
<1>4. Count(a, b, tag) = IF Len(in_a) < Len(in_b) THEN Len(in_b) ELSE Len(in_a)
  BY DEF Count, Occurrences
<1>5. \A k : /\ k \in 1..Len(in_a) => k \in 1..Count(a, b, tag)
             /\ k \in 1..Len(in_b) => k \in 1..Count(a, b, tag)
  <2> DEFINE p == Len(in_a)
             q == Len(in_b)
             c == Count(a, b, tag)
  <2>1. p \in Nat /\ q \in Nat /\ c = IF p < q THEN q ELSE p
    BY <1>3, <1>4
  <2> HIDE DEF p, q, c
  <2>2. c \in Nat /\ p <= c /\ q <= c
    BY ONLY <2>1
  <2>3. \A k : (k \in 1..p => k \in 1..c) /\ (k \in 1..q => k \in 1..c)
    BY ONLY <2>1, <2>2
  <2> QED
    BY ONLY <2>3 DEF p, q, c
<1>6. ASSUME NEW k \in 1..Count(a, b, tag), ~SameAt(a, b, tag, k)
      PROVE  \E m \in DOMAIN diff : EntryAt(diff[m], a, b, tag, k)
  <2>1. PICK i \in 1..Len(list) : about[i] = tag /\ occ[i] = k
    BY <1>1, <1>6 DEF Compares
  <2>2. EntryAt(list[i], a, b, tag, k)
    BY <1>1, <2>1 DEF Compares
  <2>3. n + i \in DOMAIN diff /\ diff[n + i] = list[i]
    BY <1>1, SMTT(30)
  <2> QED
    BY <2>2, <2>3
<1>7. ASSUME NEW m \in DOMAIN diff, diff[m].field_no_a # 0 \/ diff[m].field_no_b # 0
      PROVE  \E i \in 1..Len(list) : EntryAt(diff[m], a, b, about[i], occ[i])
  <2>1. ~(m <= n)
    <3>1. SUFFICES ASSUME m <= n PROVE FALSE
      OBVIOUS
    <3>2. diff[m] = Entry("changed", LDR, 0, 0)
      BY <1>1, <3>1
    <3> QED
      BY <1>7, <3>2 DEF Entry
  <2>2. m - n \in 1..Len(list) /\ m = n + (m - n)
    BY <1>1, <2>1
  <2>3. diff[m] = list[m - n]
    BY <1>1, <2>2
  <2> QED
    BY <1>1, <2>2, <2>3 DEF Compares
<1> HIDE DEF in_a, in_b
<1>8. \A e, other, k : EntryAt(e, a, b, other, k) =>
        /\ k \in Nat \ {0} /\ ~SameAt(a, b, other, k)
        /\ e.field_no_a = IF k <= Len(OccurrencesOf(a, other)) THEN OccurrencesOf(a, other)[k] ELSE 0
        /\ e.field_no_b = IF k <= Len(OccurrencesOf(b, other)) THEN OccurrencesOf(b, other)[k] ELSE 0
  BY DEF EntryAt
<1>9. ASSUME NEW k \in 1..Len(in_a) PROVE in_a[k] \notin ListedA(diff) <=> SameAt(a, b, tag, k)
  <2>1. ASSUME in_a[k] \notin ListedA(diff), ~SameAt(a, b, tag, k) PROVE FALSE
    <3>1. PICK m \in DOMAIN diff : EntryAt(diff[m], a, b, tag, k)
      BY <1>5, <1>6, <2>1
    <3>2. diff[m].field_no_a = in_a[k]
      BY <1>3, <1>8, <3>1 DEF in_a
    <3> QED
      BY <2>1, <3>2 DEF ListedA
  <2>2. ASSUME in_a[k] \in ListedA(diff) PROVE ~SameAt(a, b, tag, k)
    <3>1. PICK m \in DOMAIN diff : diff[m].field_no_a = in_a[k]
      BY <2>2 DEF ListedA
    <3>2. in_a[k] # 0 /\ k \in Nat \ {0} /\ k <= Len(in_a)
      BY <1>3
    <3>3. PICK i \in 1..Len(list) : EntryAt(diff[m], a, b, about[i], occ[i])
      BY <1>7, <3>1, <3>2
    <3>4. PICK other : other = about[i]
      OBVIOUS
    <3>5. PICK l : l = occ[i]
      OBVIOUS
    <3>6. EntryAt(diff[m], a, b, other, l)
      BY <3>3, <3>4, <3>5
    <3>7. /\ l \in Nat \ {0} /\ ~SameAt(a, b, other, l)
          /\ l <= Len(OccurrencesOf(a, other)) /\ OccurrencesOf(a, other)[l] = in_a[k]
      BY <1>8, <3>1, <3>2, <3>6
    <3>8. other = tag /\ l = k
      BY <3>2, <3>7, OneOccurrence DEF in_a
    <3> QED
      BY <3>7, <3>8
  <2> QED
    BY <2>1, <2>2
<1>10. ASSUME NEW k \in 1..Len(in_b) PROVE in_b[k] \notin ListedB(diff) <=> SameAt(a, b, tag, k)
  <2>1. ASSUME in_b[k] \notin ListedB(diff), ~SameAt(a, b, tag, k) PROVE FALSE
    <3>1. PICK m \in DOMAIN diff : EntryAt(diff[m], a, b, tag, k)
      BY <1>5, <1>6, <2>1
    <3>2. diff[m].field_no_b = in_b[k]
      BY <1>3, <1>8, <3>1 DEF in_b
    <3> QED
      BY <2>1, <3>2 DEF ListedB
  <2>2. ASSUME in_b[k] \in ListedB(diff) PROVE ~SameAt(a, b, tag, k)
    <3>1. PICK m \in DOMAIN diff : diff[m].field_no_b = in_b[k]
      BY <2>2 DEF ListedB
    <3>2. in_b[k] # 0 /\ k \in Nat \ {0} /\ k <= Len(in_b)
      BY <1>3
    <3>3. PICK i \in 1..Len(list) : EntryAt(diff[m], a, b, about[i], occ[i])
      BY <1>7, <3>1, <3>2
    <3>4. PICK other : other = about[i]
      OBVIOUS
    <3>5. PICK l : l = occ[i]
      OBVIOUS
    <3>6. EntryAt(diff[m], a, b, other, l)
      BY <3>3, <3>4, <3>5
    <3>7. /\ l \in Nat \ {0} /\ ~SameAt(a, b, other, l)
          /\ l <= Len(OccurrencesOf(b, other)) /\ OccurrencesOf(b, other)[l] = in_b[k]
      BY <1>8, <3>1, <3>2, <3>6
    <3>8. other = tag /\ l = k
      BY <3>2, <3>7, OneOccurrence DEF in_b
    <3> QED
      BY <3>7, <3>8
  <2> QED
    BY <2>1, <2>2
<1> QED
  BY <1>9, <1>10 DEF ListedAsCompared, in_a, in_b

\* So what is not listed of a tag is the same in both.
LEMMA UnlistedSame ==
  ASSUME NEW a \in Seq(KindFields), NEW b \in Seq(KindFields), NEW diff, NEW n, NEW list,
         NEW about, NEW occ, IsDiff(diff, n, list, a, b, about, occ),
         NEW tag \in TagsOf(a) \cup TagsOf(b)
  PROVE  OfTag(Unlisted(a, ListedA(diff)), tag) = OfTag(Unlisted(b, ListedB(diff)), tag)
<1> DEFINE in_a == OccurrencesOf(a, tag)
           in_b == OccurrencesOf(b, tag)
           K == {k \in 1..Len(in_a) : SameAt(a, b, tag, k)}
<1>1. /\ \A k \in 1..Len(in_a) : in_a[k] \notin ListedA(diff) <=> SameAt(a, b, tag, k)
      /\ \A k \in 1..Len(in_b) : in_b[k] \notin ListedB(diff) <=> SameAt(a, b, tag, k)
  BY ListedAre DEF ListedAsCompared
<1>2. Len(in_a) \in Nat /\ Len(in_b) \in Nat
  BY OccurrencesAre DEF Names
<1>3. \A k : SameAt(a, b, tag, k) => /\ k <= Len(in_a) /\ k <= Len(in_b)
                                     /\ RenderFieldBreaker(a[in_a[k]]) = RenderFieldBreaker(b[in_b[k]])
  BY DEF SameAt
<1>4. K \in SUBSET (1..Len(in_a))
  OBVIOUS
<1>5. PICK kappa : Listing(kappa, K)
  BY <1>2, <1>4, ListingExists
<1>6. /\ \A k \in K : k \in 1..Len(in_a) /\ k \in 1..Len(in_b) /\ SameAt(a, b, tag, k)
      /\ \A k \in 1..Len(in_a) : in_a[k] \notin ListedA(diff) <=> k \in K
      /\ \A k \in 1..Len(in_b) : in_b[k] \notin ListedB(diff) <=> k \in K
  BY <1>1, <1>2, <1>3
<1> DEFINE ea == [i \in 1..Len(kappa) |-> in_a[kappa[i]]]
           eb == [i \in 1..Len(kappa) |-> in_b[kappa[i]]]
           ga == OfTag(Unlisted(a, ListedA(diff)), tag)
           gb == OfTag(Unlisted(b, ListedB(diff)), tag)
<1> HIDE DEF K
<1>7. Names(ea, a, ListedA(diff), tag)
  BY <1>5, <1>6, NamesSome
<1>8. Names(eb, b, ListedB(diff), tag)
  BY <1>5, <1>6, NamesSome
<1>9. Len(kappa) \in Nat /\ \A i \in 1..Len(kappa) : kappa[i] \in K
  BY <1>5 DEF Listing
<1>10. /\ Len(ea) = Len(kappa) /\ Len(eb) = Len(kappa)
       /\ \A i \in 1..Len(kappa) : ea[i] = in_a[kappa[i]] /\ eb[i] = in_b[kappa[i]]
  BY <1>9
<1> HIDE DEF ea, eb
<1>11. /\ ga \in Seq(Rendered) /\ Len(ga) = Len(ea)
       /\ \A k \in 1..Len(ea) : ga[k] = RenderFieldBreaker(a[ea[k]])
  BY <1>7, UnlistedIs
<1>12. /\ gb \in Seq(Rendered) /\ Len(gb) = Len(eb)
       /\ \A k \in 1..Len(eb) : gb[k] = RenderFieldBreaker(b[eb[k]])
  BY <1>8, UnlistedIs
<1> HIDE DEF ga, gb, in_a, in_b
<1>13. \A k \in 1..Len(kappa) : ga[k] = gb[k]
  BY <1>3, <1>6, <1>9, <1>10, <1>11, <1>12
<1>14. ga = gb
  BY <1>10, <1>11, <1>12, <1>13, SeqEqual
<1> QED
  BY <1>14 DEF ga, gb

\* The entries of the given kinds, the leader's left out.
OfKinds(diff, kinds) == {m \in DOMAIN diff : diff[m].kind \in kinds /\ diff[m].tag # LDR}

\* As many fields of a record are listed as entries are about one of its fields.
LEMMA ListedOnce ==
  ASSUME NEW a \in Seq(KindFields), NEW b \in Seq(KindFields), NEW diff, NEW n, NEW list,
         NEW about, NEW occ, IsDiff(diff, n, list, a, b, about, occ)
  PROVE  /\ Cardinality(ListedA(diff) \ {0}) = Cardinality(OfKinds(diff, {"changed", "removed"}))
         /\ Cardinality(ListedB(diff) \ {0}) = Cardinality(OfKinds(diff, {"changed", "added"}))
<1> DEFINE N == Len(diff)
           key_a == [m \in 1..N |-> diff[m].field_no_a]
           key_b == [m \in 1..N |-> diff[m].field_no_b]
<1>1. DOMAIN diff = 1..N
  BY DEF IsDiff
<1>2. /\ N \in Nat
      /\ \A m \in 1..N :
           /\ diff[m].field_no_a \in Nat /\ diff[m].field_no_b \in Nat
           /\ diff[m].field_no_a # 0 <=> diff[m].kind \in {"changed", "removed"} /\ diff[m].tag # LDR
           /\ diff[m].field_no_b # 0 <=> diff[m].kind \in {"changed", "added"} /\ diff[m].tag # LDR
      /\ \A m, l \in 1..N :
           /\ diff[m].field_no_a = diff[l].field_no_a /\ diff[m].field_no_a # 0 => m = l
           /\ diff[m].field_no_b = diff[l].field_no_b /\ diff[m].field_no_b # 0 => m = l
  BY EntriesAre
<1> HIDE DEF N
<1>3. /\ key_a \in [1..N -> Nat] /\ key_b \in [1..N -> Nat]
      /\ \A m \in 1..N : key_a[m] = diff[m].field_no_a /\ key_b[m] = diff[m].field_no_b
  BY <1>2
<1> HIDE DEF key_a, key_b
<1>4. CountedOnce(key_a, N) /\ CountedOnce(key_b, N)
  <2>1. ASSUME NEW m \in 1..N, NEW l \in 1..N, key_a[m] = key_a[l], key_a[m] # 0 PROVE m = l
    <3>1. diff[m].field_no_a = diff[l].field_no_a /\ diff[m].field_no_a # 0
      BY <1>3, <2>1
    <3> QED
      BY <1>2, <3>1
  <2>2. ASSUME NEW m \in 1..N, NEW l \in 1..N, key_b[m] = key_b[l], key_b[m] # 0 PROVE m = l
    <3>1. diff[m].field_no_b = diff[l].field_no_b /\ diff[m].field_no_b # 0
      BY <1>3, <2>2
    <3> QED
      BY <1>2, <3>1
  <2>3. N \in Nat /\ key_a \in [1..N -> Nat] /\ key_b \in [1..N -> Nat]
    BY <1>2, <1>3
  <2>4. CountedOnce(key_a, N)
    BY ONLY <2>1, <2>3, NamedOnce
  <2>5. CountedOnce(key_b, N)
    BY ONLY <2>2, <2>3, NamedOnce
  <2> QED
    BY <2>4, <2>5
<1>5. ListedA(diff) = {key_a[m] : m \in 1..N} /\ ListedB(diff) = {key_b[m] : m \in 1..N}
  BY <1>1, <1>3 DEF ListedA, ListedB
<1>6. /\ OfKinds(diff, {"changed", "removed"}) = {m \in 1..N : key_a[m] # 0}
      /\ OfKinds(diff, {"changed", "added"}) = {m \in 1..N : key_b[m] # 0}
  <2>1. \A m \in 1..N : /\ key_a[m] # 0 <=> diff[m].kind \in {"changed", "removed"} /\ diff[m].tag # LDR
                        /\ key_b[m] # 0 <=> diff[m].kind \in {"changed", "added"} /\ diff[m].tag # LDR
    BY <1>2, <1>3
  <2>2. \A m : m \in OfKinds(diff, {"changed", "removed"}) <=> m \in 1..N /\ key_a[m] # 0
    BY <1>1, <2>1 DEF OfKinds
  <2>3. \A m : m \in OfKinds(diff, {"changed", "added"}) <=> m \in 1..N /\ key_b[m] # 0
    BY <1>1, <2>1 DEF OfKinds
  <2> QED
    BY <2>2, <2>3
<1> QED
  BY <1>4, <1>5, <1>6 DEF CountedOnce
-----------------------------------------------------------------------------
(***************************************************************************)
(* Chains of edits.                                                        *)
(***************************************************************************)

\* What an edit leaves as it was: the fields of all tags it is not about, and,
\* if it sorts, those of each tag.
Accounted ==
  IF last'.edit = "sort"
  THEN /\ last'.tags = {} /\ InTagOrder(rec'.fields)
       /\ \A tag : OfTag(rec'.fields, tag) = OfTag(rec.fields, tag)
  ELSE Leaves(rec.fields, rec'.fields, last'.tags)

\* What every edit makes of a record: a record, in tag order if it was, unless
\* the edit retags or appends fields.
Retagging == {"move", "swap", "append"}
GoodStep ==
  /\ rec' \in MarcRecords
  /\ InTagOrder(rec.fields) /\ last'.edit \notin Retagging => InTagOrder(rec'.fields)
  /\ UNCHANGED vars \/ Accounted

\* The record behind an edit has the edit's fields.
LEMMA EditMakes ==
  ASSUME rec \in MarcRecords, NEW name, NEW tags, NEW fields \in Seq(KindFields),
         Edit(name, tags, fields)
  PROVE  /\ rec' \in MarcRecords /\ rec'.fields = fields
         /\ last'.edit = name /\ last'.tags = tags
<1>1. rec' = [rec EXCEPT !.fields = fields] /\ last'.edit = name /\ last'.tags = tags
  BY DEF Edit
<1>2. rec' \in MarcRecords /\ rec'.fields = fields
  BY <1>1 DEF MarcRecords
<1> QED
  BY <1>1, <1>2

\* An edit that keeps the order, whatever it is called.
LEMMA KeepingStep ==
  ASSUME rec \in MarcRecords, NEW name, name # "sort", NEW tags, NEW fields,
         Edit(name, tags, fields), Keeps(rec.fields, fields), Leaves(rec.fields, fields, tags)
  PROVE  GoodStep
<1>1. fields \in Seq(KindFields)
  BY DEF Keeps
<1>2. rec' \in MarcRecords /\ rec'.fields = fields /\ last'.edit = name /\ last'.tags = tags
  BY <1>1, EditMakes
<1>3. Accounted
  BY <1>2 DEF Accounted
<1> QED
  BY <1>2, <1>3 DEF GoodStep, Keeps

\* An edit that retags fields, or appends one.
LEMMA RetaggingStep ==
  ASSUME rec \in MarcRecords, NEW name \in Retagging, NEW tags, NEW fields \in Seq(KindFields),
         Edit(name, tags, fields), Leaves(rec.fields, fields, tags)
  PROVE  GoodStep
<1>1. rec' \in MarcRecords /\ rec'.fields = fields /\ last'.edit = name /\ last'.tags = tags
  BY EditMakes
<1>2. name # "sort"
  BY DEF Retagging
<1>3. Accounted
  BY <1>1, <1>2 DEF Accounted
<1> QED
  BY <1>1, <1>3 DEF GoodStep

\* Every step of a chain is such a step.
LEMMA NextGood ==
  ASSUME rec \in MarcRecords, Next
  PROVE  GoodStep
<1> DEFINE old == rec.fields
<1>0. old \in Seq(KindFields)
  BY DEF MarcRecords
<1>1. Keeps(old, old) /\ \A tags : Leaves(old, old, tags)
  BY <1>0, LeavesAll DEF Keeps
<1>2. CASE Add
  <2>1. PICK f \in NewFields, position \in {"order", "end"} :
          Edit(IF position = "end" THEN "append" ELSE "add", {f.tag},
               AddField(old, f, position))
    BY <1>2 DEF Add
  <2>2. f \in KindFields
    BY EditAssumption
  <2> DEFINE new == AddField(old, f, position)
  <2>3. new \in Seq(KindFields) /\ (position # "end" => Keeps(old, new)) /\ Leaves(old, new, {f.tag})
    BY <1>0, <2>2, AddFieldKeeps
  <2> HIDE DEF new
  <2>4. CASE position = "end"
    <3>1. Edit("append", {f.tag}, new)
      BY <2>1, <2>4 DEF new
    <3>2. "append" \in Retagging
      BY DEF Retagging
    <3> QED
      BY <2>3, <3>1, <3>2, RetaggingStep
  <2>5. CASE position # "end"
    <3>1. Edit("add", {f.tag}, new) /\ Keeps(old, new) /\ Leaves(old, new, {f.tag})
      BY <2>1, <2>3, <2>5 DEF new
    <3> QED
      BY <3>1, KeepingStep
  <2> QED
    BY <2>4, <2>5
<1>3. CASE RemoveSelected
  <2>1. PICK sel \in Selectors : Edit("remove", sel.tags, RemoveFields(old, sel))
    BY <1>3 DEF RemoveSelected
  <2>2. /\ Keeps(old, RemoveFields(old, sel))
        /\ Leaves(old, RemoveFields(old, sel), sel.tags)
    BY <1>0, RemoveFieldsKeeps
  <2> QED
    BY <2>1, <2>2, KeepingStep
<1>4. CASE RemoveOnlySubfields
  <2>1. PICK sel \in Coded : Edit("remove", sel.tags, RemoveSubfields(old, sel))
    BY <1>4 DEF RemoveOnlySubfields
  <2>2. /\ Keeps(old, RemoveSubfields(old, sel))
        /\ Leaves(old, RemoveSubfields(old, sel), sel.tags)
    BY <1>0, RemoveSubfieldsKeeps
  <2> QED
    BY <2>1, <2>2, KeepingStep
<1>5. CASE SetSubfields
  <2>1. PICK sel \in Selectors, value \in Values, add_if_missing \in BOOLEAN :
          Edit("set", sel.tags, SetSubfield(old, sel, "b", value, add_if_missing))
    BY <1>5 DEF SetSubfields
  <2>2. "b" \in Strings /\ value \in Strings
    BY EditAssumption
  <2>3. /\ Keeps(old, SetSubfield(old, sel, "b", value, add_if_missing))
        /\ Leaves(old, SetSubfield(old, sel, "b", value, add_if_missing), sel.tags)
    BY <1>0, <2>2, SetSubfieldKeeps
  <2> QED
    BY <2>1, <2>3, KeepingStep
<1>6. CASE Replace
  <2>1. PICK sel \in Selectors, rule \in Rules, kinds \in {{TRUE}, {FALSE}, BOOLEAN} :
          Edit("replace", sel.tags, ReplaceInValues(old, sel, rule, kinds))
    BY <1>6 DEF Replace
  <2>2. IsRule(rule)
    BY EditAssumption
  <2>3. /\ Keeps(old, ReplaceInValues(old, sel, rule, kinds))
        /\ Leaves(old, ReplaceInValues(old, sel, rule, kinds), sel.tags)
    BY <1>0, <2>2, ReplaceKeeps
  <2> QED
    BY <2>1, <2>3, KeepingStep
<1>7. CASE ReplaceEveryRule
  <2>1. PICK rules \in RuleLists :
          Edit("replace", UNION {rules[i].sel.tags : i \in DOMAIN rules},
               ApplyReplaceRules(old, rules))
    BY <1>7 DEF ReplaceEveryRule
  <2>2. /\ Len(rules) \in Nat /\ DOMAIN rules = 1..Len(rules)
        /\ \A i \in DOMAIN rules : IsRule(rules[i].rule)
    BY EditAssumption
  <2>3. /\ Keeps(old, ApplyReplaceRules(old, rules))
        /\ Leaves(old, ApplyReplaceRules(old, rules), UNION {rules[i].sel.tags : i \in DOMAIN rules})
    BY <1>0, <2>2, RulesKeep
  <2> QED
    BY <2>1, <2>3, KeepingStep
<1>8. CASE SetIndicator
  <2>1. PICK sel \in Selectors : Edit("set", sel.tags, SetIndicators(old, sel, Backslash))
    BY <1>8 DEF SetIndicator
  <2>2. Backslash \in Strings
    BY EditAssumption
  <2>3. /\ Keeps(old, SetIndicators(old, sel, Backslash))
        /\ Leaves(old, SetIndicators(old, sel, Backslash), sel.tags)
    BY <1>0, <2>2, SetIndicatorsKeeps
  <2> QED
    BY <2>1, <2>3, KeepingStep
<1>9. CASE Move
  <2>1. PICK m \in Moves :
          IF CrossesBoundary(old, m.tags, m.to) THEN Throws(m.tags)
          ELSE Edit("move", m.tags \cup {m.to}, MoveField(old, m.tags, m.to))
    BY <1>9 DEF Move
  <2>2. CASE CrossesBoundary(old, m.tags, m.to)
    <3>1. Edit("throws", m.tags, old)
      BY <2>1, <2>2 DEF Throws
    <3> QED
      BY <1>1, <3>1, KeepingStep
  <2>3. CASE ~CrossesBoundary(old, m.tags, m.to)
    <3>1. m.to \in Nat /\ "move" \in Retagging
      BY EditAssumption DEF Retagging
    <3>2. /\ MoveField(old, m.tags, m.to) \in Seq(KindFields)
          /\ Leaves(old, MoveField(old, m.tags, m.to), m.tags \cup {m.to})
      BY <1>0, <2>3, <3>1, MoveMakes
    <3> QED
      BY <2>1, <2>3, <3>1, <3>2, RetaggingStep
  <2> QED
    BY <2>2, <2>3
<1>10. CASE Copy
  <2>1. PICK m \in Moves :
          IF CrossesBoundary(old, m.tags, m.to) THEN Throws(m.tags)
          ELSE Edit("copy", {m.to}, CopyField(old, m.tags, m.to))
    BY <1>10 DEF Copy
  <2>2. CASE CrossesBoundary(old, m.tags, m.to)
    <3>1. Edit("throws", m.tags, old)
      BY <2>1, <2>2 DEF Throws
    <3> QED
      BY <1>1, <3>1, KeepingStep
  <2>3. CASE ~CrossesBoundary(old, m.tags, m.to)
    <3>1. m.to \in Nat
      BY EditAssumption
    <3>2. /\ Keeps(old, CopyField(old, m.tags, m.to))
          /\ Leaves(old, CopyField(old, m.tags, m.to), {m.to})
      BY <1>0, <2>3, <3>1, CopyKeeps
    <3> QED
      BY <2>1, <2>3, <3>2, KeepingStep
  <2> QED
    BY <2>2, <2>3
<1>11. CASE Swap
  <2>1. PICK a \in {m.to : m \in Moves} : \E b \in {m.to : m \in Moves} :
          IF SwapThrows(old, a, b) THEN Throws({a, b})
          ELSE Edit("swap", {a, b}, SwapFields(old, a, b))
    BY <1>11 DEF Swap
  <2>2. PICK b \in {m.to : m \in Moves} :
          IF SwapThrows(old, a, b) THEN Throws({a, b})
          ELSE Edit("swap", {a, b}, SwapFields(old, a, b))
    BY <2>1
  <2>3. CASE SwapThrows(old, a, b)
    <3>1. Edit("throws", {a, b}, old)
      BY <2>2, <2>3 DEF Throws
    <3> QED
      BY <1>1, <3>1, KeepingStep
  <2>4. CASE ~SwapThrows(old, a, b)
    <3>1. a \in Nat /\ b \in Nat /\ "swap" \in Retagging
      BY EditAssumption DEF Retagging
    <3>2. SwapFields(old, a, b) \in Seq(KindFields) /\ Leaves(old, SwapFields(old, a, b), {a, b})
      BY <1>0, <2>4, <3>1, SwapMakes
    <3> QED
      BY <2>2, <2>4, <3>1, <3>2, RetaggingStep
  <2> QED
    BY <2>3, <2>4
<1>12. CASE Sort
  <2>1. Edit("sort", {}, SortFields(old))
    BY <1>12 DEF Sort
  <2>2. /\ SortFields(old) \in Seq(KindFields) /\ InTagOrder(SortFields(old))
        /\ \A tag : OfTag(SortFields(old), tag) = OfTag(old, tag)
    BY <1>0, SortMakes
  <2>3. rec' \in MarcRecords /\ rec'.fields = SortFields(old) /\ last'.edit = "sort" /\ last'.tags = {}
    BY <2>1, <2>2, EditMakes
  <2>4. Accounted
    BY <2>2, <2>3 DEF Accounted
  <2> QED
    BY <2>2, <2>3, <2>4 DEF GoodStep
<1>13. CASE Rename
  <2>1. PICK m \in Moves : Edit("rename", m.tags, RenameSubfield(old, m.tags, "a", "b"))
    BY <1>13 DEF Rename
  <2>2. "b" \in Strings
    BY EditAssumption
  <2>3. /\ Keeps(old, RenameSubfield(old, m.tags, "a", "b"))
        /\ Leaves(old, RenameSubfield(old, m.tags, "a", "b"), m.tags)
    BY <1>0, <2>2, RenameKeeps
  <2> QED
    BY <2>1, <2>3, KeepingStep
<1>14. CASE Recase
  <2>1. PICK sel \in Selectors, mapping \in Rules :
          Edit("case", sel.tags, ChangeCase(old, sel.tags, sel.code, mapping))
    BY <1>14 DEF Recase
  <2>2. IsRule(mapping)
    BY EditAssumption
  <2>3. /\ Keeps(old, ChangeCase(old, sel.tags, sel.code, mapping))
        /\ Leaves(old, ChangeCase(old, sel.tags, sel.code, mapping), sel.tags)
    BY <1>0, <2>2, ChangeCaseKeeps
  <2> QED
    BY <2>1, <2>3, KeepingStep
<1>15. CASE Build
  <2>1. PICK tmpl \in Templates :
          IF tmpl.lines # 1 THEN Throws({tmpl.to})
          ELSE Edit("build", {tmpl.to}, BuildField(old, tmpl))
    BY <1>15 DEF Build
  <2>2. CASE tmpl.lines # 1
    <3>1. Edit("throws", {tmpl.to}, old)
      BY <2>1, <2>2 DEF Throws
    <3> QED
      BY <1>1, <3>1, KeepingStep
  <2>3. CASE tmpl.lines = 1
    <3>1. tmpl.to \in Nat
      BY EditAssumption
    <3>2. /\ Keeps(old, BuildField(old, tmpl))
          /\ Leaves(old, BuildField(old, tmpl), {tmpl.to})
      BY <1>0, <3>1, BuildKeeps
    <3> QED
      BY <2>1, <2>3, <3>2, KeepingStep
  <2> QED
    BY <2>2, <2>3
<1>16. CASE Merge
  <2>1. PICK m \in Merges :
          /\ rec' = MergeRecords(rec, m.incoming, m.profile)
          /\ last' = [edit |-> "merge",
                      tags |-> {tag \in TagsOf(m.incoming.fields) :
                                  ActionOf(m.profile, tag) # "protected"}]
    BY <1>16 DEF Merge
  <2>2. m.incoming \in MarcRecords /\ m.profile.default \in Actions
    BY EditAssumption DEF Actions
  <2>3. /\ rec' \in MarcRecords /\ Keeps(rec.fields, rec'.fields)
        /\ Leaves(rec.fields, rec'.fields, MergedTags(m.incoming.fields, m.profile))
    BY <2>1, <2>2, MergeKeeps
  <2>4. last'.edit = "merge" /\ last'.tags = MergedTags(m.incoming.fields, m.profile)
    BY <2>1 DEF MergedTags
  <2>5. Accounted
    BY <2>3, <2>4 DEF Accounted
  <2> QED
    BY <2>3, <2>5 DEF GoodStep, Keeps
<1>17. CASE Done
  BY <1>17 DEF Done, vars, GoodStep
<1> QED
  BY <1>2, <1>3, <1>4, <1>5, <1>6, <1>7, <1>8, <1>9, <1>10, <1>11, <1>12, <1>13, <1>14,
     <1>15, <1>16, <1>17 DEF Next

\* The chain starts from a record and goes on with records.
LEMMA AlwaysRecord == Spec => [](rec \in MarcRecords)
<1>1. Init => rec \in MarcRecords
  BY EditAssumption DEF Init
<1>2. rec \in MarcRecords /\ [Next]_vars => (rec \in MarcRecords)'
  <2>1. ASSUME rec \in MarcRecords, Next PROVE rec' \in MarcRecords
    BY <2>1, NextGood DEF GoodStep
  <2> QED
    BY <2>1 DEF vars
<1> QED
  BY <1>1, <1>2, PTL DEF Spec

\* The fields of a record are of the kinds their tags say.
LEMMA KindsMatch ==
  ASSUME rec \in MarcRecords
  PROVE  KindMatchesTag
<1> SUFFICES ASSUME NEW i \in DOMAIN rec.fields
             PROVE  rec.fields[i].is_control = TagIsControl(rec.fields[i].tag)
  BY DEF KindMatchesTag
<1>1. rec.fields \in Seq(KindFields)
  BY DEF MarcRecords
<1>2. rec.fields[i] \in KindFields
  BY <1>1
<1> QED
  BY <1>2 DEF KindFields

\* What an edit says of the fields it is not about.
Stay ==
  LET before == Without(rec.fields, last'.tags)
      after == Without(rec'.fields, last'.tags) IN
  IF last'.edit = "sort"
  THEN InTagOrder(after) /\ \A tag \in TagsOf(before) \cup TagsOf(after) :
         OfTag(before, tag) = OfTag(after, tag)
  ELSE before = after

\* See Stay.
LEMMA OthersStay ==
  ASSUME rec \in MarcRecords, GoodStep, ~UNCHANGED vars
  PROVE  Stay
<1> DEFINE before == Without(rec.fields, last'.tags)
           after == Without(rec'.fields, last'.tags)
<1>1. rec' \in MarcRecords /\ Accounted
  BY DEF GoodStep
<1>2. rec.fields \in Seq(KindFields) /\ rec'.fields \in Seq(KindFields)
  BY <1>1 DEF MarcRecords
<1>3. before = Having(rec.fields, Nat \ last'.tags) /\ after = Having(rec'.fields, Nat \ last'.tags)
  BY <1>2, HavingIs
<1>4. CASE last'.edit = "sort"
  <2>1. /\ last'.tags = {} /\ InTagOrder(rec'.fields)
        /\ \A tag : OfTag(rec'.fields, tag) = OfTag(rec.fields, tag)
    BY <1>1, <1>4 DEF Accounted
  <2>2. ASSUME NEW fields \in Seq(KindFields) PROVE Having(fields, Nat \ {}) = fields
    <3>1. \A i \in 1..Len(fields) : fields[i].tag \in Nat \ {}
      BY DEF KindFields, Fields
    <3> QED
      BY <3>1, HavingAll
  <2>3. before = rec.fields /\ after = rec'.fields
    BY <1>2, <1>3, <2>1, <2>2
  <2> QED
    BY <1>4, <2>1, <2>3 DEF Stay
<1>5. CASE last'.edit # "sort"
  <2>1. \A tag \in last'.tags : tag \notin Nat \ last'.tags
    OBVIOUS
  <2>2. Leaves(rec.fields, rec'.fields, last'.tags)
    BY <1>1, <1>5 DEF Accounted
  <2>3. before = after
    BY <1>3, <2>1, <2>2 DEF Leaves
  <2> QED
    BY <1>5, <2>3 DEF Stay
<1> QED
  BY <1>4, <1>5

\* The record that a chain started from is never changed, and a record.
LEMMA OriginalStays == Spec => [](original \in MarcRecords)
<1>1. Init => original \in MarcRecords
  BY EditAssumption DEF Init
<1>2. ASSUME Next PROVE original' = original
  BY <1>2 DEF Next, Add, RemoveSelected, RemoveOnlySubfields, SetSubfields, Replace,
     ReplaceEveryRule, SetIndicator, Move, Copy, Swap, Sort, Rename, Recase, Build, Merge, Done,
     Throws, Edit, vars
<1>3. original \in MarcRecords /\ [Next]_vars => (original \in MarcRecords)'
  BY <1>2 DEF vars
<1> QED
  BY <1>1, <1>3, PTL DEF Spec

\* The comparison of two records leaves out nothing but what is the same.
LEMMA DiffIsExplained ==
  ASSUME original \in MarcRecords, rec \in MarcRecords
  PROVE  DiffExplains
<1> DEFINE diff == DiffRecords(original, rec)
           a == original.fields
           b == rec.fields
<1>1. a \in Seq(KindFields) /\ b \in Seq(KindFields)
  BY DEF MarcRecords
<1>2. \E n, list, about, occ : IsDiff(diff, n, list, a, b, about, occ)
  BY DiffIs
<1> HIDE DEF diff, a, b
<1>3. PICK n : \E list, about, occ : IsDiff(diff, n, list, a, b, about, occ)
  BY <1>2
<1>4. PICK list : \E about, occ : IsDiff(diff, n, list, a, b, about, occ)
  BY <1>3
<1>5. PICK about : \E occ : IsDiff(diff, n, list, a, b, about, occ)
  BY <1>4
<1>6. PICK occ : IsDiff(diff, n, list, a, b, about, occ)
  BY <1>5
<1>7. \A tag \in TagsOf(a) \cup TagsOf(b) :
        OfTag(Unlisted(a, ListedA(diff)), tag) = OfTag(Unlisted(b, ListedB(diff)), tag)
  BY <1>1, <1>6, UnlistedSame
<1>8. DOMAIN diff = 1..Len(diff)
  BY <1>6 DEF IsDiff
<1>9. \A m \in DOMAIN diff : diff[m].kind = "changed" /\ diff[m].tag # LDR =>
        RenderFieldBreaker(a[diff[m].field_no_a]) # RenderFieldBreaker(b[diff[m].field_no_b])
  BY <1>1, <1>6, <1>8, EntriesAre
<1>10. /\ Cardinality(ListedA(diff) \ {0}) = Cardinality(OfKinds(diff, {"changed", "removed"}))
       /\ Cardinality(ListedB(diff) \ {0}) = Cardinality(OfKinds(diff, {"changed", "added"}))
  BY <1>1, <1>6, ListedOnce
<1> DEFINE Pairs(kind) == {m \in DOMAIN diff : diff[m].kind = kind /\ diff[m].tag # LDR}
<1>11. /\ OfKinds(diff, {"changed", "removed"}) = Pairs("changed") \cup Pairs("removed")
       /\ OfKinds(diff, {"changed", "added"}) = Pairs("changed") \cup Pairs("added")
  BY DEF OfKinds
<1>12. \A m \in Pairs("changed") :
         RenderFieldBreaker(a[diff[m].field_no_a]) # RenderFieldBreaker(b[diff[m].field_no_b])
  BY <1>9
<1>13. /\ Cardinality(ListedA(diff) \ {0}) = Cardinality(Pairs("changed") \cup Pairs("removed"))
       /\ Cardinality(ListedB(diff) \ {0}) = Cardinality(Pairs("changed") \cup Pairs("added"))
  BY <1>10, <1>11
<1> QED
  BY <1>7, <1>12, <1>13 DEF DiffExplains, ListedA, ListedB, diff, a, b

\* Merging a record once more changes nothing.
LEMMA MergeLeavesItself ==
  ASSUME rec \in MarcRecords
  PROVE  MergeIsStable
<1>1. ASSUME rec \in MarcRecords, InTagOrder(rec.fields), NEW m \in Merges, NeverAdds(m)
      PROVE  LET once == MergeRecords(rec, m.incoming, m.profile)
             IN  MergeRecords(once, m.incoming, m.profile) = once
  <2> DEFINE base == rec.fields
             incoming == m.incoming.fields
             profile == m.profile
             lead == IF rec.leader = "" THEN m.incoming.leader ELSE rec.leader
             once == MergeRecords(rec, m.incoming, m.profile)
             fields == MergeFields(base, incoming, profile)
  <2>1. base \in Seq(KindFields) /\ incoming \in Seq(KindFields) /\ profile.default \in Actions
    BY <1>1, EditAssumption DEF MarcRecords, Actions
  <2>2. \A tag \in TagsOf(incoming) : ActionOf(profile, tag) # "add"
    BY <1>1 DEF NeverAdds
  <2>3. once = [leader |-> lead, fields |-> fields]
    BY DEF MergeRecords
  <2>4. MergeRecords(once, m.incoming, m.profile)
          = [leader |-> IF once.leader = "" THEN m.incoming.leader ELSE once.leader,
             fields |-> MergeFields(once.fields, incoming, profile)]
    BY DEF MergeRecords
  <2>5. InTagOrder(base)
    BY <1>1
  <2> HIDE DEF base, incoming, profile, once
  <2>6. MergeFields(fields, incoming, profile) = fields
    BY <2>1, <2>2, <2>5, MergeTwice
  <2>7. once.leader = lead /\ once.fields = fields
    BY <2>3
  <2>8. (IF lead = "" THEN m.incoming.leader ELSE lead) = lead
    OBVIOUS
  <2> HIDE DEF lead, fields
  <2>9. MergeRecords(once, m.incoming, m.profile) = once
    BY <2>3, <2>4, <2>6, <2>7, <2>8
  <2> QED
    BY <2>9 DEF once
<1> QED
  BY <1>1 DEF MergeIsStable

-----------------------------------------------------------------------------
(***************************************************************************)
(* Catalog: what its operations make.                                      *)
(***************************************************************************)

\* What is spelled is a value, and spelled so.
LEMMA Written ==
  ASSUME NEW symbols, IsSpelled(symbols)
  PROVE  Value(symbols) \in Strings
<1>1. CASE Len(symbols) = 1
  BY <1>1 DEF Value, IsSpelled
<1>2. CASE Len(symbols) # 1
  <2>1. PICK v \in DOMAIN Spelling : Spelling[v] = symbols
    BY <1>2 DEF IsSpelled
  <2> QED
    BY <1>2, <2>1, SpellingAssumption DEF Value
<1> QED
  BY <1>1, <1>2

\* A data field.
LEMMA DataIs ==
  ASSUME NEW tag \in Nat, tag >= 10, NEW ind1 \in Strings, NEW subs \in Seq(Subfields)
  PROVE  /\ Data(tag, ind1, subs) \in KindFields /\ Data(tag, ind1, subs).tag = tag
         /\ ~Data(tag, ind1, subs).is_control
<1>1. "" \in Strings
  BY EditAssumption
<1>2. Data(tag, ind1, subs) \in Fields /\ Data(tag, ind1, subs).tag = tag
      /\ Data(tag, ind1, subs).is_control = FALSE
  BY <1>1 DEF Data, Fields
<1>3. TagIsControl(tag) = FALSE
  BY DEF TagIsControl
<1> QED
  BY <1>2, <1>3 DEF KindFields

\* A control field.
LEMMA ControlIs ==
  ASSUME NEW tag \in Nat, tag < 10, NEW value \in Strings
  PROVE  Control(tag, value) \in KindFields
<1>1. Blank \in Strings
  BY EditAssumption
<1>2. <<>> \in Seq(Subfields)
  OBVIOUS
<1>3. Control(tag, value) \in Fields /\ Control(tag, value).tag = tag
      /\ Control(tag, value).is_control = TRUE
  BY <1>1, <1>2 DEF Control, Fields
<1>4. TagIsControl(tag) = TRUE
  BY DEF TagIsControl
<1> QED
  BY <1>3, <1>4 DEF KindFields

\* New records are records.
LEMMA NewRecordIs ==
  ASSUME NEW material \in Materials
  PROVE  NewRecord(material) \in MarcRecords
<1>1. Value(NewLeader(material)) \in Strings /\ Value(New008) \in Strings
  BY NewTextsAreSpelled, Written
<1> DEFINE tag == IF material = "authority" THEN 100 ELSE 245
           sub == Sub("a", "")
           subs == <<sub>>
           first == Control(8, Value(New008))
           second == Data(tag, Blank, subs)
<1>2. first \in KindFields
  BY <1>1, ControlIs
<1>3. second \in KindFields
  <2>1. "a" \in Strings /\ "" \in Strings /\ Blank \in Strings
    BY EditAssumption
  <2>2. sub \in Subfields
    BY <2>1 DEF Sub, Subfields
  <2> HIDE DEF sub
  <2>3. subs \in Seq(Subfields)
    BY <2>2
  <2>4. tag \in Nat /\ tag >= 10
    OBVIOUS
  <2> HIDE DEF tag, subs
  <2> QED
    BY <2>1, <2>3, <2>4, DataIs
<1>4. NewRecord(material) = [leader |-> Value(NewLeader(material)), fields |-> <<first, second>>]
  BY DEF NewRecord
<1> HIDE DEF first, second
<1>5. <<first, second>> \in Seq(KindFields)
  BY <1>2, <1>3
<1> QED
  BY <1>1, <1>4, <1>5 DEF MarcRecords

\* A value of a table of texts.
LEMMA LookupIs ==
  ASSUME NEW table, NEW key, \A k \in DOMAIN table : table[k] \in Strings
  PROVE  Lookup(table, key, NoTerm) \in Strings
<1>1. NoTerm \in Strings
  BY EditAssumption DEF NoTerm
<1> QED
  BY <1>1 DEF Lookup

\* The terms of Generate33X are texts.
LEMMA ContentIs ==
  ASSUME NEW type, NEW program
  PROVE  ContentFor(type, program) \in Strings
<1>1. Lookup(Content, type, NoTerm) \in Strings
  BY LookupIs, TermsAreStrings
<1>2. "cop" \in Strings /\ "cod" \in Strings
  BY TermsAreStrings
<1> QED
  BY <1>1, <1>2 DEF ContentFor

\* See CarrierFor.
LEMMA CarrierIs ==
  ASSUME NEW category, NEW designation
  PROVE  CarrierFor(category, designation) \in Strings
<1> DEFINE set == Lookup(Designations, category, {})
           listed == designation \in set
           own == category \o CarrierLetter(category, designation)
           disc == category \o "d"
<1>1. CarrierFor(category, designation) =
        CASE category = "f" -> "nc"
          [] category # "f" /\ listed -> own
          [] category \in {"s", "v", "c"} /\ ~listed -> disc
          [] OTHER -> NoTerm
  BY DEF CarrierFor
<1>2. listed => category \in DOMAIN Designations /\ set = Designations[category]
  BY DEF Lookup
<1>3. "nc" \in Strings /\ NoTerm \in Strings
  BY TermsAreStrings, EditAssumption DEF NoTerm
<1> HIDE DEF set
<1>4. listed => own \in Strings
  BY <1>2, TermsAreStrings
<1>5. category \in {"s", "v", "c"} => disc \in Strings
  BY TermsAreStrings
<1> HIDE DEF listed, own, disc
<1> QED
  BY <1>1, <1>3, <1>4, <1>5

-----------------------------------------------------------------------------
(***************************************************************************)
(* Catalog: what its operations keep.                                      *)
(***************************************************************************)

\* The first values of control fields are texts.
LEMMA FilledIs ==
  ASSUME NEW fields \in Seq(KindFields), NEW tag
  PROVE  Filled(fields, tag) \in Seq(KindFields)
<1>1. OfTag(fields, tag) \in Seq(KindFields)
  BY Picked DEF OfTag
<1> QED
  BY <1>1, Picked DEF Filled

\* A field that Generate33X adds.
LEMMA TermFieldIs ==
  ASSUME NEW tag \in 336..338, NEW term \in Strings
  PROVE  /\ TermField(term, tag) \in KindFields /\ TermField(term, tag).tag = tag
         /\ ~TermField(term, tag).is_control
<1> DEFINE one == Sub("a", term)
           two == Sub("b", term)
           three == Sub("2", Source(tag))
           subs == <<one, two, three>>
<1>1. /\ "a" \in Strings /\ "b" \in Strings /\ "2" \in Strings /\ Blank \in Strings
      /\ "rdacontent" \in Strings /\ "rdamedia" \in Strings /\ "rdacarrier" \in Strings
  BY EditAssumption, TermsAreStrings
<1>2. Source(tag) \in Strings
  <2>1. tag = 336 \/ tag = 337 \/ tag = 338
    OBVIOUS
  <2> QED
    BY <1>1, <2>1 DEF Source
<1>3. one \in Subfields /\ two \in Subfields /\ three \in Subfields
  BY <1>1, <1>2 DEF Sub, Subfields
<1> HIDE DEF one, two, three
<1>4. subs \in Seq(Subfields)
  BY <1>3
<1> HIDE DEF subs
<1>5. Data(tag, Blank, subs) \in KindFields /\ Data(tag, Blank, subs).tag = tag
      /\ ~Data(tag, Blank, subs).is_control
  BY <1>1, <1>4, DataIs
<1> QED
  BY <1>5 DEF TermField, subs, one, two, three

\* The terms of a record.
LEMMA TermsAre ==
  ASSUME NEW r \in MarcRecords
  PROVE  TermsOf(r) \in [336..338 -> Strings]
<1> DEFINE f006s == Filled(r.fields, 6)
           f007 == FirstFilled(r.fields, 7)
           f008 == FirstFilled(r.fields, 8)
           by_type == ContentByType(r.leader, f006s, f008)
           type == At(r.leader, 6)
           category == At(f007, 0)
           printish == type \in {"a", "t", "c", "d", "e", "f"}
           content == CASE category = "g" /\ type = "g" -> "sti"
                        [] category = "f" /\ type \in {"a", "t"} -> "tct"
                        [] OTHER -> by_type
           printed == f007 = "" /\ printish
           media == Lookup(Media, category, NoTerm)
           carrier == CarrierFor(category, At(f007, 1))
           Term(tag) == CASE tag = 336 -> content
                          [] tag = 337 -> IF printed THEN "n" ELSE media
                          [] tag = 338 -> IF printed THEN "nc" ELSE carrier
<1>1. TermsOf(r) = [tag \in 336..338 |-> Term(tag)]
  BY DEF TermsOf, TermsFor
<1>2. by_type \in Strings
  <2> DEFINE by_leader == ContentFor(At(r.leader, 6), At(f008, 26) = "b")
             By006(k) == ContentFor(At(f006s[k].value, 0), At(f006s[k].value, 9) = "b")
             by_006 == [k \in DOMAIN f006s |-> By006(k)]
             found == {k \in DOMAIN by_006 : by_006[k] # NoTerm}
             first == CHOOSE k \in found : \A j \in found : k <= j
  <2>1. by_type = CASE by_leader # NoTerm -> by_leader
                    [] by_leader = NoTerm /\ found # {} -> by_006[first]
                    [] OTHER -> NoTerm
    BY DEF ContentByType
  <2>2. by_leader \in Strings /\ \A k : By006(k) \in Strings
    BY ContentIs
  <2>3. NoTerm \in Strings
    BY EditAssumption DEF NoTerm
  <2>4. r.fields \in Seq(KindFields)
    BY DEF MarcRecords
  <2>5. f006s \in Seq(KindFields)
    BY <2>4, FilledIs
  <2> HIDE DEF by_leader, f006s, By006
  <2>6. found \in SUBSET Nat /\ found \subseteq DOMAIN f006s
    BY <2>5
  <2> HIDE DEF found
  <2>7. found # {} => first \in found
    BY <2>6, Least
  <2> HIDE DEF first
  <2>8. found # {} => by_006[first] \in Strings
    BY <2>2, <2>6, <2>7
  <2> HIDE DEF by_006
  <2> QED
    BY <2>1, <2>2, <2>3, <2>8
<1>3. {"sti", "tct", "nc", "n"} \subseteq Strings
  <2>1. Media["f"] = "n" /\ "f" \in DOMAIN Media
    BY DEF Media
  <2> QED
    BY <2>1, TermsAreStrings
<1>4. media \in Strings /\ carrier \in Strings
  BY LookupIs, CarrierIs, TermsAreStrings
<1> HIDE DEF by_type, type, f007, category, printish, printed, media, carrier
<1>5. content \in Strings
  BY <1>2, <1>3
<1> HIDE DEF content
<1>6. ASSUME NEW tag \in 336..338
      PROVE  Term(tag) \in Strings
  <2>1. tag = 336 \/ tag = 337 \/ tag = 338
    OBVIOUS
  <2> QED
    BY <1>3, <1>4, <1>5, <2>1
<1> HIDE DEF Term
<1> QED
  BY <1>1, <1>6

\* See GenerateOne.
LEMMA GenerateOneKeeps ==
  ASSUME NEW fields, NEW terms \in [336..338 -> Strings], NEW out \in Seq(KindFields), NEW tag \in 336..338
  PROVE  LET new == GenerateOne(fields, terms, out, tag)
             added == IF Missing(fields, tag) THEN {tag} ELSE {}
         IN  Keeps(out, new) /\ Leaves(out, new, added)
<1> DEFINE f == TermField(terms[tag], tag)
           added == IF Missing(fields, tag) THEN {tag} ELSE {}
<1>1. CASE Missing(fields, tag) /\ terms[tag] # NoTerm
  <2>1. f \in KindFields /\ f.tag = tag
    BY TermFieldIs
  <2>2. GenerateOne(fields, terms, out, tag) = AddField(out, f, "order") /\ added = {tag}
    BY <1>1 DEF GenerateOne
  <2> HIDE DEF f, added
  <2>3. Keeps(out, AddField(out, f, "order")) /\ Leaves(out, AddField(out, f, "order"), {tag})
    BY <2>1, AddFieldKeeps
  <2> QED
    BY <2>2, <2>3 DEF added
<1>2. CASE ~(Missing(fields, tag) /\ terms[tag] # NoTerm)
  <2>1. GenerateOne(fields, terms, out, tag) = out
    BY <1>2 DEF GenerateOne
  <2>2. Keeps(out, out) /\ Leaves(out, out, added)
    BY LeavesAll DEF Keeps
  <2> QED
    BY <2>1, <2>2
<1> QED
  BY <1>1, <1>2

\* See Generated.
LEMMA Generate33XIs ==
  ASSUME NEW r \in MarcRecords
  PROVE  Generate33X(r) = [leader |-> r.leader, fields |-> Generated(r.fields, TermsOf(r))]
BY DEF Generate33X, MarcRecords

\* The tags of fields that are missing.
MissingOf(fields) == {tag \in 336..338 : Missing(fields, tag)}

\* Generating 33X fields is an edit of those that are missing.
LEMMA GeneratedKeeps ==
  ASSUME NEW fields \in Seq(KindFields), NEW terms \in [336..338 -> Strings]
  PROVE  LET new == Generated(fields, terms)
         IN  Keeps(fields, new) /\ Leaves(fields, new, MissingOf(fields))
<1> DEFINE one == GenerateOne(fields, terms, fields, 336)
           two == GenerateOne(fields, terms, one, 337)
           three == GenerateOne(fields, terms, two, 338)
           Added(tag) == IF Missing(fields, tag) THEN {tag} ELSE {}
<1>1. Generated(fields, terms) = three
  BY DEF Generated
<1>2. /\ 336 \in 336..338 /\ 337 \in 336..338 /\ 338 \in 336..338
      /\ Added(336) \subseteq MissingOf(fields) /\ Added(337) \subseteq MissingOf(fields)
      /\ Added(338) \subseteq MissingOf(fields)
  BY DEF MissingOf
<1> HIDE DEF three
<1>3. Keeps(fields, one) /\ Leaves(fields, one, Added(336))
  BY <1>2, GenerateOneKeeps
<1> HIDE DEF one
<1>4. Keeps(one, two) /\ Leaves(one, two, Added(337))
  <2>1. one \in Seq(KindFields)
    BY <1>3 DEF Keeps
  <2> QED
    BY <1>2, <2>1, GenerateOneKeeps
<1> HIDE DEF two
<1>5. Keeps(two, three) /\ Leaves(two, three, Added(338))
  <2>1. two \in Seq(KindFields)
    BY <1>4 DEF Keeps
  <2> QED
    BY <1>2, <2>1, GenerateOneKeeps DEF three
<1> HIDE DEF Added
<1>6. Leaves(fields, one, MissingOf(fields)) /\ Leaves(one, two, MissingOf(fields))
      /\ Leaves(two, three, MissingOf(fields))
  BY <1>2, <1>3, <1>4, <1>5, LeavesMore
<1>7. Keeps(fields, three)
  BY <1>3, <1>4, <1>5, KeepsAlong
<1>8. Leaves(fields, three, MissingOf(fields))
  BY <1>6, LeavesAlong
<1> QED
  BY <1>1, <1>7, <1>8

\* Elements that were neighbours are neighbours, if both are picked.
LEMMA Neighbours ==
  ASSUME NEW e, Len(e) \in Nat, NEW n \in Nat, NEW s, NEW P, NEW pos, Places(pos, e, n, s, P),
         NEW j \in 1..Len(e)
  PROVE  /\ pos[j] + 1 \in P /\ pos[j] + 1 <= n => j + 1 <= Len(e) /\ pos[j + 1] = pos[j] + 1
         /\ pos[j] - 1 \in P /\ pos[j] - 1 >= 1 => j - 1 >= 1 /\ pos[j - 1] = pos[j] - 1
<1>1. /\ pos \in [1..Len(e) -> 1..n]
      /\ \A k, l \in 1..Len(e) : k < l => pos[k] < pos[l]
      /\ \A p \in 1..n : p \in P => \E k \in 1..Len(e) : pos[k] = p
  BY DEF Places
<1>2. pos[j] \in 1..n
  BY <1>1
<1>3. ASSUME pos[j] + 1 \in P, pos[j] + 1 <= n
      PROVE  j + 1 <= Len(e) /\ pos[j + 1] = pos[j] + 1
  <2>1. PICK k \in 1..Len(e) : pos[k] = pos[j] + 1
    BY <1>1, <1>2, <1>3
  <2>2. ~(k <= j)
    BY <1>1, <1>2, <2>1
  <2>3. j + 1 \in 1..Len(e) /\ pos[j] < pos[j + 1] /\ pos[j + 1] \in 1..n
    BY <1>1, <2>2
  <2>4. ~(j + 1 < k)
    BY <1>1, <1>2, <2>1, <2>3
  <2>5. k = j + 1
    BY <2>2, <2>4
  <2> QED
    BY <2>1, <2>5
<1>4. ASSUME pos[j] - 1 \in P, pos[j] - 1 >= 1
      PROVE  j - 1 >= 1 /\ pos[j - 1] = pos[j] - 1
  <2>1. PICK k \in 1..Len(e) : pos[k] = pos[j] - 1
    BY <1>1, <1>2, <1>4
  <2>2. ~(j <= k)
    BY <1>1, <1>2, <2>1
  <2>3. j - 1 \in 1..Len(e) /\ pos[j - 1] < pos[j] /\ pos[j - 1] \in 1..n
    BY <1>1, <2>2
  <2>4. ~(k < j - 1)
    BY <1>1, <1>2, <2>1, <2>3
  <2>5. k = j - 1
    BY <2>2, <2>4
  <2> QED
    BY <2>1, <2>5
<1> QED
  BY <1>3, <1>4

\* What is expanded has nothing left to expand.
LEMMA ExpandedIs ==
  ASSUME NEW s \in Seq(Strings)
  PROVE  /\ Expanded(s) \in Seq(Strings)
         /\ \A j \in 1..Len(Expanded(s)) : ~ExpandsAt(Expanded(s), j)
         /\ (\A i \in 1..Len(s) : ~ExpandsAt(s, i)) => Expanded(s) = s
<1> DEFINE n == Len(s)
           w == [i \in DOMAIN s |-> IF ExpandsAt(s, i) THEN Abbreviations[s[i]] ELSE s[i]]
           K == {i \in DOMAIN s : ~(i > 1 /\ ExpandsAt(s, i - 1))}
           t == ElementsAt(w, K)
<1>1. Expanded(s) = t
  BY DEF Expanded
<1>2. n \in Nat /\ DOMAIN s = 1..n /\ \A i \in 1..n : s[i] \in Strings
  OBVIOUS
<1>3. /\ Period \in Punctuation
      /\ \A a \in DOMAIN Abbreviations :
           /\ IsWord(a) /\ IsWord(Abbreviations[a]) /\ Abbreviations[a] \in Strings
           /\ Abbreviations[a] \notin DOMAIN Abbreviations
  BY AbbreviationAssumption
<1>4. ~IsWord(Period)
  BY <1>3 DEF IsWord
<1>5. \A i \in 1..n : ExpandsAt(s, i) => s[i] \in DOMAIN Abbreviations
  BY DEF ExpandsAt
<1>6. w \in [1..n -> Strings]
  BY <1>2, <1>3, <1>5
<1>7. w \in Seq(Strings) /\ Len(w) = n
  BY <1>2, <1>6
<1>8. /\ \A i \in 1..n : ExpandsAt(s, i) => w[i] = Abbreviations[s[i]]
      /\ \A i \in 1..n : ~ExpandsAt(s, i) => w[i] = s[i]
  BY <1>2
<1>9. K \subseteq 1..n /\ \A i \in 1..n : i \notin K => i > 1 /\ ExpandsAt(s, i - 1)
  BY <1>2
<1>10. \A i \in 1..n : i \in K /\ i > 1 => ~ExpandsAt(s, i - 1)
  OBVIOUS
<1> HIDE DEF w, K
<1>11. t \in Seq(Strings) /\ \E pos : Places(pos, t, n, w, K)
  BY <1>7, Picked
<1>12. PICK pos : Places(pos, t, n, w, K)
  BY <1>11
<1>13. Len(t) \in Nat
  BY <1>11
<1> HIDE DEF t, n
<1>14. /\ pos \in [1..Len(t) -> 1..n]
       /\ \A k \in 1..Len(t) : pos[k] \in K /\ t[k] = w[pos[k]]
  BY <1>12 DEF Places
<1>15. ASSUME NEW j \in 1..Len(t), ExpandsAt(t, j)
       PROVE  FALSE
  <2> DEFINE i == pos[j]
  <2>1. /\ t[j] \in DOMAIN Abbreviations
        /\ j < Len(t) /\ t[j + 1] = Period
        /\ j > 1 => ~IsWord(t[j - 1])
        /\ j + 1 < Len(t) => ~IsWord(t[j + 2])
    BY <1>15 DEF ExpandsAt
  <2>2. i \in 1..n /\ i \in K /\ t[j] = w[i]
    BY <1>14
  <2>3. /\ i + 1 \in K /\ i + 1 <= n => j + 1 <= Len(t) /\ pos[j + 1] = i + 1
        /\ i - 1 \in K /\ i - 1 >= 1 => j - 1 >= 1 /\ pos[j - 1] = i - 1
    BY <1>2, <1>12, <1>13, Neighbours
  <2>4. pos[j + 1] \in 1..n /\ i < pos[j + 1] /\ t[j + 1] = w[pos[j + 1]]
    BY <1>12, <1>13, <1>14, <2>1 DEF Places
  <2> HIDE DEF i
  <2>5. ~ExpandsAt(s, i) /\ s[i] \in DOMAIN Abbreviations
    BY <1>3, <1>5, <1>8, <2>1, <2>2
  <2>6. i + 1 \in 1..n
    BY <1>2, <2>2, <2>4
  <2>7. i + 1 \in K
    <3>1. (i + 1) - 1 = i
      BY <2>2
    <3> QED
      BY <1>9, <2>5, <2>6, <3>1
  <2>8. pos[j + 1] = i + 1
    BY <2>3, <2>6, <2>7
  <2>9. w[i + 1] = Period
    BY <2>1, <2>4, <2>8
  <2>10. ~ExpandsAt(s, i + 1) /\ s[i + 1] = Period
    BY <1>3, <1>4, <1>5, <1>8, <2>6, <2>9
  <2>11. ASSUME i > 1 PROVE ~IsWord(s[i - 1])
    <3>1. i - 1 \in 1..n
      BY <2>2, <2>11, <1>2
    <3>2. ~ExpandsAt(s, i - 1)
      BY <1>10, <2>2, <2>11
    <3>3. CASE i - 1 \in K
      <4>1. j - 1 \in 1..Len(t) /\ j > 1 /\ pos[j - 1] = i - 1
        BY <1>13, <2>3, <3>1, <3>3
      <4>2. t[j - 1] = w[i - 1]
        BY <1>14, <4>1
      <4> QED
        BY <1>8, <2>1, <3>1, <3>2, <4>1, <4>2
    <3>4. CASE i - 1 \notin K
      <4>1. i - 1 > 1 /\ ExpandsAt(s, (i - 1) - 1)
        BY <1>9, <3>1, <3>4
      <4>2. ((i - 1) - 1) + 1 = i - 1
        BY <3>1
      <4>3. s[i - 1] = Period
        BY <4>1, <4>2 DEF ExpandsAt
      <4> QED
        BY <1>4, <4>3
    <3> QED
      BY <3>3, <3>4
  <2>12. ASSUME i + 1 < n PROVE ~IsWord(s[i + 2])
    <3>1. i + 2 \in 1..n /\ (i + 2) - 1 = i + 1 /\ (i + 1) + 1 = i + 2
      BY <1>2, <2>2, <2>12
    <3>2. i + 2 \in K
      BY <1>9, <2>10, <3>1
    <3>3. j + 1 \in 1..Len(t) /\ (j + 1) + 1 = j + 2
      BY <1>13, <2>1
    <3>4. pos[j + 1] + 1 \in K /\ pos[j + 1] + 1 <= n =>
            (j + 1) + 1 <= Len(t) /\ pos[(j + 1) + 1] = pos[j + 1] + 1
      BY <1>2, <1>12, <1>13, <3>3, Neighbours
    <3>5. j + 2 \in 1..Len(t) /\ pos[j + 2] = i + 2
      BY <1>13, <2>8, <3>1, <3>2, <3>3, <3>4
    <3>6. t[j + 2] = w[i + 2] /\ ~IsWord(t[j + 2])
      BY <1>13, <1>14, <2>1, <3>5
    <3> QED
      BY <1>3, <1>5, <1>8, <3>1, <3>6
  <2>13. i < Len(s)
    BY <1>2, <2>2, <2>6 DEF n
  <2>14. ExpandsAt(s, i)
    BY <2>5, <2>10, <2>11, <2>12, <2>13 DEF ExpandsAt, n
  <2> QED
    BY <2>5, <2>14
<1>16. ASSUME \A i \in 1..n : ~ExpandsAt(s, i)
       PROVE  t = s
  <2>1. w = s
    BY <1>2, <1>7, <1>8, <1>16 DEF n
  <2>2. 1..Len(s) \subseteq K
    <3>1. ASSUME NEW i \in 1..Len(s), i \notin K PROVE FALSE
      <4>1. i \in 1..n /\ i > 1 /\ ExpandsAt(s, i - 1)
        BY <1>9, <3>1 DEF n
      <4>2. i - 1 \in 1..n
        BY <1>2, <4>1
      <4> QED
        BY <1>16, <4>1, <4>2
    <3> QED
      BY <3>1
  <2> QED
    BY <2>1, <2>2, PickAll DEF t
<1> QED
  BY <1>1, <1>11, <1>15, <1>16 DEF n

\* So expanding a value twice is the same as once.
LEMMA AbbrevsOnce ==
  ASSUME NEW v \in Strings
  PROVE  ExpandAbbrevs(v) \in Strings /\ ExpandAbbrevs(ExpandAbbrevs(v)) = ExpandAbbrevs(v)
<1> DEFINE s == Spell(v)
           t == Expanded(s)
           x == ExpandAbbrevs(v)
<1>1. x = Value(t)
  BY DEF ExpandAbbrevs
<1>2. s \in Seq(Strings)
  <2>1. <<v>> \in Seq(Strings)
    OBVIOUS
  <2> QED
    BY <2>1, SpellingAssumption DEF Spell
<1>3. IsSpelled(t)
  <2>1. CASE v \in DOMAIN Spelling
    BY <2>1, AbbreviationAssumption DEF Spell
  <2>2. CASE v \notin DOMAIN Spelling
    <3>1. s = <<v>> /\ Len(s) = 1
      BY <2>2 DEF Spell
    <3>2. \A i \in 1..Len(s) : ~ExpandsAt(s, i)
      BY <3>1 DEF ExpandsAt
    <3>3. t = <<v>>
      BY <1>2, <3>1, <3>2, ExpandedIs
    <3> QED
      BY <2>2, <3>3 DEF IsSpelled
  <2> QED
    BY <2>1, <2>2
<1>4. t \in Seq(Strings) /\ \A j \in 1..Len(t) : ~ExpandsAt(t, j)
  BY <1>2, ExpandedIs
<1> HIDE DEF s, t
<1>5. Spell(Value(t)) = t
  <2>1. CASE Len(t) = 1
    <3>1. Value(t) = t[1] /\ t[1] \notin DOMAIN Spelling
      BY <1>3, <2>1 DEF Value, IsSpelled
    <3>2. <<t[1]>> = t
      BY <1>4, <2>1
    <3> QED
      BY <3>1, <3>2 DEF Spell
  <2>2. CASE Len(t) # 1
    <3>1. \E w \in DOMAIN Spelling : Spelling[w] = t
      BY <1>3, <2>2 DEF IsSpelled
    <3>2. Value(t) = CHOOSE w \in DOMAIN Spelling : Spelling[w] = t
      BY <2>2 DEF Value
    <3>3. Value(t) \in DOMAIN Spelling /\ Spelling[Value(t)] = t
      BY <3>1, <3>2
    <3> QED
      BY <3>3 DEF Spell
  <2> QED
    BY <2>1, <2>2
<1>6. Expanded(t) = t
  BY <1>4, ExpandedIs
<1>7. ExpandAbbrevs(x) = x
  BY <1>1, <1>5, <1>6 DEF ExpandAbbrevs
<1>8. x \in Strings
  BY <1>1, <1>3, Written
<1> QED
  BY <1>7, <1>8

\* RdaExpandAbbreviations, field by field.
ExpandSub(tag, sf) ==
  IF tag = 250 /\ sf.code # "a" THEN sf ELSE Sub(sf.code, ExpandAbbrevs(sf.value))
ExpandField(f) ==
  IF ~f.is_control /\ f.tag \in {250, 300}
  THEN [f EXCEPT !.subs = [i \in DOMAIN f.subs |-> ExpandSub(f.tag, f.subs[i])]] ELSE f
ExpandFields(fields) == [i \in DOMAIN fields |-> ExpandField(fields[i])]

\* See ExpandFields.
LEMMA ExpansionIs ==
  ASSUME NEW fields \in Seq(KindFields)
  PROVE  RdaExpandAbbreviations(fields) = ExpandFields(fields)
<1> DEFINE Expand(sf) == Sub(sf.code, ExpandAbbrevs(sf.value))
           ExpandA(sf) == IF sf.code = "a" THEN Expand(sf) ELSE sf
           ExpandIn(f) == IF f.tag = 250
                          THEN [f EXCEPT !.subs = [i \in DOMAIN @ |-> ExpandA(@[i])]]
                          ELSE [f EXCEPT !.subs = [i \in DOMAIN @ |-> Expand(@[i])]]
           positions == DataFields(fields, {250, 300})
<1>1. RdaExpandAbbreviations(fields)
        = [i \in DOMAIN fields |-> IF i \in positions THEN ExpandIn(fields[i]) ELSE fields[i]]
  BY DEF RdaExpandAbbreviations, MapFields, MapSubs
<1>2. ASSUME NEW f \in KindFields, f.tag \in {250, 300}
      PROVE  ExpandIn(f) = [f EXCEPT !.subs = [i \in DOMAIN f.subs |-> ExpandSub(f.tag, f.subs[i])]]
  <2>1. CASE f.tag = 250
    <3>1. [i \in DOMAIN f.subs |-> ExpandA(f.subs[i])] = [i \in DOMAIN f.subs |-> ExpandSub(f.tag, f.subs[i])]
      BY <2>1 DEF ExpandSub
    <3> QED
      BY <2>1, <3>1
  <2>2. CASE f.tag # 250
    <3>1. [i \in DOMAIN f.subs |-> Expand(f.subs[i])] = [i \in DOMAIN f.subs |-> ExpandSub(f.tag, f.subs[i])]
      BY <2>2 DEF ExpandSub
    <3> QED
      BY <2>2, <3>1
  <2> QED
    BY <2>1, <2>2
<1>3. ASSUME NEW i \in DOMAIN fields
      PROVE  (IF i \in positions THEN ExpandIn(fields[i]) ELSE fields[i]) = ExpandField(fields[i])
  <2>1. fields[i] \in KindFields
    OBVIOUS
  <2>2. i \in positions <=> ~fields[i].is_control /\ fields[i].tag \in {250, 300}
    BY DEF DataFields
  <2> HIDE DEF ExpandIn, positions
  <2> QED
    BY <1>2, <2>1, <2>2 DEF ExpandField
<1> HIDE DEF ExpandIn, positions
<1> QED
  BY <1>1, <1>3 DEF ExpandFields

\* A field that is expanded, once or twice.
LEMMA ExpandFieldIs ==
  ASSUME NEW f \in KindFields
  PROVE  /\ ExpandField(f) \in KindFields /\ ExpandField(f).tag = f.tag
         /\ ExpandField(ExpandField(f)) = ExpandField(f)
<1>1. CASE ~(~f.is_control /\ f.tag \in {250, 300})
  BY <1>1 DEF ExpandField
<1>2. CASE ~f.is_control /\ f.tag \in {250, 300}
  <2> DEFINE subs == [i \in DOMAIN f.subs |-> ExpandSub(f.tag, f.subs[i])]
             g == [f EXCEPT !.subs = subs]
  <2>1. ExpandField(f) = g
    BY <1>2 DEF ExpandField
  <2>2. f.subs \in Seq(Subfields)
    BY DEF KindFields, Fields
  <2>3. ASSUME NEW sf \in Subfields
        PROVE  /\ ExpandSub(f.tag, sf) \in Subfields
               /\ ExpandSub(f.tag, ExpandSub(f.tag, sf)) = ExpandSub(f.tag, sf)
    <3>1. sf.code \in Strings /\ sf.value \in Strings
      BY DEF Subfields
    <3>2. /\ ExpandAbbrevs(sf.value) \in Strings
          /\ ExpandAbbrevs(ExpandAbbrevs(sf.value)) = ExpandAbbrevs(sf.value)
      BY <3>1, AbbrevsOnce
    <3>3. CASE f.tag = 250 /\ sf.code # "a"
      BY <3>3 DEF ExpandSub
    <3>4. CASE ~(f.tag = 250 /\ sf.code # "a")
      <4> DEFINE new == Sub(sf.code, ExpandAbbrevs(sf.value))
      <4>1. ExpandSub(f.tag, sf) = new
        BY <3>4 DEF ExpandSub
      <4>2. new \in Subfields /\ new.code = sf.code /\ new.value = ExpandAbbrevs(sf.value)
        BY <3>1, <3>2 DEF Sub, Subfields
      <4> HIDE DEF new
      <4>3. ExpandSub(f.tag, new) = Sub(sf.code, ExpandAbbrevs(ExpandAbbrevs(sf.value)))
        BY <3>4, <4>2 DEF ExpandSub
      <4>4. ExpandSub(f.tag, new) = new
        BY <3>2, <4>3 DEF new
      <4> QED
        BY <4>1, <4>2, <4>4
    <3> QED
      BY <3>3, <3>4
  <2>4. subs \in [DOMAIN f.subs -> Subfields]
    BY <2>2, <2>3
  <2>5. \A i \in DOMAIN subs : ExpandSub(f.tag, subs[i]) = subs[i]
    BY <2>2, <2>3
  <2>6. DOMAIN subs = DOMAIN f.subs
    OBVIOUS
  <2> HIDE DEF subs
  <2>7. subs \in Seq(Subfields)
    BY <2>4, SubsMapped
  <2>8. g \in KindFields /\ g.tag = f.tag
    BY <2>7, FieldsChanged
  <2>9. g.subs = subs /\ g.is_control = f.is_control
    BY DEF KindFields, Fields
  <2>10. [i \in DOMAIN subs |-> ExpandSub(f.tag, subs[i])] = subs
    BY <2>4, <2>5, <2>6
  <2>11. [g EXCEPT !.subs = subs] = g
    BY DEF KindFields, Fields
  <2> HIDE DEF g
  <2>12. ExpandField(g) = g
    BY <1>2, <2>8, <2>9, <2>10, <2>11 DEF ExpandField
  <2> QED
    BY <2>1, <2>8, <2>12
<1> QED
  BY <1>1, <1>2

\* It is an edit of the fields of two tags, and settles after one pass.
LEMMA ExpandKeeps ==
  ASSUME NEW fields \in Seq(KindFields)
  PROVE  LET new == RdaExpandAbbreviations(fields) IN
         /\ new = ExpandFields(fields) /\ Keeps(fields, new) /\ Leaves(fields, new, {250, 300})
         /\ RdaExpandAbbreviations(new) = new
<1> DEFINE new == ExpandFields(fields)
<1>1. RdaExpandAbbreviations(fields) = new
  BY ExpansionIs
<1>2. ASSUME NEW i \in DOMAIN fields
      PROVE  /\ new[i] = ExpandField(fields[i]) /\ new[i] \in KindFields /\ new[i].tag = fields[i].tag
             /\ ExpandField(new[i]) = new[i] /\ (fields[i].tag \notin {250, 300} => new[i] = fields[i])
  <2>1. fields[i] \in KindFields /\ new[i] = ExpandField(fields[i])
    BY DEF ExpandFields
  <2>2. fields[i].tag \notin {250, 300} => ExpandField(fields[i]) = fields[i]
    BY DEF ExpandField
  <2> QED
    BY <2>1, <2>2, ExpandFieldIs
<1>3. DOMAIN new = DOMAIN fields /\ new = [i \in DOMAIN fields |-> new[i]]
  BY DEF ExpandFields
<1> HIDE DEF new
<1>4. new \in [DOMAIN fields -> KindFields]
  BY <1>2, <1>3
<1>5. \A i \in DOMAIN fields :
        new[i].tag = fields[i].tag /\ (fields[i].tag \notin {250, 300} => new[i] = fields[i])
  BY <1>2
<1>6. Keeps(fields, new) /\ Leaves(fields, new, {250, 300})
  BY <1>4, <1>5, OneByOne
<1>7. new \in Seq(KindFields)
  BY <1>6 DEF Keeps
<1>8. ExpandFields(new) = new
  BY <1>2, <1>3, <1>4 DEF ExpandFields
<1>9. RdaExpandAbbreviations(new) = new
  BY <1>7, <1>8, ExpansionIs
<1> QED
  BY <1>1, <1>6, <1>9 DEF new

-----------------------------------------------------------------------------
(***************************************************************************)
(* Links to authorities.                                                   *)
(***************************************************************************)

\* The subfields of some codes.
SubsOf(codes) == {sf \in Subfields : sf.code \in codes}

\* See SubsOf.
LEMMA OfCodesIs ==
  ASSUME NEW subs \in Seq(Subfields), NEW codes
  PROVE  OfCodes(subs, codes) = Those(subs, SubsOf(codes))
<1>1. {i \in DOMAIN subs : subs[i].code \in codes} = {i \in 1..Len(subs) : subs[i] \in SubsOf(codes)}
  BY DEF SubsOf
<1> QED
  BY <1>1 DEF OfCodes, Those

\* Two lists of subfields, one behind the other.
CodesApart(p, q, codes) == OfCodes(p \o q, codes) = OfCodes(p, codes) \o OfCodes(q, codes)

\* See CodesApart.
LEMMA CodesJoined ==
  ASSUME NEW p \in Seq(Subfields), NEW q \in Seq(Subfields), NEW codes
  PROVE  CodesApart(p, q, codes)
<1>1. p \o q \in Seq(Subfields)
  OBVIOUS
<1>2. ThoseApart(p, q, SubsOf(codes))
  BY ThoseJoined
<1>3. /\ OfCodes(p, codes) = Those(p, SubsOf(codes)) /\ OfCodes(q, codes) = Those(q, SubsOf(codes))
      /\ OfCodes(p \o q, codes) = Those(p \o q, SubsOf(codes))
  BY <1>1, OfCodesIs
<1> QED
  BY <1>2, <1>3 DEF CodesApart, ThoseApart

\* Some of the subfields, all of them, none.
LEMMA CodesSome ==
  ASSUME NEW subs \in Seq(Subfields), NEW codes
  PROVE  /\ OfCodes(subs, codes) \in Seq(Subfields)
         /\ \A i \in 1..Len(OfCodes(subs, codes)) : OfCodes(subs, codes)[i].code \in codes
         /\ (\A i \in 1..Len(subs) : subs[i].code \in codes) => OfCodes(subs, codes) = subs
         /\ (\A i \in 1..Len(subs) : subs[i].code \notin codes) => OfCodes(subs, codes) = <<>>
<1> DEFINE P == {i \in DOMAIN subs : subs[i].code \in codes}
           e == ElementsAt(subs, P)
<1>1. OfCodes(subs, codes) = e
  BY DEF OfCodes
<1>2. \A i \in P : subs[i].code \in codes
  OBVIOUS
<1> HIDE DEF P
<1>3. e \in Seq(Subfields) /\ \E pos : Places(pos, e, Len(subs), subs, P)
  BY Picked
<1>4. \A i \in 1..Len(e) : e[i].code \in codes
  <2>1. PICK pos : Places(pos, e, Len(subs), subs, P)
    BY <1>3
  <2>2. \A i \in 1..Len(e) : pos[i] \in P /\ e[i] = subs[pos[i]]
    BY <2>1 DEF Places
  <2> QED
    BY <1>2, <2>2
<1> HIDE DEF e
<1>5. \A i \in 1..Len(subs) : subs[i] \in SubsOf(codes) <=> subs[i].code \in codes
  BY DEF SubsOf
<1>6. ASSUME \A i \in 1..Len(subs) : subs[i].code \in codes
      PROVE  OfCodes(subs, codes) = subs
  BY <1>5, <1>6, OfCodesIs, ThoseAll
<1>7. ASSUME \A i \in 1..Len(subs) : subs[i].code \notin codes
      PROVE  OfCodes(subs, codes) = <<>>
  BY <1>5, <1>7, OfCodesIs, ThoseNone
<1> QED
  BY <1>1, <1>3, <1>4, <1>6, <1>7

\* Subfields of other codes may go.
LEMMA CodesOfCodes ==
  ASSUME NEW subs \in Seq(Subfields), NEW codes, NEW more,
         \A i \in 1..Len(subs) : subs[i].code \in codes => subs[i].code \in more
  PROVE  OfCodes(OfCodes(subs, more), codes) = OfCodes(subs, codes)
<1> DEFINE P == {i \in DOMAIN subs : subs[i].code \in more}
<1>1. \A i \in 1..Len(subs) : subs[i] \in SubsOf(codes) => i \in P
  BY DEF SubsOf
<1>2. OfCodes(subs, more) = ElementsAt(subs, P)
  BY DEF OfCodes
<1> HIDE DEF P
<1>3. Those(ElementsAt(subs, P), SubsOf(codes)) = Those(subs, SubsOf(codes))
  BY <1>1, ThosePicked
<1>4. ElementsAt(subs, P) \in Seq(Subfields)
  BY Picked
<1> QED
  BY <1>2, <1>3, <1>4, OfCodesIs

\* A link stands between p and q, which have none: the same whatever its URI
\* is, and all else in a field is in p and q.
With(p, sf, q) == (p \o <<sf>>) \o q
HasNone(subs, code) == \A i \in 1..Len(subs) : subs[i].code # code
LinkStands(subs, code, p, q) ==
  /\ p \in Seq(Subfields) /\ q \in Seq(Subfields) /\ HasNone(p, code) /\ HasNone(q, code)
  /\ \A uri : Link(subs, uri, code) = With(p, Sub(code, uri), q)
  /\ \A codes : code \notin codes =>
       OfCodes(subs, codes) = OfCodes(p, codes) \o OfCodes(q, codes)

\* The subfields of some codes, when there is a link between two such lists.
WithApart(p, sf, q, codes) ==
  OfCodes(With(p, sf, q), codes) =
    IF sf.code \in codes THEN With(OfCodes(p, codes), sf, OfCodes(q, codes))
    ELSE OfCodes(p, codes) \o OfCodes(q, codes)

\* See WithApart.
LEMMA CodesWith ==
  ASSUME NEW p \in Seq(Subfields), NEW q \in Seq(Subfields), NEW sf \in Subfields, NEW codes
  PROVE  With(p, sf, q) \in Seq(Subfields) /\ WithApart(p, sf, q, codes)
<1> DEFINE one == <<sf>>
           a == p \o one
<1>1. one \in Seq(Subfields) /\ Len(one) = 1 /\ one[1] = sf
  OBVIOUS
<1>2. a \in Seq(Subfields)
  BY <1>1
<1>3. CodesApart(p, one, codes) /\ CodesApart(a, q, codes)
  BY <1>1, <1>2, CodesJoined
<1>4. OfCodes(p, codes) \in Seq(Subfields)
  BY CodesSome
<1>5. a \o q \in Seq(Subfields)
  BY <1>2
<1>6. ASSUME sf.code \notin codes
      PROVE  OfCodes(a \o q, codes) = OfCodes(p, codes) \o OfCodes(q, codes)
  <2> HIDE DEF one
  <2>1. OfCodes(one, codes) = <<>>
    <3>1. \A i \in 1..Len(one) : one[i].code \notin codes
      BY <1>1, <1>6
    <3> QED
      BY <1>1, <3>1, CodesSome
  <2>2. OfCodes(p, codes) \o <<>> = OfCodes(p, codes)
    BY <1>4
  <2> QED
    BY <1>3, <2>1, <2>2 DEF CodesApart
<1>7. ASSUME sf.code \in codes
      PROVE  OfCodes(a \o q, codes) = (OfCodes(p, codes) \o one) \o OfCodes(q, codes)
  <2> HIDE DEF one
  <2>1. OfCodes(one, codes) = one
    <3>1. \A i \in 1..Len(one) : one[i].code \in codes
      BY <1>1, <1>7
    <3> QED
      BY <1>1, <3>1, CodesSome
  <2> QED
    BY <1>3, <2>1 DEF CodesApart
<1> QED
  BY <1>5, <1>6, <1>7 DEF With, WithApart

\* What Link makes of a list with one link.
LEMMA LinkAgain ==
  ASSUME NEW p \in Seq(Subfields), NEW q \in Seq(Subfields), NEW sf \in Subfields,
         HasNone(p, sf.code), HasNone(q, sf.code), NEW uri
  PROVE  Link(With(p, sf, q), uri, sf.code) = With(p, Sub(sf.code, uri), q)
<1> DEFINE code == sf.code
           one == <<sf>>
           a == p \o one
           s == a \o q
           links == {i \in DOMAIN s : s[i].code = code}
           first == CHOOSE i \in links : \A j \in links : i <= j
           n == Len(p)
<1>1. one \in Seq(Subfields) /\ Len(one) = 1 /\ one[1] = sf /\ n \in Nat
  OBVIOUS
<1>2. /\ a \in Seq(Subfields) /\ Len(a) = n + 1 /\ \A i \in 1..n : a[i] = p[i]
      /\ a[n + 1] = sf
  <2>1. /\ a \in Seq(Subfields) /\ Len(a) = n + Len(one) /\ \A i \in 1..n : a[i] = p[i]
        /\ \A i \in 1..Len(one) : a[n + i] = one[i]
    BY <1>1, Joined
  <2> HIDE DEF a
  <2> QED
    BY <1>1, <2>1
<1> HIDE DEF a
<1>3. /\ s \in Seq(Subfields) /\ Len(s) = (n + 1) + Len(q)
      /\ \A i \in 1..(n + 1) : s[i] = a[i]
      /\ \A i \in 1..Len(q) : s[(n + 1) + i] = q[i]
  <2>0. a \in Seq(Subfields) /\ q \in Seq(Subfields)
    BY <1>2
  <2>1. /\ s \in Seq(Subfields) /\ Len(s) = Len(a) + Len(q)
        /\ \A i \in 1..Len(a) : s[i] = a[i]
        /\ \A i \in 1..Len(q) : s[Len(a) + i] = q[i]
    BY ONLY <2>0, Joined
  <2> HIDE DEF s, n
  <2> QED
    BY <1>2, <2>1
<1> HIDE DEF s
<1>4. n + 1 \in links /\ \A i \in links : i = n + 1
  <2>1. \A i \in 1..n : s[i].code # code
    <3>1. ASSUME NEW i \in 1..n PROVE s[i] = p[i]
      <4>1. i \in 1..(n + 1)
        BY <1>1
      <4> QED
        BY <1>2, <1>3, <4>1
    <3> QED
      BY <3>1 DEF HasNone
  <2>2. \A i \in 1..Len(q) : s[(n + 1) + i].code # code
    BY <1>3 DEF HasNone
  <2>3. s[n + 1].code = code /\ n + 1 \in DOMAIN s
    BY <1>1, <1>2, <1>3
  <2>4. ASSUME NEW i \in links, i # n + 1 PROVE FALSE
    <3>1. i \in 1..((n + 1) + Len(q)) /\ s[i].code = code
      BY <1>3
    <3>2. i > n + 1
      BY <1>1, <2>1, <2>4, <3>1
    <3>3. i - (n + 1) \in 1..Len(q) /\ (n + 1) + (i - (n + 1)) = i
      BY <1>1, <3>1, <3>2
    <3> QED
      BY <2>2, <3>1, <3>3
  <2> QED
    BY <2>3, <2>4
<1> HIDE DEF links
<1>5. first = n + 1 /\ links # {}
  BY <1>1, <1>4
<1> HIDE DEF first
<1>6. SubSeq(s, 1, first - 1) = p
  <2>1. SubSeq(s, 1, n) \in Seq(Subfields) /\ Len(SubSeq(s, 1, n)) = n
        /\ \A i \in 1..n : SubSeq(s, 1, n)[i] = s[i]
    BY <1>1, <1>3, Parted
  <2>2. (n + 1) - 1 = n
    BY <1>1
  <2> QED
    BY <1>1, <1>2, <1>3, <1>5, <2>1, <2>2, SeqEqual
<1>7. SubSeq(s, first + 1, Len(s)) = q
  <2>1. /\ SubSeq(s, (n + 1) + 1, Len(s)) \in Seq(Subfields)
        /\ Len(SubSeq(s, (n + 1) + 1, Len(s))) = Len(s) - (n + 1)
        /\ \A i \in 1..(Len(s) - (n + 1)) : SubSeq(s, (n + 1) + 1, Len(s))[i] = s[(n + 1) + i]
    BY <1>1, <1>3, Parted
  <2>2. Len(s) - (n + 1) = Len(q)
    BY <1>1, <1>3
  <2> QED
    BY <1>3, <1>5, <2>1, <2>2, SeqEqual
<1>8. WithoutLinks(q, code) = q
  <2>1. ASSUME NEW i \in 1..Len(q) PROVE q[i].code \in Strings \ {code}
    <3>1. q[i] \in Subfields /\ q[i].code # code
      BY DEF HasNone
    <3> QED
      BY <3>1 DEF Subfields
  <2> QED
    BY <2>1, CodesSome DEF WithoutLinks
<1>9. Link(s, uri, code) = SubSeq(s, 1, first - 1) \o <<Sub(code, uri)>>
                             \o WithoutLinks(SubSeq(s, first + 1, Len(s)), code)
  BY <1>5 DEF Link, links, first
<1>10. Link(s, uri, code) = (p \o <<Sub(code, uri)>>) \o q
  BY <1>6, <1>7, <1>8, <1>9
<1> QED
  BY <1>10 DEF With, s, a

\* Every list of subfields has a place for a link.
LEMMA LinkHasPlace ==
  ASSUME NEW subs \in Seq(Subfields), NEW code \in Strings
  PROVE  \E p, q : LinkStands(subs, code, p, q)
<1> DEFINE links == {i \in DOMAIN subs : subs[i].code = code}
           first == CHOOSE i \in links : \A j \in links : i <= j
<1>1. DOMAIN subs = 1..Len(subs) /\ Len(subs) \in Nat
  OBVIOUS
<1>2. CASE links = {}
  <2>1. HasNone(subs, code)
    BY <1>1, <1>2 DEF HasNone
  <2>2. ASSUME NEW uri PROVE Link(subs, uri, code) = With(subs, Sub(code, uri), <<>>)
    <3>1. Link(subs, uri, code) = Append(subs, Sub(code, uri))
      BY <1>2 DEF Link
    <3> QED
      BY <3>1 DEF With
  <2>3. <<>> \in Seq(Subfields) /\ HasNone(<<>>, code)
    BY DEF HasNone
  <2>4. ASSUME NEW codes PROVE OfCodes(subs, codes) = OfCodes(subs, codes) \o OfCodes(<<>>, codes)
    <3>1. OfCodes(<<>>, codes) = <<>>
      BY PickEmpty DEF OfCodes
    <3>2. OfCodes(subs, codes) \in Seq(Subfields)
      BY CodesSome
    <3> QED
      BY <3>1, <3>2
  <2>5. LinkStands(subs, code, subs, <<>>)
    BY <2>1, <2>2, <2>3, <2>4 DEF LinkStands
  <2> QED
    BY <2>5
<1>3. CASE links # {}
  <2>1. links \in SUBSET Nat
    BY <1>1
  <2>2. first \in links /\ \A j \in links : first <= j
    BY <1>3, <2>1, Least
  <2>3. first \in 1..Len(subs) /\ subs[first].code = code
        /\ \A i \in 1..Len(subs) : subs[i].code = code => first <= i
    BY <1>1, <2>2
  <2> DEFINE p == SubSeq(subs, 1, first - 1)
             r == SubSeq(subs, first + 1, Len(subs))
             q == OfCodes(r, Strings \ {code})
  <2>4. ASSUME NEW uri PROVE Link(subs, uri, code) = With(p, Sub(code, uri), q)
    BY <1>3 DEF Link, With, WithoutLinks
  <2> HIDE DEF links, first
  <2>5. /\ p \in Seq(Subfields) /\ Len(p) = first - 1 /\ \A i \in 1..(first - 1) : p[i] = subs[i]
        /\ SubSeq(subs, first, Len(subs)) \in Seq(Subfields)
        /\ p \o SubSeq(subs, first, Len(subs)) = subs
    <3>1. first - 1 \in 0..Len(subs) /\ (first - 1) + 1 = first
      BY <1>1, <2>3
    <3> QED
      BY <3>1, Parted
  <2>6. /\ SubSeq(subs, 1, first) \in Seq(Subfields) /\ r \in Seq(Subfields)
        /\ SubSeq(subs, 1, first) \o r = subs
        /\ \A i \in 1..first : SubSeq(subs, 1, first)[i] = subs[i]
        /\ Len(SubSeq(subs, 1, first)) = first
    <3>1. first \in 0..Len(subs)
      BY <1>1, <2>3
    <3> QED
      BY <3>1, Parted
  <2>7. SubSeq(subs, 1, first) = p \o <<subs[first]>>
    <3> DEFINE one == <<subs[first]>>
    <3>1. one \in Seq(Subfields) /\ Len(one) = 1 /\ one[1] = subs[first]
      BY <2>3
    <3> HIDE DEF one, p
    <3>2. /\ p \o one \in Seq(Subfields) /\ Len(p \o one) = Len(p) + Len(one)
          /\ \A i \in 1..Len(p) : (p \o one)[i] = p[i]
          /\ \A i \in 1..Len(one) : (p \o one)[Len(p) + i] = one[i]
      <4>1. p \in Seq(Subfields) /\ one \in Seq(Subfields)
        BY <2>5, <3>1
      <4> QED
        BY ONLY <4>1, Joined
    <3>3. Len(p \o one) = first
      BY <1>1, <2>3, <2>5, <3>1, <3>2
    <3>4. ASSUME NEW i \in 1..first PROVE (p \o one)[i] = subs[i]
      <4>1. CASE i <= first - 1
        <5>1. i \in 1..(first - 1) /\ i \in 1..Len(p)
          BY <1>1, <2>3, <2>5, <4>1
        <5> QED
          BY <2>5, <3>2, <5>1
      <4>2. CASE i = first
        <5>1. Len(p) + 1 = first /\ 1 \in 1..Len(one)
          BY <2>3, <2>5, <3>1
        <5> QED
          BY <3>1, <3>2, <4>2, <5>1
      <4>3. i <= first - 1 \/ i = first
        BY <1>1, <2>3
      <4> QED
        BY <4>1, <4>2, <4>3
    <3>5. SubSeq(subs, 1, first) = p \o one
      BY <2>6, <3>2, <3>3, <3>4, SeqEqual
    <3> QED
      BY <3>5 DEF one
  <2>8. HasNone(p, code)
    BY <1>1, <2>3, <2>5 DEF HasNone
  <2>9. q \in Seq(Subfields) /\ HasNone(q, code)
    <3>1. /\ q \in Seq(Subfields)
          /\ \A i \in 1..Len(q) : q[i].code \in Strings \ {code}
      BY <2>6, CodesSome
    <3> QED
      BY <3>1 DEF HasNone
  <2>10. subs = With(p, subs[first], r)
    BY <2>6, <2>7 DEF With
  <2>11. subs[first] \in Subfields
    BY <2>3
  <2> HIDE DEF p, r
  <2>12. ASSUME NEW codes, code \notin codes
         PROVE  OfCodes(subs, codes) = OfCodes(p, codes) \o OfCodes(q, codes)
    <3>1. OfCodes(subs, codes) = OfCodes(p, codes) \o OfCodes(r, codes)
      <4> DEFINE sf == subs[first]
      <4>1. sf \in Subfields /\ sf.code \notin codes /\ subs = With(p, sf, r)
        BY <2>3, <2>10, <2>11, <2>12
      <4> HIDE DEF sf
      <4>2. p \in Seq(Subfields) /\ r \in Seq(Subfields)
        BY <2>5, <2>6
      <4>3. WithApart(p, sf, r, codes)
        BY ONLY <4>1, <4>2, CodesWith
      <4> QED
        BY <4>1, <4>3 DEF WithApart
    <3>2. ASSUME NEW i \in 1..Len(r), r[i].code \in codes PROVE r[i].code \in Strings \ {code}
      <4>1. r[i] \in Subfields
        BY <2>6
      <4> QED
        BY <2>12, <3>2, <4>1 DEF Subfields
    <3>3. OfCodes(q, codes) = OfCodes(r, codes)
      BY <2>6, <3>2, CodesOfCodes
    <3> QED
      BY <3>1, <3>3
  <2> HIDE DEF q
  <2>13. LinkStands(subs, code, p, q)
    BY <2>4, <2>5, <2>8, <2>9, <2>12 DEF LinkStands
  <2> QED
    BY <2>13
<1> QED
  BY <1>2, <1>3

\* A field with a link, and without.
LinkIn(f, uri, code) == [f EXCEPT !.subs = Link(f.subs, uri, code)]
ClearIn(f, code) == [f EXCEPT !.subs = WithoutLinks(f.subs, code)]

\* A link is the only one of its code, leaves the heading as it was, and can be
\* set anew or cleared as if it had not been set.
LEMMA LinkInIs ==
  ASSUME NEW f \in KindFields, NEW uri \in Strings, NEW code \in {"0", "1"}
  PROVE  LET g == LinkIn(f, uri, code) IN
         /\ g \in KindFields /\ g.tag = f.tag /\ g.is_control = f.is_control
         /\ JoinHeading(g) = JoinHeading(f) /\ LinksOf(g, code) = <<Sub(code, uri)>>
         /\ \A other : LinkIn(g, other, code) = LinkIn(f, other, code)
         /\ ClearIn(g, code) = ClearIn(f, code)
<1> DEFINE subs == f.subs
           new == Link(subs, uri, code)
           sf == Sub(code, uri)
           g == LinkIn(f, uri, code)
<1>1. subs \in Seq(Subfields) /\ f \in Fields
  BY DEF KindFields, Fields
<1>2. code \in Strings
  BY LinkAssumption
<1>3. \E p, q : LinkStands(subs, code, p, q)
  BY <1>1, <1>2, LinkHasPlace
<1>4. PICK p : \E q : LinkStands(subs, code, p, q)
  BY <1>3
<1>5. PICK q : LinkStands(subs, code, p, q)
  BY <1>4
<1>6. sf \in Subfields /\ sf.code = code
  BY <1>2 DEF Sub, Subfields
<1>7. /\ p \in Seq(Subfields) /\ q \in Seq(Subfields) /\ HasNone(p, code) /\ HasNone(q, code)
      /\ \A other : Link(subs, other, code) = With(p, Sub(code, other), q)
  BY <1>5 DEF LinkStands
<1>8. new = With(p, sf, q)
  BY <1>7
<1>9. g = [f EXCEPT !.subs = new]
  BY DEF LinkIn
<1> HIDE DEF subs, new, sf, g
<1>10. new \in Seq(Subfields)
  BY <1>6, <1>7, <1>8, CodesWith
<1>11. g \in KindFields /\ g.tag = f.tag
  BY <1>9, <1>10, FieldsChanged
<1>12. g.subs = new /\ g.is_control = f.is_control
  BY <1>1, <1>9 DEF Fields
<1>13. ASSUME NEW codes, code \notin codes PROVE OfCodes(new, codes) = OfCodes(subs, codes)
  <2>1. WithApart(p, sf, q, codes)
    BY <1>6, <1>7, CodesWith
  <2>2. OfCodes(new, codes) = OfCodes(p, codes) \o OfCodes(q, codes)
    BY <1>6, <1>8, <1>13, <2>1 DEF WithApart
  <2>3. OfCodes(subs, codes) = OfCodes(p, codes) \o OfCodes(q, codes)
    BY <1>5, <1>13 DEF LinkStands
  <2> QED
    BY <2>2, <2>3
<1>14. JoinHeading(g) = JoinHeading(f)
  <2>1. code \notin HeadingCodes
    BY DEF HeadingCodes
  <2> QED
    BY <1>12, <1>13, <2>1 DEF JoinHeading, subs
<1>15. LinksOf(g, code) = <<Sub(code, uri)>>
  <2>1. WithApart(p, sf, q, {code})
    BY <1>6, <1>7, CodesWith
  <2>2. OfCodes(p, {code}) = <<>> /\ OfCodes(q, {code}) = <<>>
    <3>1. (\A i \in 1..Len(p) : p[i].code \notin {code}) /\ (\A i \in 1..Len(q) : q[i].code \notin {code})
      BY <1>7 DEF HasNone
    <3> QED
      BY <1>7, <3>1, CodesSome
  <2>3. OfCodes(new, {code}) = (<<>> \o <<sf>>) \o <<>>
    BY <1>6, <1>8, <2>1, <2>2 DEF WithApart, With
  <2>4. (<<>> \o <<sf>>) \o <<>> = <<sf>>
    BY <1>6
  <2> QED
    BY <1>12, <2>3, <2>4 DEF LinksOf, sf
<1>16. ASSUME NEW other PROVE LinkIn(g, other, code) = LinkIn(f, other, code)
  <2>1. Link(new, other, code) = With(p, Sub(code, other), q)
    BY <1>6, <1>7, <1>8, LinkAgain
  <2>2. Link(new, other, code) = Link(subs, other, code)
    BY <1>7, <2>1
  <2>3. [g EXCEPT !.subs = Link(subs, other, code)] = [f EXCEPT !.subs = Link(subs, other, code)]
    BY <1>1, <1>9 DEF Fields
  <2> QED
    BY <1>12, <2>2, <2>3 DEF LinkIn, subs
<1>17. ClearIn(g, code) = ClearIn(f, code)
  <2>1. WithoutLinks(new, code) = WithoutLinks(subs, code)
    BY <1>13 DEF WithoutLinks
  <2>2. [g EXCEPT !.subs = WithoutLinks(subs, code)] = [f EXCEPT !.subs = WithoutLinks(subs, code)]
    BY <1>1, <1>9 DEF Fields
  <2> QED
    BY <1>12, <2>1, <2>2 DEF ClearIn, subs
<1> QED
  BY <1>11, <1>12, <1>14, <1>15, <1>16, <1>17 DEF g

\* Setting links, an edit of fields of the link's tags.
SetFields(fields, link) ==
  [i \in DOMAIN fields |-> IF i \in LinkedBy(fields, link)
                           THEN LinkIn(fields[i], link.uri, link.code) ELSE fields[i]]

\* See SetFields.
LEMMA SetLinkKeeps ==
  ASSUME NEW fields \in Seq(KindFields), NEW link, link.uri \in Strings, link.code \in {"0", "1"}
  PROVE  LET new == SetLinkedUri(fields, link) IN
         new = SetFields(fields, link) /\ Keeps(fields, new) /\ Leaves(fields, new, link.tags)
<1> DEFINE new == SetFields(fields, link)
<1>1. SetLinkedUri(fields, link) = new
  BY DEF SetLinkedUri, MapFields, SetFields, LinkIn
<1>2. \A i \in LinkedBy(fields, link) : i \in DOMAIN fields /\ fields[i].tag \in link.tags
  BY DEF LinkedBy, DataFields
<1>3. ASSUME NEW i \in DOMAIN fields
      PROVE  /\ new[i] \in KindFields /\ new[i].tag = fields[i].tag
             /\ fields[i].tag \notin link.tags => new[i] = fields[i]
  <2>1. fields[i] \in KindFields
    OBVIOUS
  <2>2. new[i] = IF i \in LinkedBy(fields, link) THEN LinkIn(fields[i], link.uri, link.code)
                 ELSE fields[i]
    BY DEF SetFields
  <2> HIDE DEF new
  <2>3. CASE i \in LinkedBy(fields, link)
    BY <1>2, <2>1, <2>2, <2>3, LinkInIs
  <2>4. CASE i \notin LinkedBy(fields, link)
    BY <2>1, <2>2, <2>4
  <2> QED
    BY <2>3, <2>4
<1>4. DOMAIN new = DOMAIN fields /\ new = [i \in DOMAIN fields |-> new[i]]
  BY DEF SetFields
<1> HIDE DEF new
<1>5. new \in [DOMAIN fields -> KindFields]
  BY <1>3, <1>4
<1>6. Keeps(fields, new) /\ Leaves(fields, new, link.tags)
  BY <1>3, <1>5, OneByOne
<1> QED
  BY <1>1, <1>6 DEF new

\* Clearing them, which is one too.
ClearFields(fields, tags, code) ==
  [i \in DOMAIN fields |-> IF i \in DataFields(fields, tags) THEN ClearIn(fields[i], code) ELSE fields[i]]

\* See ClearFields.
LEMMA ClearLinksKeeps ==
  ASSUME NEW fields \in Seq(KindFields), NEW tags, NEW code
  PROVE  LET new == ClearLinkedUris(fields, tags, code) IN
         new = ClearFields(fields, tags, code) /\ Keeps(fields, new) /\ Leaves(fields, new, tags)
<1> DEFINE new == ClearFields(fields, tags, code)
<1>1. ClearLinkedUris(fields, tags, code) = new
  BY DEF ClearLinkedUris, MapFields, ClearFields, ClearIn
<1>2. \A i \in DataFields(fields, tags) : i \in DOMAIN fields /\ fields[i].tag \in tags
  BY DEF DataFields
<1>3. ASSUME NEW i \in DOMAIN fields
      PROVE  /\ new[i] \in KindFields /\ new[i].tag = fields[i].tag
             /\ fields[i].tag \notin tags => new[i] = fields[i]
  <2>1. fields[i] \in KindFields
    OBVIOUS
  <2>2. new[i] = IF i \in DataFields(fields, tags) THEN ClearIn(fields[i], code) ELSE fields[i]
    BY DEF ClearFields
  <2> HIDE DEF new
  <2>3. ClearIn(fields[i], code) \in KindFields /\ ClearIn(fields[i], code).tag = fields[i].tag
    <3>1. fields[i].subs \in Seq(Subfields)
      BY <2>1 DEF KindFields, Fields
    <3>2. WithoutLinks(fields[i].subs, code) \in Seq(Subfields)
      BY <3>1, CodesSome DEF WithoutLinks
    <3> QED
      BY <2>1, <3>2, FieldsChanged DEF ClearIn
  <2> QED
    BY <1>2, <2>1, <2>2, <2>3
<1>4. DOMAIN new = DOMAIN fields /\ new = [i \in DOMAIN fields |-> new[i]]
  BY DEF ClearFields
<1> HIDE DEF new
<1>5. new \in [DOMAIN fields -> KindFields]
  BY <1>3, <1>4
<1>6. Keeps(fields, new) /\ Leaves(fields, new, tags)
  BY <1>3, <1>5, OneByOne
<1> QED
  BY <1>1, <1>6 DEF new

-----------------------------------------------------------------------------
(***************************************************************************)
(* Chains of edits and cataloguing operations.                             *)
(***************************************************************************)

\* Every step of a chain is as those of edits are.
LEMMA CatalogNextGood ==
  ASSUME rec \in MarcRecords, CatalogNext
  PROVE  GoodStep
<1> DEFINE old == rec.fields
<1>1. old \in Seq(KindFields)
  BY DEF MarcRecords
<1>2. CASE Next
  BY <1>2, NextGood
<1>3. CASE Generate
  <2> DEFINE new == Generated(old, TermsOf(rec))
  <2>1. Edit("generate", 336..338, new)
    BY <1>3, Generate33XIs DEF Generate
  <2>2. TermsOf(rec) \in [336..338 -> Strings]
    BY TermsAre
  <2>3. Keeps(old, new) /\ Leaves(old, new, MissingOf(old))
    BY <1>1, <2>2, GeneratedKeeps
  <2>4. MissingOf(old) \subseteq 336..338
    BY DEF MissingOf
  <2> HIDE DEF new, old
  <2>5. Leaves(old, new, 336..338)
    BY <2>3, <2>4, LeavesMore
  <2> QED
    BY <2>1, <2>3, <2>5, KeepingStep DEF old
<1>4. CASE ExpandAbbreviations
  <2>1. Edit("expand", {250, 300}, RdaExpandAbbreviations(old))
    BY <1>4 DEF ExpandAbbreviations
  <2>2. /\ Keeps(old, RdaExpandAbbreviations(old))
        /\ Leaves(old, RdaExpandAbbreviations(old), {250, 300})
    BY <1>1, ExpandKeeps
  <2> QED
    BY <2>1, <2>2, KeepingStep
<1>5. CASE SetLink
  <2>1. PICK link \in Links : Edit("link", link.tags, SetLinkedUri(old, link))
    BY <1>5 DEF SetLink
  <2>2. link.uri \in Strings /\ link.code \in {"0", "1"}
    BY LinkAssumption
  <2>3. Keeps(old, SetLinkedUri(old, link)) /\ Leaves(old, SetLinkedUri(old, link), link.tags)
    BY <1>1, <2>2, SetLinkKeeps
  <2> QED
    BY <2>1, <2>3, KeepingStep
<1>6. CASE ClearLinks
  <2>1. PICK link \in Links : Edit("unlink", link.tags, ClearLinkedUris(old, link.tags, link.code))
    BY <1>6 DEF ClearLinks
  <2>2. /\ Keeps(old, ClearLinkedUris(old, link.tags, link.code))
        /\ Leaves(old, ClearLinkedUris(old, link.tags, link.code), link.tags)
    BY <1>1, ClearLinksKeeps
  <2> QED
    BY <2>1, <2>2, KeepingStep
<1> QED
  BY <1>2, <1>3, <1>4, <1>5, <1>6 DEF CatalogNext

\* The chain starts from a record, which it leaves alone, and goes on with
\* records.
CatalogInv == original \in MarcRecords /\ rec \in MarcRecords

\* See CatalogInv.
LEMMA CatalogAlways == CatalogSpec => []CatalogInv
<1>1. CatalogInit => CatalogInv
  <2>1. Records \cup {NewRecord(material) : material \in Materials} \subseteq MarcRecords
    BY NewRecordIs, EditAssumption
  <2> QED
    BY <2>1 DEF CatalogInit, CatalogInv
<1>2. ASSUME CatalogNext PROVE original' = original
  <2>1. CASE Next
    BY <2>1 DEF Next, Add, RemoveSelected, RemoveOnlySubfields, SetSubfields, Replace,
       ReplaceEveryRule, SetIndicator, Move, Copy, Swap, Sort, Rename, Recase, Build, Merge, Done,
       Throws, Edit, vars
  <2>2. CASE Generate \/ ExpandAbbreviations \/ SetLink \/ ClearLinks
    BY <2>2 DEF Generate, ExpandAbbreviations, SetLink, ClearLinks, Edit
  <2> QED
    BY <1>2, <2>1, <2>2 DEF CatalogNext
<1>3. CatalogInv /\ [CatalogNext]_vars => CatalogInv'
  <2>1. ASSUME CatalogInv, CatalogNext PROVE CatalogInv'
    BY <1>2, <2>1, CatalogNextGood DEF GoodStep, CatalogInv
  <2> QED
    BY <2>1 DEF vars, CatalogInv
<1> QED
  BY <1>1, <1>3, PTL DEF CatalogSpec

\* Setting links does not change which fields a link is for.
LEMMA LinkedStay ==
  ASSUME NEW fields \in Seq(KindFields), NEW link, link.uri \in Strings, link.code \in {"0", "1"}
  PROVE  LET once == SetLinkedUri(fields, link) IN
         /\ once \in Seq(KindFields) /\ DOMAIN once = DOMAIN fields
         /\ \A i \in DOMAIN fields :
              once[i] = IF i \in LinkedBy(fields, link)
                        THEN LinkIn(fields[i], link.uri, link.code) ELSE fields[i]
         /\ \A tags : DataFields(once, tags) = DataFields(fields, tags)
         /\ \A other : LinkedBy(once, other) = LinkedBy(fields, other)
<1> DEFINE once == SetFields(fields, link)
<1>1. SetLinkedUri(fields, link) = once /\ Keeps(fields, once)
  BY SetLinkKeeps
<1>2. /\ DOMAIN once = DOMAIN fields
      /\ \A i \in DOMAIN fields :
           once[i] = IF i \in LinkedBy(fields, link)
                     THEN LinkIn(fields[i], link.uri, link.code) ELSE fields[i]
  BY DEF SetFields
<1> HIDE DEF once
<1>3. ASSUME NEW i \in DOMAIN fields
      PROVE  /\ once[i].tag = fields[i].tag /\ once[i].is_control = fields[i].is_control
             /\ JoinHeading(once[i]) = JoinHeading(fields[i])
  <2>1. fields[i] \in KindFields
    OBVIOUS
  <2>2. CASE i \in LinkedBy(fields, link)
    <3>1. once[i] = LinkIn(fields[i], link.uri, link.code)
      BY <1>2, <2>2
    <3> QED
      BY <2>1, <3>1, LinkInIs
  <2>3. CASE i \notin LinkedBy(fields, link)
    BY <1>2, <2>3
  <2> QED
    BY <2>2, <2>3
<1>4. ASSUME NEW tags PROVE DataFields(once, tags) = DataFields(fields, tags)
  BY <1>2, <1>3 DEF DataFields
<1>5. ASSUME NEW other PROVE LinkedBy(once, other) = LinkedBy(fields, other)
  <2> DEFINE want == NacoNormalize(other.heading)
             D == DataFields(fields, other.tags)
  <2>1. /\ LinkedBy(once, other)
             = {i \in D : want # <<>> /\ NacoNormalize(JoinHeading(once[i])) = want}
        /\ LinkedBy(fields, other)
             = {i \in D : want # <<>> /\ NacoNormalize(JoinHeading(fields[i])) = want}
    BY <1>4 DEF LinkedBy
  <2>2. \A i \in D : JoinHeading(once[i]) = JoinHeading(fields[i])
    BY <1>3 DEF DataFields
  <2> HIDE DEF want, D
  <2> QED
    BY <2>1, <2>2
<1> QED
  BY <1>1, <1>2, <1>4, <1>5 DEF Keeps

\* A link that is set again, to the same URI or another, is set as if it had
\* not been set before, and so is one that is cleared.
LEMMA LinksOnce ==
  ASSUME NEW fields \in Seq(KindFields), NEW link, link.uri \in Strings, link.code \in {"0", "1"}
  PROVE  LET once == SetLinkedUri(fields, link) IN
         /\ \A again : again.uri \in Strings /\ again.code = link.code /\ again.tags = link.tags
                         /\ again.heading = link.heading =>
              SetLinkedUri(once, again) = SetLinkedUri(fields, again)
         /\ \A i \in LinkedBy(once, link) : LinksOf(once[i], link.code) = <<Sub(link.code, link.uri)>>
         /\ ClearLinkedUris(once, link.tags, link.code) = ClearLinkedUris(fields, link.tags, link.code)
<1> DEFINE once == SetLinkedUri(fields, link)
           L == LinkedBy(fields, link)
<1>1. /\ once \in Seq(KindFields) /\ DOMAIN once = DOMAIN fields
      /\ \A i \in DOMAIN fields :
           once[i] = IF i \in L THEN LinkIn(fields[i], link.uri, link.code) ELSE fields[i]
      /\ \A tags : DataFields(once, tags) = DataFields(fields, tags)
      /\ \A other : LinkedBy(once, other) = LinkedBy(fields, other)
  BY LinkedStay
<1>2. L \subseteq DataFields(fields, link.tags) /\ DataFields(fields, link.tags) \subseteq DOMAIN fields
  BY DEF LinkedBy, DataFields
<1> HIDE DEF once
<1>3. ASSUME NEW again, again.uri \in Strings, again.code = link.code, again.tags = link.tags,
             again.heading = link.heading
      PROVE  SetLinkedUri(once, again) = SetLinkedUri(fields, again)
  <2>1. again.code \in {"0", "1"}
    BY <1>3
  <2>2. /\ SetLinkedUri(once, again) = SetFields(once, again)
        /\ SetLinkedUri(fields, again) = SetFields(fields, again)
    BY <1>1, <1>3, <2>1, SetLinkKeeps
  <2>3. LinkedBy(fields, again) = L
    BY <1>3 DEF LinkedBy
  <2>4. LinkedBy(once, again) = L
    BY <1>1, <2>3
  <2> HIDE DEF L
  <2>5. ASSUME NEW i \in DOMAIN fields
        PROVE  (IF i \in L THEN LinkIn(once[i], again.uri, again.code) ELSE once[i])
                 = IF i \in L THEN LinkIn(fields[i], again.uri, again.code) ELSE fields[i]
    <3>1. fields[i] \in KindFields
      OBVIOUS
    <3>2. CASE i \in L
      <4>1. once[i] = LinkIn(fields[i], link.uri, link.code)
        BY <1>1, <3>2
      <4>2. \A other : LinkIn(once[i], other, link.code) = LinkIn(fields[i], other, link.code)
        BY <3>1, <4>1, LinkInIs
      <4> QED
        BY <1>3, <3>2, <4>2
    <3>3. CASE i \notin L
      BY <1>1, <3>3
    <3> QED
      BY <3>2, <3>3
  <2> QED
    BY <1>1, <2>2, <2>3, <2>4, <2>5 DEF SetFields
<1>4. ASSUME NEW i \in LinkedBy(once, link)
      PROVE  LinksOf(once[i], link.code) = <<Sub(link.code, link.uri)>>
  <2>1. i \in L
    BY <1>1, <1>4
  <2> HIDE DEF L
  <2>2. i \in DOMAIN fields
    BY <1>2, <2>1
  <2>3. fields[i] \in KindFields /\ once[i] = LinkIn(fields[i], link.uri, link.code)
    BY <1>1, <2>1, <2>2
  <2> QED
    BY <2>3, LinkInIs
<1>5. ClearLinkedUris(once, link.tags, link.code) = ClearLinkedUris(fields, link.tags, link.code)
  <2> DEFINE D == DataFields(fields, link.tags)
             code == link.code
  <2>1. /\ ClearLinkedUris(once, link.tags, code) = ClearFields(once, link.tags, code)
        /\ ClearLinkedUris(fields, link.tags, code) = ClearFields(fields, link.tags, code)
    BY <1>1, ClearLinksKeeps
  <2>2. DataFields(once, link.tags) = D
    BY <1>1
  <2> HIDE DEF L, D
  <2>3. ASSUME NEW i \in DOMAIN fields
        PROVE  (IF i \in D THEN ClearIn(once[i], code) ELSE once[i])
                 = IF i \in D THEN ClearIn(fields[i], code) ELSE fields[i]
    <3>1. fields[i] \in KindFields
      OBVIOUS
    <3>2. CASE i \in L
      <4>1. once[i] = LinkIn(fields[i], link.uri, code)
        BY <1>1, <3>2
      <4>2. ClearIn(once[i], code) = ClearIn(fields[i], code)
        BY <3>1, <4>1, LinkInIs
      <4>3. i \in D
        BY <1>2, <3>2 DEF D
      <4> QED
        BY <4>2, <4>3
    <3>3. CASE i \notin L
      BY <1>1, <3>3
    <3> QED
      BY <3>2, <3>3
  <2> QED
    BY <1>1, <2>1, <2>2, <2>3 DEF ClearFields, D
<1> QED
  BY <1>3, <1>4, <1>5 DEF once

\* So the links of a record settle.
LEMMA LinksAreSettled ==
  ASSUME rec \in MarcRecords
  PROVE  LinksSettle
<1> DEFINE fields == rec.fields
<1>1. fields \in Seq(KindFields)
  BY DEF MarcRecords
<1>2. ASSUME NEW link \in Links
      PROVE  /\ link \in [tags : SUBSET Nat, heading : Seq(Strings), uri : Strings, code : {"0", "1"}]
             /\ link.uri \in Strings /\ link.code \in {"0", "1"}
  BY LinkAssumption
<1>3. ASSUME NEW i \in DataFields(fields, TagsOf(fields)), NEW link \in Links
      PROVE  LET heading == JoinHeading(fields[i])
                 own == [link EXCEPT !.heading = heading, !.tags = {fields[i].tag}] IN
             NacoNormalize(heading) # <<>> => i \in LinkedBy(fields, own)
  <2> DEFINE heading == JoinHeading(fields[i])
             own == [link EXCEPT !.heading = heading, !.tags = {fields[i].tag}]
  <2>1. own.heading = heading /\ own.tags = {fields[i].tag}
    BY <1>2
  <2>2. i \in DataFields(fields, {fields[i].tag})
    BY DEF DataFields
  <2> HIDE DEF heading, own
  <2> QED
    BY <2>1, <2>2 DEF LinkedBy, heading, own
<1>4. ASSUME NEW link \in Links, NEW other \in Links
      PROVE  LET once == SetLinkedUri(fields, link)
                 again == [link EXCEPT !.uri = other.uri] IN
             /\ SetLinkedUri(once, link) = once
             /\ SetLinkedUri(once, again) = SetLinkedUri(fields, again)
             /\ \A i \in LinkedBy(once, link) : LinksOf(once[i], link.code) = <<Sub(link.code, link.uri)>>
             /\ ClearLinkedUris(once, link.tags, link.code)
                  = ClearLinkedUris(fields, link.tags, link.code)
  <2> DEFINE once == SetLinkedUri(fields, link)
             again == [link EXCEPT !.uri = other.uri]
             Same(a) == a.uri \in Strings /\ a.code = link.code /\ a.tags = link.tags
                          /\ a.heading = link.heading
  <2>1. Same(again) /\ Same(link)
    BY <1>2
  <2>2. /\ \A a : Same(a) => SetLinkedUri(once, a) = SetLinkedUri(fields, a)
        /\ \A i \in LinkedBy(once, link) : LinksOf(once[i], link.code) = <<Sub(link.code, link.uri)>>
        /\ ClearLinkedUris(once, link.tags, link.code) = ClearLinkedUris(fields, link.tags, link.code)
    BY <1>1, <1>2, LinksOnce
  <2> HIDE DEF again, Same
  <2>3. SetLinkedUri(once, again) = SetLinkedUri(fields, again) /\ SetLinkedUri(once, link) = once
    BY <2>1, <2>2
  <2> QED
    BY <2>2, <2>3 DEF again
<1> QED
  BY <1>3, <1>4 DEF LinksSettle

-----------------------------------------------------------------------------
(***************************************************************************)
(* Description: 33X fields and abbreviations.                              *)
(***************************************************************************)

\* Every field of a is in b, at a place of its own.
GrowsBy(inj, a, b) ==
  /\ inj \in [1..Len(a) -> 1..Len(b)]
  /\ \A i, j \in 1..Len(a) : inj[i] = inj[j] => i = j
  /\ \A i \in 1..Len(a) : b[inj[i]] = a[i]
Grows(a, b) == a \in Seq(KindFields) /\ b \in Seq(KindFields) /\ \E inj : GrowsBy(inj, a, b)

\* A list grows by nothing, and by one change after another.
LEMMA GrowsAlong ==
  /\ \A a \in Seq(KindFields) : Grows(a, a)
  /\ \A a, b, c : Grows(a, b) /\ Grows(b, c) => Grows(a, c)
<1>1. ASSUME NEW a \in Seq(KindFields) PROVE Grows(a, a)
  <2>1. GrowsBy([i \in 1..Len(a) |-> i], a, a)
    BY DEF GrowsBy
  <2> QED
    BY <2>1 DEF Grows
<1>2. ASSUME NEW a, NEW b, NEW c, Grows(a, b), Grows(b, c) PROVE Grows(a, c)
  <2>1. PICK f : GrowsBy(f, a, b)
    BY <1>2 DEF Grows
  <2>2. PICK g : GrowsBy(g, b, c)
    BY <1>2 DEF Grows
  <2> DEFINE h == [i \in 1..Len(a) |-> g[f[i]]]
  <2>3. \A i \in 1..Len(a) : f[i] \in 1..Len(b) /\ b[f[i]] = a[i]
    BY <2>1 DEF GrowsBy
  <2>4. h \in [1..Len(a) -> 1..Len(c)] /\ \A i \in 1..Len(a) : c[h[i]] = a[i]
    BY <2>2, <2>3 DEF GrowsBy
  <2>5. \A i, j \in 1..Len(a) : h[i] = h[j] => i = j
    <3>1. ASSUME NEW i \in 1..Len(a), NEW j \in 1..Len(a), h[i] = h[j] PROVE i = j
      <4>1. f[i] = f[j]
        BY <2>2, <2>3, <3>1 DEF GrowsBy
      <4> QED
        BY <2>1, <4>1 DEF GrowsBy
    <3> QED
      BY <3>1
  <2>6. GrowsBy(h, a, c)
    BY <2>4, <2>5 DEF GrowsBy
  <2> QED
    BY <1>2, <2>6 DEF Grows
<1> QED
  BY <1>1, <1>2

\* A tag that a list has is not lost as it grows.
LEMMA GrowsTags ==
  ASSUME NEW a, NEW b, Grows(a, b)
  PROVE  TagsOf(a) \subseteq TagsOf(b)
<1>1. a \in Seq(KindFields) /\ b \in Seq(KindFields)
  BY DEF Grows
<1>2. PICK inj : GrowsBy(inj, a, b)
  BY DEF Grows
<1>3. \A i \in DOMAIN a : inj[i] \in DOMAIN b /\ b[inj[i]] = a[i]
  BY <1>1, <1>2 DEF GrowsBy
<1> QED
  BY <1>3 DEF TagsOf

\* It grows by a field that is added.
LEMMA AddFieldGrows ==
  ASSUME NEW fields \in Seq(KindFields), NEW f \in KindFields
  PROVE  LET new == AddField(fields, f, "order") IN Grows(fields, new) /\ f.tag \in TagsOf(new)
<1> DEFINE n == Len(fields)
           pos == TagOrderPosition(fields, f.tag)
           group == <<f>>
           new == Insert(fields, pos, group)
           inj == [i \in 1..n |-> IF i <= pos THEN i ELSE i + 1]
<1>1. AddField(fields, f, "order") = new
  BY DEF AddField
<1>2. n \in Nat /\ f.tag \in Nat /\ group \in Seq(KindFields) /\ Len(group) = 1 /\ group[1] = f
  BY DEF KindFields, Fields
<1>3. pos \in 0..n
  BY <1>2, PositionIs
<1> HIDE DEF pos, group
<1>4. /\ new \in Seq(KindFields) /\ Len(new) = n + Len(group)
      /\ \A i \in 1..pos : new[i] = fields[i]
      /\ \A i \in 1..Len(group) : new[pos + i] = group[i]
      /\ \A i \in 1..(n - pos) : new[pos + Len(group) + i] = fields[pos + i]
  <2>1. fields \in Seq(KindFields) /\ group \in Seq(KindFields) /\ pos \in 0..Len(fields)
    BY <1>2, <1>3
  <2> QED
    BY ONLY <2>1, Inserted, ZenonT(40) DEF n
<1> HIDE DEF new
<1>5. Len(new) = n + 1 /\ new[pos + 1] = f /\ \A i \in 1..(n - pos) : new[pos + 1 + i] = fields[pos + i]
  BY <1>2, <1>4
<1> HIDE DEF n
<1>6. inj \in [1..n -> 1..(n + 1)] /\ \A i, j \in 1..n : inj[i] = inj[j] => i = j
  BY <1>2, <1>3
<1>7. ASSUME NEW i \in 1..n PROVE new[inj[i]] = fields[i]
  <2>1. CASE i <= pos
    <3>1. i \in 1..pos /\ inj[i] = i
      BY <2>1
    <3> QED
      BY <1>4, <3>1
  <2>2. CASE i > pos
    <3>1. i - pos \in 1..(n - pos) /\ pos + 1 + (i - pos) = i + 1 /\ pos + (i - pos) = i
      BY <1>2, <1>3, <2>2
    <3>2. inj[i] = i + 1
      BY <1>2, <1>3, <2>2
    <3> QED
      BY <1>5, <3>1, <3>2
  <2> QED
    BY <1>2, <1>3, <2>1, <2>2
<1> HIDE DEF inj
<1>8. GrowsBy(inj, fields, new)
  BY <1>5, <1>6, <1>7 DEF GrowsBy, n
<1>9. f.tag \in TagsOf(new)
  <2>1. pos + 1 \in DOMAIN new
    BY <1>2, <1>3, <1>4, <1>5
  <2> QED
    BY <1>5, <2>1 DEF TagsOf
<1> QED
  BY <1>1, <1>4, <1>8, <1>9 DEF Grows

\* Generate33X adds what is missing, if there is a term for it.
LEMMA GenerateOneGrows ==
  ASSUME NEW fields, NEW terms \in [336..338 -> Strings], NEW out \in Seq(KindFields),
         TagsOf(fields) \subseteq TagsOf(out), NEW tag \in 336..338
  PROVE  LET new == GenerateOne(fields, terms, out, tag)
         IN  Grows(out, new) /\ (terms[tag] # NoTerm => tag \in TagsOf(new))
<1> DEFINE f == TermField(terms[tag], tag)
<1>1. CASE Missing(fields, tag) /\ terms[tag] # NoTerm
  <2>1. f \in KindFields /\ f.tag = tag
    BY TermFieldIs
  <2>2. GenerateOne(fields, terms, out, tag) = AddField(out, f, "order")
    BY <1>1 DEF GenerateOne
  <2> HIDE DEF f
  <2> QED
    BY <2>1, <2>2, AddFieldGrows
<1>2. CASE ~(Missing(fields, tag) /\ terms[tag] # NoTerm)
  <2>1. GenerateOne(fields, terms, out, tag) = out
    BY <1>2 DEF GenerateOne
  <2>2. Grows(out, out)
    BY GrowsAlong
  <2>3. terms[tag] # NoTerm => tag \in TagsOf(out)
    BY <1>2 DEF Missing
  <2> QED
    BY <2>1, <2>2, <2>3
<1> QED
  BY <1>1, <1>2

\* Every term that there is has its field in the end, and no field is lost.
LEMMA GeneratedGrows ==
  ASSUME NEW fields \in Seq(KindFields), NEW terms \in [336..338 -> Strings]
  PROVE  LET new == Generated(fields, terms) IN
         Grows(fields, new) /\ \A tag \in 336..338 : terms[tag] # NoTerm => ~Missing(new, tag)
<1> DEFINE one == GenerateOne(fields, terms, fields, 336)
           two == GenerateOne(fields, terms, one, 337)
           three == GenerateOne(fields, terms, two, 338)
<1>1. Generated(fields, terms) = three
  BY DEF Generated
<1>2. 336 \in 336..338 /\ 337 \in 336..338 /\ 338 \in 336..338
  OBVIOUS
<1>3. Grows(fields, one) /\ (terms[336] # NoTerm => 336 \in TagsOf(one))
  BY <1>2, GenerateOneGrows
<1> HIDE DEF three, one
<1>4. one \in Seq(KindFields) /\ TagsOf(fields) \subseteq TagsOf(one)
  BY <1>3, GrowsTags DEF Grows
<1>5. Grows(one, two) /\ (terms[337] # NoTerm => 337 \in TagsOf(two))
  BY <1>2, <1>4, GenerateOneGrows
<1> HIDE DEF two
<1>6. two \in Seq(KindFields) /\ TagsOf(one) \subseteq TagsOf(two)
  BY <1>5, GrowsTags DEF Grows
<1>7. Grows(two, three) /\ (terms[338] # NoTerm => 338 \in TagsOf(three))
  <2>1. TagsOf(fields) \subseteq TagsOf(two)
    BY <1>4, <1>6
  <2> QED
    BY <1>2, <1>6, <2>1, GenerateOneGrows, SMTT(30) DEF three
<1>8. TagsOf(two) \subseteq TagsOf(three)
  BY <1>7, GrowsTags
<1>9. Grows(fields, two)
  BY <1>3, <1>5, GrowsAlong
<1>10. Grows(fields, three)
  BY <1>7, <1>9, GrowsAlong
<1>11. ASSUME NEW tag \in 336..338, terms[tag] # NoTerm PROVE ~Missing(three, tag)
  <2>1. tag = 336 \/ tag = 337 \/ tag = 338
    OBVIOUS
  <2>2. tag \in TagsOf(three)
    BY <1>3, <1>5, <1>6, <1>7, <1>8, <1>11, <2>1
  <2> QED
    BY <2>2 DEF Missing
<1> QED
  BY <1>1, <1>10, <1>11

\* Records with the same leader and coded fields have the same terms.
LEMMA TermsSame ==
  ASSUME NEW r, NEW q, q.leader = r.leader,
         \A tag \in {6, 7, 8} : OfTag(q.fields, tag) = OfTag(r.fields, tag)
  PROVE  TermsOf(q) = TermsOf(r)
<1>1. \A tag \in {6, 7, 8} : Filled(q.fields, tag) = Filled(r.fields, tag)
  BY DEF Filled
<1>2. \A tag \in {6, 7, 8} : FirstFilled(q.fields, tag) = FirstFilled(r.fields, tag)
  BY <1>1 DEF FirstFilled
<1>3. /\ Filled(q.fields, 6) = Filled(r.fields, 6)
      /\ FirstFilled(q.fields, 7) = FirstFilled(r.fields, 7)
      /\ FirstFilled(q.fields, 8) = FirstFilled(r.fields, 8)
  BY <1>1, <1>2
<1> QED
  BY <1>3 DEF TermsOf

\* Edits of other fields leave the terms as they are.
LEMMA TermsLeft ==
  ASSUME NEW r \in MarcRecords, NEW new \in Seq(KindFields), NEW tags, Leaves(r.fields, new, tags),
         6 \notin tags, 7 \notin tags, 8 \notin tags
  PROVE  TermsOf([r EXCEPT !.fields = new]) = TermsOf(r)
<1> DEFINE q == [r EXCEPT !.fields = new]
<1>1. q.leader = r.leader /\ q.fields = new /\ r.fields \in Seq(KindFields)
  BY DEF MarcRecords
<1>2. ASSUME NEW tag \in {6, 7, 8} PROVE OfTag(q.fields, tag) = OfTag(r.fields, tag)
  <2>1. \A t \in tags : t \notin {tag}
    BY <1>2
  <2>2. Having(new, {tag}) = Having(r.fields, {tag})
    BY <2>1 DEF Leaves
  <2> QED
    BY <1>1, <2>2, HavingIs
<1> HIDE DEF q
<1> QED
  BY <1>1, <1>2, TermsSame DEF q

\* A record with other fields.
WithFields(r, fields) == [leader |-> r.leader, fields |-> fields]

\* See WithFields.
LEMMA WithFieldsIs ==
  ASSUME NEW r \in MarcRecords, NEW fields \in Seq(KindFields)
  PROVE  /\ [r EXCEPT !.fields = fields] = WithFields(r, fields)
         /\ WithFields(r, fields) \in MarcRecords
         /\ WithFields(r, fields).leader = r.leader /\ WithFields(r, fields).fields = fields
BY DEF WithFields, MarcRecords

\* Terms that there are fields for, or that there are not, are not added again.
LEMMA GenerateAll ==
  ASSUME NEW fields, NEW terms \in [336..338 -> Strings],
         \A tag \in 336..338 : terms[tag] # NoTerm => ~Missing(fields, tag)
  PROVE  Generated(fields, terms) = fields
<1>1. ASSUME NEW tag \in 336..338 PROVE GenerateOne(fields, terms, fields, tag) = fields
  BY DEF GenerateOne
<1>2. 336 \in 336..338 /\ 337 \in 336..338 /\ 338 \in 336..338
  OBVIOUS
<1>3. /\ GenerateOne(fields, terms, fields, 336) = fields
      /\ GenerateOne(fields, terms, fields, 337) = fields
      /\ GenerateOne(fields, terms, fields, 338) = fields
  BY <1>1, <1>2
<1> QED
  BY <1>3 DEF Generated

\* Generating 33X fields settles.
LEMMA GenerateOnce ==
  ASSUME NEW r \in MarcRecords
  PROVE  LET generated == Generate33X(r) IN
         /\ generated = WithFields(r, Generated(r.fields, TermsOf(r)))
         /\ generated \in MarcRecords /\ TermsOf(generated) = TermsOf(r)
         /\ Generate33X(generated) = generated
<1> DEFINE terms == TermsOf(r)
           new == Generated(r.fields, terms)
           q == WithFields(r, new)
<1>1. r.fields \in Seq(KindFields) /\ terms \in [336..338 -> Strings]
  BY TermsAre DEF MarcRecords
<1>2. Generate33X(r) = q
  BY Generate33XIs DEF WithFields
<1> HIDE DEF terms
<1>3. Keeps(r.fields, new) /\ Leaves(r.fields, new, MissingOf(r.fields))
  BY <1>1, GeneratedKeeps
<1>4. \A tag \in 336..338 : terms[tag] # NoTerm => ~Missing(new, tag)
  BY <1>1, GeneratedGrows
<1> HIDE DEF new
<1>5. new \in Seq(KindFields)
  BY <1>3 DEF Keeps
<1>6. q \in MarcRecords /\ q.leader = r.leader /\ q.fields = new /\ [r EXCEPT !.fields = new] = q
  BY <1>5, WithFieldsIs
<1>7. TermsOf(q) = terms
  <2>1. 6 \notin MissingOf(r.fields) /\ 7 \notin MissingOf(r.fields) /\ 8 \notin MissingOf(r.fields)
    BY DEF MissingOf
  <2>2. TermsOf([r EXCEPT !.fields = new]) = TermsOf(r)
    BY <1>3, <1>5, <2>1, TermsLeft
  <2> QED
    BY <1>6, <2>2 DEF terms
<1> HIDE DEF q
<1>8. Generate33X(q) = [leader |-> q.leader, fields |-> Generated(q.fields, TermsOf(q))]
  BY <1>6, Generate33XIs
<1>9. Generated(new, terms) = new
  BY <1>1, <1>4, GenerateAll
<1>10. Generate33X(q) = q
  BY <1>6, <1>7, <1>8, <1>9 DEF q, WithFields
<1> QED
  BY <1>2, <1>6, <1>7, <1>10 DEF q, new, terms

\* It leaves the tags that there were as they were.
LEMMA GenerateLeaves ==
  ASSUME NEW r \in MarcRecords, NEW f \in ToSet(r.fields)
  PROVE  OfTag(Generate33X(r).fields, f.tag) = OfTag(r.fields, f.tag)
<1> DEFINE new == Generated(r.fields, TermsOf(r))
<1>1. r.fields \in Seq(KindFields) /\ TermsOf(r) \in [336..338 -> Strings]
  BY TermsAre DEF MarcRecords
<1>2. Keeps(r.fields, new) /\ Leaves(r.fields, new, MissingOf(r.fields))
  BY <1>1, GeneratedKeeps
<1>3. Generate33X(r).fields = new
  BY Generate33XIs
<1> HIDE DEF new
<1>4. new \in Seq(KindFields)
  BY <1>2 DEF Keeps
<1>5. f.tag \in TagsOf(r.fields)
  BY DEF ToSet, TagsOf
<1>6. \A tag \in MissingOf(r.fields) : tag \notin {f.tag}
  BY <1>5 DEF MissingOf, Missing
<1>7. Having(new, {f.tag}) = Having(r.fields, {f.tag})
  BY <1>2, <1>6 DEF Leaves
<1> QED
  BY <1>1, <1>3, <1>4, <1>7, HavingIs

\* Fields that are expanded: as many, with the same tags.
LEMMA ExpandedFields ==
  ASSUME NEW fields \in Seq(KindFields)
  PROVE  LET new == ExpandFields(fields) IN
         /\ new \in Seq(KindFields) /\ Len(new) = Len(fields) /\ DOMAIN new = DOMAIN fields
         /\ \A i \in DOMAIN fields : new[i] = ExpandField(fields[i]) /\ new[i].tag = fields[i].tag
         /\ TagsOf(new) = TagsOf(fields)
         /\ \A tag : TagOrderPosition(new, tag) = TagOrderPosition(fields, tag)
<1> DEFINE new == ExpandFields(fields)
<1>1. new \in Seq(KindFields)
  BY ExpandKeeps DEF Keeps
<1>2. DOMAIN new = DOMAIN fields /\ \A i \in DOMAIN fields : new[i] = ExpandField(fields[i])
  BY DEF ExpandFields
<1>3. ASSUME NEW i \in DOMAIN fields PROVE new[i].tag = fields[i].tag
  <2>1. fields[i] \in KindFields
    OBVIOUS
  <2> QED
    BY <1>2, <2>1, ExpandFieldIs
<1> HIDE DEF new
<1>4. Len(new) = Len(fields)
  BY <1>1, <1>2
<1>5. TagsOf(new) = TagsOf(fields)
  BY <1>2, <1>3 DEF TagsOf
<1>6. ASSUME NEW tag PROVE TagOrderPosition(new, tag) = TagOrderPosition(fields, tag)
  <2>1. {i \in DOMAIN new : new[i].tag <= tag} = {i \in DOMAIN fields : fields[i].tag <= tag}
    BY <1>2, <1>3
  <2> QED
    BY <2>1 DEF TagOrderPosition
<1> QED
  BY <1>1, <1>2, <1>3, <1>4, <1>5, <1>6 DEF new

\* A field that no abbreviation is in may be added before or after.
LEMMA ExpandAdded ==
  ASSUME NEW out \in Seq(KindFields), NEW f \in KindFields, ExpandField(f) = f
  PROVE  ExpandFields(AddField(out, f, "order")) = AddField(ExpandFields(out), f, "order")
<1> DEFINE n == Len(out)
           pos == TagOrderPosition(out, f.tag)
           group == <<f>>
           more == ExpandFields(out)
           s == Insert(out, pos, group)
           t == Insert(more, pos, group)
           u == ExpandFields(s)
<1>1. /\ more \in Seq(KindFields) /\ Len(more) = n
      /\ \A i \in DOMAIN out : more[i] = ExpandField(out[i])
      /\ TagOrderPosition(more, f.tag) = pos
  BY ExpandedFields
<1>2. AddField(out, f, "order") = s
  BY DEF AddField
<1>3. AddField(more, f, "order") = t
  BY <1>1 DEF AddField
<1>4. n \in Nat /\ f.tag \in Nat /\ group \in Seq(KindFields) /\ Len(group) = 1 /\ group[1] = f
  BY DEF KindFields, Fields
<1>5. pos \in 0..n
  BY <1>4, PositionIs
<1> HIDE DEF more, pos, group
<1>6. /\ s \in Seq(KindFields) /\ Len(s) = n + Len(group)
      /\ \A i \in 1..pos : s[i] = out[i]
      /\ \A i \in 1..Len(group) : s[pos + i] = group[i]
      /\ \A i \in 1..(n - pos) : s[pos + Len(group) + i] = out[pos + i]
  <2>1. out \in Seq(KindFields) /\ group \in Seq(KindFields) /\ pos \in 0..Len(out)
    BY <1>4, <1>5
  <2> QED
    BY ONLY <2>1, Inserted, ZenonT(40) DEF n
<1>7. /\ t \in Seq(KindFields) /\ Len(t) = Len(more) + Len(group)
      /\ \A i \in 1..pos : t[i] = more[i]
      /\ \A i \in 1..Len(group) : t[pos + i] = group[i]
      /\ \A i \in 1..(Len(more) - pos) : t[pos + Len(group) + i] = more[pos + i]
  <2>1. more \in Seq(KindFields) /\ group \in Seq(KindFields) /\ pos \in 0..Len(more)
    BY <1>1, <1>4, <1>5
  <2> QED
    BY ONLY <2>1, Inserted, ZenonT(40)
<1> HIDE DEF s, t
<1>8. /\ u \in Seq(KindFields) /\ Len(u) = Len(s)
      /\ \A i \in DOMAIN s : u[i] = ExpandField(s[i])
  BY <1>6, ExpandedFields
<1> HIDE DEF u
<1>9. Len(s) = n + 1 /\ Len(t) = n + 1 /\ DOMAIN out = 1..n /\ DOMAIN s = 1..(n + 1)
  BY <1>1, <1>4, <1>6, <1>7 DEF n
<1> HIDE DEF n
<1>10. ASSUME NEW i \in 1..(n + 1) PROVE u[i] = t[i]
  <2>1. CASE i \in 1..pos
    <3>1. i \in 1..n
      BY <1>4, <1>5, <2>1
    <3>2. u[i] = ExpandField(s[i]) /\ more[i] = ExpandField(out[i])
      BY <1>1, <1>8, <1>9, <3>1
    <3>3. s[i] = out[i] /\ t[i] = more[i]
      BY <1>6, <1>7, <2>1
    <3> QED
      BY <3>2, <3>3
  <2>2. CASE i = pos + 1
    <3>1. s[pos + 1] = f /\ t[pos + 1] = f
      BY <1>4, <1>6, <1>7
    <3>2. u[i] = ExpandField(s[i])
      BY <1>8, <1>9
    <3> QED
      BY <2>2, <3>1, <3>2
  <2>3. CASE i > pos + 1
    <3> DEFINE k == i - pos - 1
    <3>1. k \in 1..(n - pos) /\ pos + 1 + k = i /\ pos + k \in 1..n
      BY <1>4, <1>5, <2>3
    <3> HIDE DEF k
    <3>2. s[i] = out[pos + k] /\ t[i] = more[pos + k]
      BY <1>1, <1>4, <1>6, <1>7, <3>1, ZenonT(40)
    <3>3. u[i] = ExpandField(s[i]) /\ more[pos + k] = ExpandField(out[pos + k])
      BY <1>1, <1>8, <1>9, <3>1
    <3> QED
      BY <3>2, <3>3
  <2> QED
    BY <1>4, <1>5, <2>1, <2>2, <2>3
<1>11. u = t
  BY <1>7, <1>8, <1>9, <1>10, SeqEqual
<1> QED
  BY <1>2, <1>3, <1>11 DEF u, more

\* Generating 33X fields and expanding abbreviations commute.
LEMMA ExpandGenerated ==
  ASSUME NEW fields \in Seq(KindFields), NEW terms \in [336..338 -> Strings]
  PROVE  ExpandFields(Generated(fields, terms)) = Generated(ExpandFields(fields), terms)
<1> DEFINE more == ExpandFields(fields)
<1>1. more \in Seq(KindFields) /\ TagsOf(more) = TagsOf(fields)
  BY ExpandedFields
<1> HIDE DEF more
<1>2. ASSUME NEW out \in Seq(KindFields), NEW tag \in 336..338
      PROVE  /\ GenerateOne(fields, terms, out, tag) \in Seq(KindFields)
             /\ ExpandFields(GenerateOne(fields, terms, out, tag))
                  = GenerateOne(more, terms, ExpandFields(out), tag)
  <2> DEFINE f == TermField(terms[tag], tag)
  <2>1. GenerateOne(fields, terms, out, tag) \in Seq(KindFields)
    BY GenerateOneKeeps, ZenonT(40) DEF Keeps
  <2>2. Missing(more, tag) <=> Missing(fields, tag)
    BY <1>1 DEF Missing
  <2>3. CASE Missing(fields, tag) /\ terms[tag] # NoTerm
    <3>1. f \in KindFields /\ f.tag = tag
      BY TermFieldIs
    <3>2. /\ GenerateOne(fields, terms, out, tag) = AddField(out, f, "order")
          /\ GenerateOne(more, terms, ExpandFields(out), tag) = AddField(ExpandFields(out), f, "order")
      BY <2>2, <2>3 DEF GenerateOne
    <3> HIDE DEF f
    <3>3. ExpandField(f) = f
      BY <3>1 DEF ExpandField
    <3> QED
      BY <2>1, <3>1, <3>2, <3>3, ExpandAdded
  <2>4. CASE ~(Missing(fields, tag) /\ terms[tag] # NoTerm)
    <3>1. /\ GenerateOne(fields, terms, out, tag) = out
          /\ GenerateOne(more, terms, ExpandFields(out), tag) = ExpandFields(out)
      BY <2>2, <2>4 DEF GenerateOne
    <3> QED
      BY <3>1
  <2> QED
    BY <2>3, <2>4
<1> DEFINE one == GenerateOne(fields, terms, fields, 336)
           two == GenerateOne(fields, terms, one, 337)
           three == GenerateOne(fields, terms, two, 338)
<1>3. 336 \in 336..338 /\ 337 \in 336..338 /\ 338 \in 336..338
  OBVIOUS
<1>4. Generated(fields, terms) = three
  BY DEF Generated
<1> HIDE DEF three
<1>5. one \in Seq(KindFields) /\ ExpandFields(one) = GenerateOne(more, terms, more, 336)
  BY <1>2, <1>3 DEF more
<1> HIDE DEF one
<1>6. two \in Seq(KindFields)
      /\ ExpandFields(two) = GenerateOne(more, terms, ExpandFields(one), 337)
  BY <1>2, <1>3, <1>5
<1> HIDE DEF two
<1>7. ExpandFields(three) = GenerateOne(more, terms, ExpandFields(two), 338)
  BY <1>2, <1>3, <1>6 DEF three
<1>8. Generated(more, terms)
        = GenerateOne(more, terms, GenerateOne(more, terms, GenerateOne(more, terms, more, 336), 337), 338)
  BY DEF Generated
<1>9. ExpandFields(three) = Generated(more, terms)
  BY <1>5, <1>6, <1>7, <1>8
<1> QED
  BY <1>4, <1>9 DEF more

\* And so it is for records.
Expand(r) == [r EXCEPT !.fields = RdaExpandAbbreviations(@)]

\* See Expand.
LEMMA ExpandSettles ==
  ASSUME NEW r \in MarcRecords
  PROVE  /\ Expand(Expand(r)) = Expand(r)
         /\ Generate33X(Expand(r)) = Expand(Generate33X(r))
<1> DEFINE terms == TermsOf(r)
           more == ExpandFields(r.fields)
           new == Generated(r.fields, terms)
           q == WithFields(r, more)
           g == WithFields(r, new)
<1>1. r.fields \in Seq(KindFields) /\ terms \in [336..338 -> Strings]
  BY TermsAre DEF MarcRecords
<1>2. /\ RdaExpandAbbreviations(r.fields) = more /\ more \in Seq(KindFields)
      /\ Leaves(r.fields, more, {250, 300}) /\ RdaExpandAbbreviations(more) = more
  BY <1>1, ExpandKeeps DEF Keeps
<1>3. new \in Seq(KindFields)
  BY <1>1, GeneratedKeeps DEF Keeps
<1>4. ExpandFields(new) = Generated(more, terms)
  BY <1>1, ExpandGenerated
<1>5. Generate33X(r) = g
  BY GenerateOnce
<1> HIDE DEF terms, more, new
<1>6. q \in MarcRecords /\ q.leader = r.leader /\ q.fields = more /\ [r EXCEPT !.fields = more] = q
  BY <1>2, WithFieldsIs
<1>7. g \in MarcRecords /\ g.leader = r.leader /\ g.fields = new
  BY <1>3, WithFieldsIs
<1>8. Expand(r) = q
  BY <1>2, <1>6 DEF Expand
<1>9. TermsOf(q) = terms
  <2>1. 6 \notin {250, 300} /\ 7 \notin {250, 300} /\ 8 \notin {250, 300}
    OBVIOUS
  <2>2. TermsOf([r EXCEPT !.fields = more]) = TermsOf(r)
    BY <1>2, <2>1, TermsLeft, ZenonT(40)
  <2> QED
    BY <1>6, <2>2 DEF terms
<1>10. Expand(q) = q
  <2>1. [q EXCEPT !.fields = more] = q
    BY <1>6 DEF MarcRecords
  <2> QED
    BY <1>2, <1>6, <2>1 DEF Expand
<1>11. Generate33X(q) = WithFields(q, Generated(more, terms))
  BY <1>6, <1>9, GenerateOnce
<1>12. Expand(g) = WithFields(g, ExpandFields(new))
  <2>1. RdaExpandAbbreviations(new) = ExpandFields(new) /\ ExpandFields(new) \in Seq(KindFields)
    BY <1>3, ExpandKeeps DEF Keeps
  <2>2. [g EXCEPT !.fields = ExpandFields(new)] = WithFields(g, ExpandFields(new))
    BY <1>7, <2>1, WithFieldsIs
  <2> QED
    BY <1>7, <2>1, <2>2 DEF Expand
<1>13. WithFields(q, Generated(more, terms)) = WithFields(g, ExpandFields(new))
  BY <1>4, <1>6, <1>7 DEF WithFields
<1> QED
  BY <1>5, <1>8, <1>10, <1>11, <1>12, <1>13

\* What is in a list is in one that it grows to.
LEMMA GrowsData ==
  ASSUME NEW a \in Seq(KindFields), NEW b \in Seq(KindFields), NEW inj, GrowsBy(inj, a, b), NEW tags
  PROVE  /\ DataFields(a, tags) \subseteq 1..Len(a)
         /\ \A i \in DataFields(a, tags) : inj[i] \in DataFields(b, tags) /\ b[inj[i]] = a[i]
BY DEF GrowsBy, DataFields

\* See Completeness: a tag, a subfield of the title, a language, the subjects.
HasOf(fields, tags) == \E i \in DataFields(fields, tags) : TRUE
TitleHas(fields, code) ==
  \E i \in DataFields(fields, {245}) : \E sf \in ToSet(fields[i].subs) : sf.code = code /\ sf.value # ""
HasLanguage(fields) == \E i \in DOMAIN fields : NamesLanguage(fields[i])
SubjectsOf(fields) == Cardinality(DataFields(fields, 600..699))

\* None of them is lost as a list grows.
LEMMA GrowsParts ==
  ASSUME NEW a, NEW b, Grows(a, b)
  PROVE  /\ \A tags : HasOf(a, tags) => HasOf(b, tags)
         /\ \A code : TitleHas(a, code) => TitleHas(b, code)
         /\ HasLanguage(a) => HasLanguage(b)
         /\ SubjectsOf(a) \in Nat /\ SubjectsOf(b) \in Nat /\ SubjectsOf(a) <= SubjectsOf(b)
<1>1. a \in Seq(KindFields) /\ b \in Seq(KindFields)
  BY DEF Grows
<1>2. PICK inj : GrowsBy(inj, a, b)
  BY DEF Grows
<1>3. \A tags : \A i \in DataFields(a, tags) : inj[i] \in DataFields(b, tags) /\ b[inj[i]] = a[i]
  BY <1>1, <1>2, GrowsData
<1>4. \A tags : HasOf(a, tags) => HasOf(b, tags)
  BY <1>3 DEF HasOf
<1>5. \A code : TitleHas(a, code) => TitleHas(b, code)
  BY <1>3 DEF TitleHas
<1>6. \A i \in DOMAIN a : inj[i] \in DOMAIN b /\ b[inj[i]] = a[i]
  BY <1>1, <1>2 DEF GrowsBy
<1>7. HasLanguage(a) => HasLanguage(b)
  BY <1>6 DEF HasLanguage
<1> DEFINE S == DataFields(a, 600..699)
           T == DataFields(b, 600..699)
           h == [i \in S |-> inj[i]]
<1>8. S \subseteq 1..Len(a) /\ T \subseteq 1..Len(b) /\ Len(a) \in Nat /\ Len(b) \in Nat
  BY <1>1 DEF DataFields
<1>9. \A i \in S : inj[i] \in T
  BY <1>3
<1>10. \A i, j \in 1..Len(a) : inj[i] = inj[j] => i = j
  BY <1>2 DEF GrowsBy
<1> HIDE DEF S, T
<1>11. IsFiniteSet(S) /\ IsFiniteSet(T)
  <2>1. \A n \in Nat : IsFiniteSet(1..n)
    BY FS_Interval
  <2> QED
    BY <1>8, <2>1, FS_Subset
<1>12. h \in Injection(S, T)
  <2>1. h \in [S -> T]
    BY <1>9
  <2>2. \A i, j \in S : h[i] = h[j] => i = j
    BY <1>8, <1>10
  <2> QED
    BY <2>1, <2>2 DEF Injection, IsInjective
<1>13. Cardinality(S) <= Cardinality(T)
  BY <1>11, <1>12, FS_Injection
<1>14. Cardinality(S) \in Nat /\ Cardinality(T) \in Nat
  BY <1>11, FS_CardinalityType
<1> QED
  BY <1>4, <1>5, <1>7, <1>13, <1>14 DEF SubjectsOf, S, T

\* Completeness is a sum of points.
Points(n, condition) == IF condition THEN n ELSE 0
SubjectPoints(n) == IF n > 5 THEN 15 ELSE 3 * n

\* See Points.
LEMMA PointsAre ==
  /\ \A n \in Nat : Points(n, TRUE) \in Nat /\ Points(n, FALSE) \in Nat
                      /\ Points(n, FALSE) <= Points(n, TRUE)
  /\ \A m, n \in Nat : m <= n => SubjectPoints(m) \in Nat /\ SubjectPoints(n) \in Nat
                                   /\ SubjectPoints(m) <= SubjectPoints(n)
BY DEF Points, SubjectPoints

\* See Points.
LEMMA PointsGrow ==
  ASSUME NEW n \in Nat, NEW p \in BOOLEAN, NEW q \in BOOLEAN, p => q
  PROVE  Points(n, p) \in Nat /\ Points(n, q) \in Nat /\ Points(n, p) <= Points(n, q)
BY DEF Points

\* See Points.
LEMMA CompletenessIs ==
  ASSUME NEW fields
  PROVE  Completeness(fields)
           = Points(15, TitleHas(fields, "a")) + Points(5, TitleHas(fields, "b"))
               + Points(10, HasOf(fields, 100..199)) + Points(5, HasOf(fields, 700..799))
               + SubjectPoints(SubjectsOf(fields)) + Points(10, HasOf(fields, {300}))
               + Points(10, HasOf(fields, {260, 264})) + Points(10, HasLanguage(fields))
               + Points(10, HasOf(fields, {20, 10})) + Points(5, HasOf(fields, 500..599))
               + Points(5, \A tag \in 336..338 : HasOf(fields, {tag}))
BY DEF Completeness, Points, TitleHas, HasOf, HasLanguage, SubjectPoints, SubjectsOf

\* A list that grows is no less complete.
LEMMA GrowsComplete ==
  ASSUME NEW a, NEW b, Grows(a, b)
  PROVE  Completeness(a) \in Nat /\ Completeness(b) \in Nat /\ Completeness(a) <= Completeness(b)
<1>1. /\ \A tags : HasOf(a, tags) => HasOf(b, tags)
      /\ \A code : TitleHas(a, code) => TitleHas(b, code)
      /\ HasLanguage(a) => HasLanguage(b)
      /\ SubjectsOf(a) \in Nat /\ SubjectsOf(b) \in Nat /\ SubjectsOf(a) <= SubjectsOf(b)
  BY GrowsParts
<1> DEFINE Both(m, n) == m \in Nat /\ n \in Nat /\ m <= n
           Tag(n, tags) == Both(Points(n, HasOf(a, tags)), Points(n, HasOf(b, tags)))
<1>2. ASSUME NEW tags, NEW n \in Nat PROVE Tag(n, tags)
  <2>1. HasOf(a, tags) \in BOOLEAN /\ HasOf(b, tags) \in BOOLEAN
    BY DEF HasOf
  <2> QED
    BY <1>1, <2>1, PointsGrow
<1>3. ASSUME NEW code, NEW n \in Nat PROVE Both(Points(n, TitleHas(a, code)), Points(n, TitleHas(b, code)))
  <2>1. TitleHas(a, code) \in BOOLEAN /\ TitleHas(b, code) \in BOOLEAN
    BY DEF TitleHas
  <2> QED
    BY <1>1, <2>1, PointsGrow
<1>4. Both(Points(10, HasLanguage(a)), Points(10, HasLanguage(b)))
  <2>1. HasLanguage(a) \in BOOLEAN /\ HasLanguage(b) \in BOOLEAN
    BY DEF HasLanguage
  <2> QED
    BY <1>1, <2>1, PointsGrow
<1>5. Both(SubjectPoints(SubjectsOf(a)), SubjectPoints(SubjectsOf(b)))
  BY <1>1, PointsAre
<1>6. Both(Points(5, \A tag \in 336..338 : HasOf(a, {tag})), Points(5, \A tag \in 336..338 : HasOf(b, {tag})))
  <2>1. (\A tag \in 336..338 : HasOf(a, {tag})) => \A tag \in 336..338 : HasOf(b, {tag})
    BY <1>1
  <2>2. /\ (\A tag \in 336..338 : HasOf(a, {tag})) \in BOOLEAN
        /\ (\A tag \in 336..338 : HasOf(b, {tag})) \in BOOLEAN
    OBVIOUS
  <2> QED
    BY <2>1, <2>2, PointsGrow, ZenonT(40)
<1>7. /\ Both(Points(15, TitleHas(a, "a")), Points(15, TitleHas(b, "a")))
      /\ Both(Points(5, TitleHas(a, "b")), Points(5, TitleHas(b, "b")))
  BY <1>3
<1>8. Tag(10, 100..199) /\ Tag(5, 700..799) /\ Tag(10, {300}) /\ Tag(10, {260, 264}) /\ Tag(10, {20, 10})
        /\ Tag(5, 500..599)
  BY <1>2
<1> DEFINE Title(x) == Points(15, TitleHas(x, "a"))
           Rest(x) == Points(5, TitleHas(x, "b"))
           Main(x) == Points(10, HasOf(x, 100..199))
           Added(x) == Points(5, HasOf(x, 700..799))
           Subjects(x) == SubjectPoints(SubjectsOf(x))
           Extent(x) == Points(10, HasOf(x, {300}))
           Imprint(x) == Points(10, HasOf(x, {260, 264}))
           Language(x) == Points(10, HasLanguage(x))
           Id(x) == Points(10, HasOf(x, {20, 10}))
           Notes(x) == Points(5, HasOf(x, 500..599))
           Types(x) == Points(5, \A tag \in 336..338 : HasOf(x, {tag}))
<1>9. /\ Both(Title(a), Title(b)) /\ Both(Rest(a), Rest(b)) /\ Both(Main(a), Main(b))
      /\ Both(Added(a), Added(b)) /\ Both(Subjects(a), Subjects(b)) /\ Both(Extent(a), Extent(b))
      /\ Both(Imprint(a), Imprint(b)) /\ Both(Language(a), Language(b)) /\ Both(Id(a), Id(b))
      /\ Both(Notes(a), Notes(b)) /\ Both(Types(a), Types(b))
  <2> HIDE DEF Both
  <2> QED
    BY <1>4, <1>5, <1>6, <1>7, <1>8, ZenonT(40)
<1>10. ASSUME NEW x
       PROVE  Completeness(x) = Title(x) + Rest(x) + Main(x) + Added(x) + Subjects(x) + Extent(x)
                                  + Imprint(x) + Language(x) + Id(x) + Notes(x) + Types(x)
  BY CompletenessIs
<1> HIDE DEF Title, Rest, Main, Added, Subjects, Extent, Imprint, Language, Id, Notes, Types
<1>11. Both(Completeness(a), Completeness(b))
  BY <1>9, <1>10
<1> QED
  BY <1>11

\* Generating 33X fields does not make a record rank lower.
LEMMA GenerateRanks ==
  ASSUME NEW r \in MarcRecords
  PROVE  RankRecord(Generate33X(r)) >= RankRecord(r)
<1> DEFINE new == Generated(r.fields, TermsOf(r))
           c == Completeness(r.fields)
           d == Completeness(new)
           e == EncodingLevelRank(At(r.leader, 17))
<1>1. r.fields \in Seq(KindFields) /\ TermsOf(r) \in [336..338 -> Strings]
  BY TermsAre DEF MarcRecords
<1>2. Grows(r.fields, new)
  BY <1>1, GeneratedGrows
<1>3. Generate33X(r).fields = new /\ Generate33X(r).leader = r.leader
  BY Generate33XIs
<1> HIDE DEF new
<1>4. c \in Nat /\ d \in Nat /\ c <= d
  BY <1>2, GrowsComplete
<1>5. e \in Nat
  BY DEF EncodingLevelRank
<1>6. RankRecord(r) = (6 * e + 4 * c) \div 10 /\ RankRecord(Generate33X(r)) = (6 * e + 4 * d) \div 10
  BY <1>3 DEF RankRecord
<1> HIDE DEF c, d, e
<1>7. (6 * e + 4 * c) \div 10 <= (6 * e + 4 * d) \div 10
  BY <1>4, <1>5
<1> QED
  BY <1>4, <1>5, <1>6, <1>7

\* So the description of a record settles.
LEMMA DescriptionIsSettled ==
  ASSUME rec \in MarcRecords
  PROVE  DescriptionSettles
<1> DEFINE generated == Generate33X(rec)
<1>1. Generate33X(generated) = generated
  BY GenerateOnce
<1>2. Expand(Expand(rec)) = Expand(rec) /\ Generate33X(Expand(rec)) = Expand(generated)
  BY ExpandSettles
<1>3. \A f \in ToSet(rec.fields) : OfTag(generated.fields, f.tag) = OfTag(rec.fields, f.tag)
  BY GenerateLeaves
<1>4. RankRecord(generated) >= RankRecord(rec)
  BY GenerateRanks
<1> HIDE DEF generated
<1> QED
  BY <1>1, <1>2, <1>3, <1>4 DEF DescriptionSettles, Expand, generated

\* The first elements and the others.
LEMMA PickSides ==
  ASSUME NEW S, NEW s \in Seq(S), NEW m \in 0..Len(s), NEW P
  PROVE  /\ (\A i \in 1..Len(s) : i \in P <=> i <= m) => ElementsAt(s, P) = SubSeq(s, 1, m)
         /\ (\A i \in 1..Len(s) : i \in P <=> i > m) => ElementsAt(s, P) = SubSeq(s, m + 1, Len(s))
<1> DEFINE n == Len(s)
           p == SubSeq(s, 1, m)
           q == SubSeq(s, m + 1, n)
           Q == {k \in 1..Len(q) : Len(p) + k \in P}
<1>0. n \in Nat /\ m \in 0..n
  OBVIOUS
<1>1. p \in Seq(S) /\ Len(p) = m /\ q \in Seq(S) /\ Len(q) = n - m /\ p \o q = s
  BY Parted
<1> HIDE DEF p, q
<1> USE <1>0
<1>2. PickedApart(p, q, P)
  BY <1>1, PickJoined
<1>3. ElementsAt(s, P) = ElementsAt(p, P) \o ElementsAt(q, Q)
  BY <1>1, <1>2 DEF PickedApart
<1>4. p \o <<>> = p /\ <<>> \o q = q
  BY <1>1
<1> HIDE DEF n
<1>5. ASSUME \A i \in 1..n : i \in P <=> i <= m PROVE ElementsAt(s, P) = p
  <2>1. 1..Len(p) \subseteq P /\ \A k \in 1..Len(q) : k \notin Q
    BY <1>1, <1>5
  <2>2. ElementsAt(p, P) = p /\ ElementsAt(q, Q) = <<>>
    BY <1>1, <2>1, PickAll, PickNone
  <2> QED
    BY <1>3, <1>4, <2>2
<1>6. ASSUME \A i \in 1..n : i \in P <=> i > m PROVE ElementsAt(s, P) = q
  <2>1. 1..Len(q) \subseteq Q /\ \A k \in 1..Len(p) : k \notin P
    BY <1>1, <1>6
  <2>2. ElementsAt(q, Q) = q /\ ElementsAt(p, P) = <<>>
    BY <1>1, <2>1, PickAll, PickNone
  <2> QED
    BY <1>3, <1>4, <2>2
<1> QED
  BY <1>5, <1>6 DEF n, p, q

\* One element.
LEMMA PickOne ==
  ASSUME NEW S, NEW s \in Seq(S), NEW i \in 1..Len(s), NEW P,
         \A k \in 1..Len(s) : k \in P <=> k = i
  PROVE  ElementsAt(s, P) = <<s[i]>>
<1> DEFINE e == ElementsAt(s, P)
<1>1. e \in Seq(S)
  BY Picked
<1>2. PICK pos : Places(pos, e, Len(s), s, P)
  BY Picked
<1> HIDE DEF e
<1>3. Len(e) \in Nat /\ Len(s) \in Nat
  BY <1>1
<1>4. /\ \A k \in 1..Len(e) : pos[k] \in 1..Len(s) /\ pos[k] \in P /\ e[k] = s[pos[k]]
      /\ \A k, l \in 1..Len(e) : k < l => pos[k] < pos[l]
      /\ \E k \in 1..Len(e) : pos[k] = i
  BY <1>2 DEF Places
<1>5. \A k \in 1..Len(e) : pos[k] = i
  BY <1>4
<1>6. Len(e) = 1
  <2>1. Len(e) >= 1
    BY <1>3, <1>4
  <2>2. ~(Len(e) >= 2)
    <3> SUFFICES ASSUME Len(e) >= 2 PROVE FALSE
      OBVIOUS
    <3>1. 1 \in 1..Len(e) /\ 2 \in 1..Len(e) /\ 1 < 2
      BY <1>3
    <3>2. pos[1] < pos[2] /\ pos[1] = i /\ pos[2] = i
      BY <1>4, <1>5, <3>1
    <3> QED
      BY <3>2
  <2>3. PICK n \in Nat : n = Len(e)
    BY <1>3
  <2>4. n >= 1 /\ ~(n >= 2)
    BY <2>1, <2>2, <2>3
  <2>5. n = 1
    BY ONLY <2>4, n \in Nat
  <2> QED
    BY <2>3, <2>5
<1>7. 1 \in 1..Len(e) /\ e[1] = s[i]
  BY <1>4, <1>5, <1>6
<1>8. e = <<s[i]>>
  BY <1>1, <1>6, <1>7
<1> QED
  BY <1>8 DEF e

\* What MARCspec's ranges select: [0-n], [n+1-#], [#-n], [0-#] and [n].
InRanges(items, n) ==
  /\ Selected(items, <<0, n>>) \o Selected(items, <<n + 1, LastOne>>) = items
  /\ Selected(items, <<LastOne, n>>) = SubSeq(items, Max({1, Len(items) - n}), Len(items))
  /\ Selected(items, <<0, LastOne>>) = items

\* The greater one of two.
LEMMA MaxOfTwo ==
  ASSUME NEW m \in Int, NEW n \in Int
  PROVE  Max({m, n}) = IF m >= n THEN m ELSE n
<1> DEFINE k == IF m >= n THEN m ELSE n
<1>1. k \in {m, n} /\ \A y \in {m, n} : k >= y
  OBVIOUS
<1>2. \A x \in {m, n} : (\A y \in {m, n} : x >= y) => x = k
  OBVIOUS
<1> HIDE DEF k
<1> QED
  BY <1>1, <1>2 DEF Max, k

\* See InRanges.
LEMMA RangesAre ==
  ASSUME NEW S, NEW items \in Seq(S), NEW n \in Nat
  PROVE  InRanges(items, n)
<1> DEFINE len == Len(items)
           m == IF n + 1 <= len THEN n + 1 ELSE len
           rest == IF n + 1 <= len THEN len - (n + 1) ELSE 0
           P == Resolve(<<0, n>>, len)
           Q == Resolve(<<n + 1, LastOne>>, len)
           R == Resolve(<<LastOne, n>>, len)
           A == Resolve(<<0, LastOne>>, len)
<1>1. len \in Nat /\ m \in 0..len /\ rest \in 0..len
  OBVIOUS
<1>2. \A i \in 1..len : i \in P <=> i <= m
  BY DEF Resolve, LastOne
<1>3. \A i \in 1..len : i \in Q <=> i > m
  BY DEF Resolve, LastOne
<1>4. \A i \in 1..len : i \in R <=> i > rest
  BY DEF Resolve, LastOne
<1>5. 1..len \subseteq A
  BY DEF Resolve, LastOne
<1>6. /\ Selected(items, <<0, n>>) = ElementsAt(items, P)
      /\ Selected(items, <<n + 1, LastOne>>) = ElementsAt(items, Q)
      /\ Selected(items, <<LastOne, n>>) = ElementsAt(items, R)
      /\ Selected(items, <<0, LastOne>>) = ElementsAt(items, A)
  BY DEF Selected
<1> HIDE DEF P, Q, R, A
<1>7. ElementsAt(items, P) = SubSeq(items, 1, m) /\ ElementsAt(items, Q) = SubSeq(items, m + 1, len)
  BY <1>1, <1>2, <1>3, PickSides
<1>8. ElementsAt(items, R) = SubSeq(items, rest + 1, len)
  BY <1>1, <1>4, PickSides
<1>9. ElementsAt(items, A) = items
  BY <1>5, PickAll
<1>10. SubSeq(items, 1, m) \o SubSeq(items, m + 1, len) = items
  BY <1>1, Parted
<1>11. Max({1, len - n}) = rest + 1
  <2>1. Max({1, len - n}) = IF 1 >= len - n THEN 1 ELSE len - n
    BY <1>1, MaxOfTwo
  <2>2. ASSUME len = 0 PROVE rest = 0
    BY <2>2
  <2> QED
    BY <1>1, <2>1
<1> QED
  BY <1>6, <1>7, <1>8, <1>9, <1>10, <1>11 DEF InRanges

\* What a function makes of every element, and each of these on its own.
Maps(g, S, T) == g \in [S -> T]
Mapped(s, g) == [k \in DOMAIN s |-> g[s[k]]]
Singles(s, g) == [k \in DOMAIN s |-> <<g[s[k]]>>]

\* See Mapped.
LEMMA MappedIs ==
  ASSUME NEW S, NEW T, NEW g, Maps(g, S, T), NEW s \in Seq(S)
  PROVE  /\ Mapped(s, g) \in Seq(T) /\ Len(Mapped(s, g)) = Len(s)
         /\ Singles(s, g) \in Seq(Seq(T)) /\ Len(Singles(s, g)) = Len(s)
<1>1. Len(s) \in Nat /\ DOMAIN s = 1..Len(s) /\ \A k \in 1..Len(s) : g[s[k]] \in T
  BY DEF Maps
<1>2. \A k \in 1..Len(s) : <<g[s[k]]>> \in Seq(T)
  BY <1>1
<1>3. Mapped(s, g) \in [1..Len(s) -> T] /\ Singles(s, g) \in [1..Len(s) -> Seq(T)]
  BY <1>1, <1>2 DEF Mapped, Singles
<1>4. \A U : \A u \in [1..Len(s) -> U] : u \in Seq(U) /\ Len(u) = Len(s)
  BY <1>1
<1> QED
  BY <1>3, <1>4

\* See Mapped.
LEMMA MappedAppend ==
  ASSUME NEW S, NEW T, NEW g, Maps(g, S, T), NEW s \in Seq(S), NEW x \in S
  PROVE  /\ Mapped(Append(s, x), g) = Append(Mapped(s, g), g[x])
         /\ Singles(Append(s, x), g) = Append(Singles(s, g), <<g[x]>>)
<1> DEFINE t == Append(s, x)
           n == Len(s)
<1>1. /\ t \in Seq(S) /\ n \in Nat /\ Len(t) = n + 1 /\ DOMAIN t = 1..(n + 1) /\ DOMAIN s = 1..n
      /\ (\A k \in 1..n : t[k] = s[k]) /\ t[n + 1] = x
  OBVIOUS
<1>2. /\ Mapped(s, g) \in Seq(T) /\ Len(Mapped(s, g)) = n
      /\ Mapped(t, g) \in Seq(T) /\ Len(Mapped(t, g)) = n + 1
      /\ Singles(s, g) \in Seq(Seq(T)) /\ Len(Singles(s, g)) = n
      /\ Singles(t, g) \in Seq(Seq(T)) /\ Len(Singles(t, g)) = n + 1
  <2>1. ASSUME NEW r \in Seq(S)
        PROVE  /\ Mapped(r, g) \in Seq(T) /\ Len(Mapped(r, g)) = Len(r)
               /\ Singles(r, g) \in Seq(Seq(T)) /\ Len(Singles(r, g)) = Len(r)
    BY MappedIs
  <2> HIDE DEF t
  <2> QED
    BY <1>1, <2>1
<1>3. /\ \A k \in 1..n : Mapped(t, g)[k] = Mapped(s, g)[k] /\ Singles(t, g)[k] = Singles(s, g)[k]
      /\ Mapped(t, g)[n + 1] = g[x] /\ Singles(t, g)[n + 1] = <<g[x]>>
  BY <1>1 DEF Mapped, Singles
<1>4. g[x] \in T /\ <<g[x]>> \in Seq(T)
  BY DEF Maps
<1> DEFINE m == Append(Mapped(s, g), g[x])
           l == Append(Singles(s, g), <<g[x]>>)
<1>5. /\ m \in Seq(T) /\ Len(m) = n + 1 /\ m[n + 1] = g[x] /\ \A k \in 1..n : m[k] = Mapped(s, g)[k]
      /\ l \in Seq(Seq(T)) /\ Len(l) = n + 1 /\ l[n + 1] = <<g[x]>> /\ \A k \in 1..n : l[k] = Singles(s, g)[k]
  BY <1>2, <1>4
<1> HIDE DEF t, m, l, n
<1>6. \A k \in 1..(n + 1) : k \in 1..n \/ k = n + 1
  BY <1>1
<1>7. \A k \in 1..(n + 1) : m[k] = Mapped(t, g)[k] /\ l[k] = Singles(t, g)[k]
  BY <1>3, <1>5, <1>6
<1>8. m = Mapped(t, g)
  BY <1>2, <1>5, <1>7, SeqEqual
<1>9. l = Singles(t, g)
  BY <1>2, <1>5, <1>7, SeqEqual
<1> QED
  BY <1>8, <1>9 DEF t, m, l

\* What is picked of them is made of what is picked, and on their own they
\* are, one behind the other, what they were.
LEMMA MappedPicked ==
  ASSUME NEW S, NEW T, NEW g, Maps(g, S, T), NEW s \in Seq(S), NEW P
  PROVE  /\ ElementsAt(Mapped(s, g), P) = Mapped(ElementsAt(s, P), g)
         /\ FlattenSeq(Singles(s, g)) = Mapped(s, g)
<1> DEFINE Good(r) == /\ ElementsAt(Mapped(r, g), P) = Mapped(ElementsAt(r, P), g)
                      /\ FlattenSeq(Singles(r, g)) = Mapped(r, g)
           SS == {r \in Seq(S) : Good(r)}
<1>1. <<>> \in SS
  <2>1. Mapped(<<>>, g) = <<>> /\ Singles(<<>>, g) = <<>>
    BY DEF Mapped, Singles
  <2>2. ElementsAt(<<>>, P) = <<>>
    BY PickEmpty
  <2>3. FlattenSeq(<<>>) = <<>>
    BY DEF FlattenSeq
  <2> QED
    BY <2>1, <2>2, <2>3
<1>2. ASSUME NEW r \in SS, NEW x \in S PROVE Append(r, x) \in SS
  <2> DEFINE m == Mapped(r, g)
             l == Singles(r, g)
             e == ElementsAt(r, P)
  <2>1. r \in Seq(S) /\ Append(r, x) \in Seq(S) /\ g[x] \in T /\ <<g[x]>> \in Seq(T)
    BY DEF Maps
  <2>2. m \in Seq(T) /\ Len(m) = Len(r) /\ l \in Seq(Seq(T)) /\ e \in Seq(S)
    BY <2>1, MappedIs, Picked
  <2>3. ElementsAt(m, P) = Mapped(e, g) /\ FlattenSeq(l) = m
    OBVIOUS
  <2>4. Mapped(Append(r, x), g) = Append(m, g[x]) /\ Singles(Append(r, x), g) = Append(l, <<g[x]>>)
    BY <2>1, MappedAppend
  <2>5. Mapped(Append(e, x), g) = Append(Mapped(e, g), g[x])
    <3>1. e \in Seq(S)
      BY <2>2
    <3> HIDE DEF e
    <3> QED
      BY <3>1, MappedAppend
  <2>6. ElementsAt(Append(r, x), P) = IF Len(r) + 1 \in P THEN Append(e, x) ELSE e
    BY <2>1, PickAppend
  <2> HIDE DEF m, l, e
  <2>7. ElementsAt(Append(m, g[x]), P)
          = IF Len(m) + 1 \in P THEN Append(ElementsAt(m, P), g[x]) ELSE ElementsAt(m, P)
    <3>1. \A y \in T : ElementsAt(Append(m, y), P)
            = IF Len(m) + 1 \in P THEN Append(ElementsAt(m, P), y) ELSE ElementsAt(m, P)
      BY <2>2, PickAppend
    <3> QED
      BY <2>1, <3>1
  <2>8. FlattenSeq(Append(l, <<g[x]>>)) = FlattenSeq(l) \o <<g[x]>>
    BY <2>1, <2>2, FlattenAppend
  <2>9. m \o <<g[x]>> = Append(m, g[x])
    BY <2>1, <2>2
  <2>10. ElementsAt(Mapped(Append(r, x), g), P) = Mapped(ElementsAt(Append(r, x), P), g)
    BY <2>2, <2>3, <2>4, <2>5, <2>6, <2>7
  <2>11. FlattenSeq(Singles(Append(r, x), g)) = Mapped(Append(r, x), g)
    BY <2>3, <2>4, <2>8, <2>9
  <2> QED
    BY <2>1, <2>10, <2>11
<1>3. SS \in SUBSET Seq(S) /\ <<>> \in SS /\ \A r \in SS : \A x \in S : Append(r, x) \in SS
  BY <1>1, <1>2
<1> HIDE DEF SS
<1>4. SS = Seq(S)
  BY <1>3, ByAppending
<1>5. s \in SS
  BY <1>4
<1> QED
  BY <1>5 DEF SS

\* One sequence, and one of one.
LEMMA FlattenFew ==
  ASSUME NEW S, NEW s \in Seq(S)
  PROVE  FlattenSeq(<<>>) = <<>> /\ FlattenSeq(<<s>>) = s
<1>1. FlattenSeq(<<>>) = <<>>
  BY DEF FlattenSeq
<1>2. <<>> \in Seq(Seq(S)) /\ Append(<<>>, s) = <<s>> /\ <<>> \o s = s
  OBVIOUS
<1>3. FlattenSeq(Append(<<>>, s)) = FlattenSeq(<<>>) \o s
  BY <1>2, FlattenAppend
<1> QED
  BY <1>1, <1>2, <1>3

\* The symbols of a text.
LEMMA SpellIs ==
  ASSUME NEW v \in Strings
  PROVE  Spell(v) \in Seq(Strings)
<1>1. v \in DOMAIN Spelling => Spelling[v] \in Seq(Strings)
  BY SpellingAssumption
<1>2. <<v>> \in Seq(Strings)
  OBVIOUS
<1> QED
  BY <1>1, <1>2 DEF Spell

\* Expressions of fields, subfields, characters and the leader.
FieldSpec(tags, range) == [Expression(tags) EXCEPT !.field_index = range]
SubfieldSpec(tags, range) ==
  [FieldSpec(tags, <<0>>) EXCEPT !.subfields = <<[code |-> "a", index |-> range]>>]
CharacterSpec(tags, range) == [FieldSpec(tags, <<0>>) EXCEPT !.char_range = range]
LeaderSpec(tags, range) == [CharacterSpec(tags, range) EXCEPT !.is_leader = TRUE]

\* What they say.
SpecSays(spec, tags, field_index, char_range, subfields) ==
  /\ spec.tags = tags /\ spec.field_index = field_index /\ spec.char_range = char_range
  /\ spec.subfields = subfields /\ ~spec.indicator

\* See SpecSays.
LEMMA SpecsAre ==
  ASSUME NEW tags, NEW range
  PROVE  /\ SpecSays(Expression(tags), tags, <<>>, <<>>, <<>>) /\ ~Expression(tags).is_leader
         /\ SpecSays(FieldSpec(tags, range), tags, range, <<>>, <<>>) /\ ~FieldSpec(tags, range).is_leader
         /\ SpecSays(SubfieldSpec(tags, range), tags, <<0>>, <<>>, <<[code |-> "a", index |-> range]>>)
         /\ ~SubfieldSpec(tags, range).is_leader
         /\ SpecSays(CharacterSpec(tags, range), tags, <<0>>, range, <<>>)
         /\ ~CharacterSpec(tags, range).is_leader
         /\ LeaderSpec(tags, range).is_leader /\ LeaderSpec(tags, range).char_range = range
<1>1. SpecSays(Expression(tags), tags, <<>>, <<>>, <<>>) /\ ~Expression(tags).is_leader
  BY DEF Expression, SpecSays
<1>2. SpecSays(FieldSpec(tags, range), tags, range, <<>>, <<>>) /\ ~FieldSpec(tags, range).is_leader
  BY DEF Expression, FieldSpec, SpecSays
<1>3. /\ SpecSays(SubfieldSpec(tags, range), tags, <<0>>, <<>>, <<[code |-> "a", index |-> range]>>)
      /\ ~SubfieldSpec(tags, range).is_leader
  BY DEF Expression, FieldSpec, SubfieldSpec, SpecSays
<1>4. /\ SpecSays(CharacterSpec(tags, range), tags, <<0>>, range, <<>>)
      /\ ~CharacterSpec(tags, range).is_leader
  BY DEF Expression, FieldSpec, CharacterSpec, SpecSays
<1>5. LeaderSpec(tags, range).is_leader /\ LeaderSpec(tags, range).char_range = range
  BY DEF Expression, FieldSpec, CharacterSpec, LeaderSpec
<1> QED
  BY <1>1, <1>2, <1>3, <1>4, <1>5

\* What a field says as a whole.
Whole(f) == IF f.is_control THEN Spell(f.value) ELSE JoinSubfields(f.subs)
whole == [f \in KindFields |-> Whole(f)]
Wholes == {Whole(f) : f \in KindFields}

\* The fields of some tags.
MatchedOf(fields, tags) == ElementsAt(fields, PositionsOf(fields, tags))

\* A range of something that is made of the elements of a sequence.
LEMMA SelectedOf ==
  ASSUME NEW S, NEW s \in Seq(S), NEW range
  PROVE  /\ Selected(s, range) \in Seq(S)
         /\ \A T, g : Maps(g, S, T) => Selected(Mapped(s, g), range) = Mapped(Selected(s, range), g)
<1>1. CASE range = <<>>
  BY <1>1 DEF Selected
<1>2. CASE range # <<>>
  <2> DEFINE P == Resolve(range, Len(s))
  <2>1. Selected(s, range) = ElementsAt(s, P)
    BY <1>2 DEF Selected
  <2>2. ElementsAt(s, P) \in Seq(S)
    BY Picked
  <2>3. ASSUME NEW T, NEW g, Maps(g, S, T)
        PROVE  Selected(Mapped(s, g), range) = Mapped(Selected(s, range), g)
    <3>1. Len(Mapped(s, g)) = Len(s)
      BY <2>3, MappedIs
    <3>2. Selected(Mapped(s, g), range) = ElementsAt(Mapped(s, g), P)
      BY <1>2, <3>1 DEF Selected
    <3> HIDE DEF P
    <3>3. ElementsAt(Mapped(s, g), P) = Mapped(ElementsAt(s, P), g)
      BY <2>3, MappedPicked
    <3> QED
      BY <2>1, <3>2, <3>3
  <2> QED
    BY <2>1, <2>2, <2>3
<1> QED
  BY <1>1, <1>2

\* An expression of whole fields.
LEMMA WholesAre ==
  ASSUME NEW fields \in Seq(KindFields), NEW spec, NEW tags, NEW range,
         SpecSays(spec, tags, range, <<>>, <<>>)
  PROVE  FlattenSeq([k \in DOMAIN fields |-> ValuesOf(fields[k], spec)]) = Mapped(fields, whole)
<1>1. ASSUME NEW f \in KindFields PROVE ValuesOf(f, spec) = <<whole[f]>>
  BY DEF SpecSays, ValuesOf, Whole, whole
<1>2. \A k \in DOMAIN fields : fields[k] \in KindFields
  OBVIOUS
<1>3. [k \in DOMAIN fields |-> ValuesOf(fields[k], spec)] = Singles(fields, whole)
  BY <1>1, <1>2 DEF Singles
<1>4. Maps(whole, KindFields, Wholes)
  BY DEF Maps, whole, Wholes
<1> QED
  BY <1>3, <1>4, MappedPicked

\* The fields that a range selects.
LEMMA FieldItems ==
  ASSUME NEW r \in MarcRecords, NEW tags, NEW range
  PROVE  LET matched == MatchedOf(r.fields, tags) IN
         /\ matched \in Seq(KindFields) /\ Mapped(matched, whole) \in Seq(Wholes)
         /\ MarcSpecEvaluate(r, FieldSpec(tags, range)) = Mapped(Selected(matched, range), whole)
         /\ MarcSpecEvaluate(r, FieldSpec(tags, range)) = Selected(Mapped(matched, whole), range)
<1> DEFINE spec == FieldSpec(tags, range)
           matched == MatchedOf(r.fields, tags)
           chosen == Selected(matched, range)
<1>1. r.fields \in Seq(KindFields)
  BY DEF MarcRecords
<1>2. matched \in Seq(KindFields)
  BY <1>1, Picked DEF MatchedOf
<1>3. Maps(whole, KindFields, Wholes)
  BY DEF Maps, whole, Wholes
<1>4. SpecSays(spec, tags, range, <<>>, <<>>) /\ ~spec.is_leader
  BY SpecsAre
<1> HIDE DEF spec
<1>5. MarcSpecEvaluate(r, spec) = FlattenSeq([k \in DOMAIN chosen |-> ValuesOf(chosen[k], spec)])
  <2>1. /\ ElementsAt(r.fields, PositionsOf(r.fields, spec.tags)) = matched
        /\ spec.field_index = range
    BY <1>4 DEF MatchedOf, SpecSays
  <2> QED
    BY <1>4, <2>1 DEF MarcSpecEvaluate
<1> HIDE DEF matched
<1>6. /\ chosen \in Seq(KindFields) /\ Mapped(matched, whole) \in Seq(Wholes)
      /\ Selected(Mapped(matched, whole), range) = Mapped(chosen, whole)
  BY <1>2, <1>3, MappedIs, SelectedOf
<1> HIDE DEF chosen
<1>7. MarcSpecEvaluate(r, spec) = Mapped(chosen, whole)
  BY <1>4, <1>5, <1>6, WholesAre
<1> QED
  BY <1>2, <1>6, <1>7 DEF spec, matched, chosen

\* One occurrence, if there are so many.
LEMMA SelectedOne ==
  ASSUME NEW S, NEW s \in Seq(S), NEW n \in Nat
  PROVE  Selected(s, <<n>>) = IF n + 1 <= Len(s) THEN <<s[n + 1]>> ELSE <<>>
<1> DEFINE len == Len(s)
           P == Resolve(<<n>>, len)
<1>1. len \in Nat
  OBVIOUS
<1>2. \A i \in 1..len : i \in P <=> i = n + 1
  BY <1>1 DEF Resolve, LastOne
<1>3. Selected(s, <<n>>) = ElementsAt(s, P)
  BY DEF Selected
<1> HIDE DEF P
<1>4. CASE n + 1 <= len
  <2>1. n + 1 \in 1..len
    BY <1>1, <1>4
  <2> DEFINE i == n + 1
  <2>2. i \in 1..Len(s) /\ \A k \in 1..Len(s) : k \in P <=> k = i
    BY <1>2, <2>1
  <2> HIDE DEF i
  <2>3. ElementsAt(s, P) = <<s[i]>>
    BY <2>2, PickOne
  <2> QED
    BY <1>3, <1>4, <2>3 DEF i
<1>5. CASE ~(n + 1 <= len)
  <2>1. \A i \in 1..Len(s) : i \notin P
    BY <1>1, <1>2, <1>5
  <2>2. ElementsAt(s, P) = <<>>
    BY <2>1, PickNone
  <2> QED
    BY <1>3, <1>5, <2>2
<1> QED
  BY <1>4, <1>5

\* Ranges of nothing.
LEMMA SelectedNone ==
  ASSUME NEW range
  PROVE  Selected(<<>>, range) = <<>>
<1>1. \A P : ElementsAt(<<>>, P) = <<>>
  BY PickEmpty
<1> QED
  BY <1>1 DEF Selected

\* An expression of the first field of some tags: there is none, or it is f.
OfFirst(spec, tags, char_range, subfields) ==
  SpecSays(spec, tags, <<0>>, char_range, subfields) /\ ~spec.is_leader
FirstIsNone(r, tags) ==
  \A spec, char_range, subfields :
    OfFirst(spec, tags, char_range, subfields) => MarcSpecEvaluate(r, spec) = <<>>
FirstIs(r, tags, f) ==
  \A T, spec, char_range, subfields :
    OfFirst(spec, tags, char_range, subfields) /\ ValuesOf(f, spec) \in Seq(T) =>
      MarcSpecEvaluate(r, spec) = ValuesOf(f, spec)

\* See OfFirst.
LEMMA FirstEvaluates ==
  ASSUME NEW r \in MarcRecords, NEW tags
  PROVE  FirstIsNone(r, tags) \/ \E f \in KindFields : FirstIs(r, tags, f)
<1> DEFINE matched == MatchedOf(r.fields, tags)
           chosen == Selected(matched, <<0>>)
<1>1. r.fields \in Seq(KindFields)
  BY DEF MarcRecords
<1>2. matched \in Seq(KindFields)
  BY <1>1, Picked DEF MatchedOf
<1>3. ASSUME NEW spec, NEW char_range, NEW subfields,
             OfFirst(spec, tags, char_range, subfields)
      PROVE  MarcSpecEvaluate(r, spec) = FlattenSeq([k \in DOMAIN chosen |-> ValuesOf(chosen[k], spec)])
  <2>1. /\ ElementsAt(r.fields, PositionsOf(r.fields, spec.tags)) = matched
        /\ spec.field_index = <<0>> /\ ~spec.is_leader
    BY <1>3 DEF MatchedOf, SpecSays, OfFirst
  <2> QED
    BY <2>1 DEF MarcSpecEvaluate
<1> HIDE DEF matched
<1>4. chosen = IF 0 + 1 <= Len(matched) THEN <<matched[0 + 1]>> ELSE <<>>
  <2>1. 0 \in Nat
    OBVIOUS
  <2> QED
    BY <1>2, <2>1, SelectedOne
<1> HIDE DEF chosen
<1>5. CASE 0 + 1 <= Len(matched)
  <2> DEFINE f == matched[1]
  <2>1. f \in KindFields /\ chosen = <<f>>
    BY <1>2, <1>4, <1>5
  <2> HIDE DEF f
  <2>2. ASSUME NEW T, NEW spec, NEW char_range, NEW subfields,
               OfFirst(spec, tags, char_range, subfields),
               ValuesOf(f, spec) \in Seq(T)
        PROVE  MarcSpecEvaluate(r, spec) = ValuesOf(f, spec)
    <3>1. [k \in DOMAIN chosen |-> ValuesOf(chosen[k], spec)] = <<ValuesOf(f, spec)>>
      BY <2>1
    <3>2. FlattenSeq(<<ValuesOf(f, spec)>>) = ValuesOf(f, spec)
      BY <2>2, FlattenFew
    <3> QED
      BY <1>3, <2>2, <3>1, <3>2
  <2>3. FirstIs(r, tags, f)
    BY <2>2 DEF FirstIs
  <2> QED
    BY <2>1, <2>3
<1>6. CASE ~(0 + 1 <= Len(matched))
  <2>1. chosen = <<>>
    BY <1>4, <1>6
  <2>2. ASSUME NEW spec, NEW char_range, NEW subfields,
               OfFirst(spec, tags, char_range, subfields)
        PROVE  MarcSpecEvaluate(r, spec) = <<>>
    <3>1. [k \in DOMAIN chosen |-> ValuesOf(chosen[k], spec)] = <<>>
      BY <2>1
    <3>2. FlattenSeq(<<>>) = <<>>
      BY DEF FlattenSeq
    <3> QED
      BY <1>3, <2>2, <3>1, <3>2
  <2> QED
    BY <2>2 DEF FirstIsNone
<1> QED
  BY <1>5, <1>6

\* The subfields of a field that have the code, each on its own.
LEMMA SubfieldsOfCode ==
  ASSUME NEW f \in KindFields, NEW code
  PROVE  FlattenSeq([k \in DOMAIN f.subs |->
           IF f.subs[k].code = code THEN <<Spell(f.subs[k].value)>> ELSE <<>>]) \in Seq(Seq(Strings))
<1> DEFINE values == [k \in DOMAIN f.subs |->
             IF f.subs[k].code = code THEN <<Spell(f.subs[k].value)>> ELSE <<>>]
<1>1. f.subs \in Seq(Subfields)
  BY DEF KindFields, Fields
<1>2. ASSUME NEW k \in DOMAIN f.subs
      PROVE  (IF f.subs[k].code = code THEN <<Spell(f.subs[k].value)>> ELSE <<>>) \in Seq(Seq(Strings))
  <2>1. f.subs[k].value \in Strings
    <3>1. f.subs[k] \in Subfields
      BY <1>1
    <3> QED
      BY <3>1 DEF Subfields
  <2> DEFINE u == Spell(f.subs[k].value)
  <2>2. u \in Seq(Strings)
    BY <2>1, SpellIs
  <2> HIDE DEF u
  <2>3. <<u>> \in Seq(Seq(Strings)) /\ <<>> \in Seq(Seq(Strings))
    BY <2>2
  <2> QED
    BY <2>3 DEF u
<1>3. values \in [1..Len(f.subs) -> Seq(Seq(Strings))] /\ Len(f.subs) \in Nat
  BY <1>1, <1>2
<1> HIDE DEF values
<1>4. values \in Seq(Seq(Seq(Strings)))
  BY <1>3
<1>5. FlattenSeq(values) \in Seq(Seq(Strings))
  BY <1>4, FlattenIn
<1> QED
  BY <1>5 DEF values

\* The subfields that a range selects.
LEMMA SubfieldItems ==
  ASSUME NEW r \in MarcRecords, NEW tags
  PROVE  \E items \in Seq(Seq(Strings)) :
           \A range : MarcSpecEvaluate(r, SubfieldSpec(tags, range)) = Selected(items, range)
<1> DEFINE Code(range) == [code |-> "a", index |-> range]
<1>1. \A range : OfFirst(SubfieldSpec(tags, range), tags, <<>>, <<Code(range)>>)
  BY SpecsAre DEF OfFirst
<1>2. ASSUME FirstIsNone(r, tags)
      PROVE  \E items \in Seq(Seq(Strings)) :
               \A range : MarcSpecEvaluate(r, SubfieldSpec(tags, range)) = Selected(items, range)
  <2>1. <<>> \in Seq(Seq(Strings))
    OBVIOUS
  <2>2. \A range : MarcSpecEvaluate(r, SubfieldSpec(tags, range)) = <<>>
    BY <1>1, <1>2 DEF FirstIsNone
  <2> QED
    BY <2>1, <2>2, SelectedNone
<1>3. ASSUME NEW f \in KindFields, FirstIs(r, tags, f)
      PROVE  \E items \in Seq(Seq(Strings)) :
               \A range : MarcSpecEvaluate(r, SubfieldSpec(tags, range)) = Selected(items, range)
  <2> DEFINE values == [k \in DOMAIN f.subs |->
               IF f.subs[k].code = "a" THEN <<Spell(f.subs[k].value)>> ELSE <<>>]
             items == IF f.is_control THEN <<>> ELSE FlattenSeq(values)
  <2>1. items \in Seq(Seq(Strings))
    <3>1. FlattenSeq(values) \in Seq(Seq(Strings))
      BY SubfieldsOfCode
    <3> HIDE DEF values
    <3> QED
      BY <3>1
  <2>2. ASSUME NEW range
        PROVE  MarcSpecEvaluate(r, SubfieldSpec(tags, range)) = Selected(items, range)
    <3> DEFINE spec == SubfieldSpec(tags, range)
    <3>1. /\ spec.char_range = <<>> /\ spec.subfields = <<Code(range)>> /\ ~spec.indicator
      BY <1>1 DEF SpecSays, OfFirst
    <3>2. Selected(items, range) \in Seq(Seq(Strings))
      <4> HIDE DEF items
      <4> QED
        BY <2>1, SelectedOf
    <3>3. ValuesOf(f, spec) = Selected(items, range)
      <4> HIDE DEF spec
      <4>1. CASE f.is_control
        <5>1. ValuesOf(f, spec) = <<>>
          BY <3>1, <4>1 DEF ValuesOf
        <5> QED
          BY <4>1, <5>1, SelectedNone
      <4>2. CASE ~f.is_control
        <5> DEFINE found == SubfieldValues(f, Code(range))
        <5>1. found = Selected(items, range)
          BY <4>2 DEF SubfieldValues
        <5>2. [n \in DOMAIN spec.subfields |-> SubfieldValues(f, spec.subfields[n])] = <<found>>
          BY <3>1
        <5>3. ValuesOf(f, spec)
                = FlattenSeq([n \in DOMAIN spec.subfields |-> SubfieldValues(f, spec.subfields[n])])
          BY <3>1, <4>2 DEF ValuesOf
        <5> HIDE DEF found, items
        <5>4. FlattenSeq(<<found>>) = found
          BY <3>2, <5>1, FlattenFew
        <5> QED
          BY <5>1, <5>2, <5>3, <5>4
      <4> QED
        BY <4>1, <4>2
    <3> HIDE DEF items
    <3>4. OfFirst(spec, tags, <<>>, <<Code(range)>>) /\ ValuesOf(f, spec) \in Seq(Seq(Strings))
      BY <1>1, <3>2, <3>3
    <3> HIDE DEF spec
    <3>5. MarcSpecEvaluate(r, spec) = ValuesOf(f, spec)
      BY <1>3, <3>4 DEF FirstIs
    <3> QED
      BY <3>3, <3>5 DEF spec
  <2> HIDE DEF items
  <2> QED
    BY <2>1, <2>2
<1> QED
  BY <1>2, <1>3, FirstEvaluates

\* Slices, one behind the other, are what is selected.
LEMMA SlicesAre ==
  ASSUME NEW symbols \in Seq(Strings), NEW range, range # <<>>
  PROVE  /\ Slices(symbols, range) \in Seq(Seq(Strings))
         /\ FlattenSeq(Slices(symbols, range)) = Selected(symbols, range)
<1> DEFINE some == Selected(symbols, range)
<1>1. some \in Seq(Strings)
  BY SelectedOf
<1>2. Slices(symbols, range) = IF some = <<>> THEN <<>> ELSE <<some>>
  BY DEF Slices
<1> HIDE DEF some
<1>3. <<some>> \in Seq(Seq(Strings)) /\ <<>> \in Seq(Seq(Strings))
  BY <1>1
<1>4. FlattenSeq(<<>>) = <<>> /\ FlattenSeq(<<some>>) = some
  BY <1>1, FlattenFew
<1> QED
  BY <1>2, <1>3, <1>4 DEF some

\* The characters that a range selects.
LEMMA CharacterItems ==
  ASSUME NEW r \in MarcRecords, NEW tags
  PROVE  \E items \in Seq(Strings) :
           \A range : range # <<>> =>
             FlattenSeq(MarcSpecEvaluate(r, CharacterSpec(tags, range))) = Selected(items, range)
<1>1. \A range : OfFirst(CharacterSpec(tags, range), tags, range, <<>>)
  BY SpecsAre DEF OfFirst
<1>2. FlattenSeq(<<>>) = <<>> /\ <<>> \in Seq(Strings)
  BY DEF FlattenSeq
<1>3. ASSUME FirstIsNone(r, tags)
      PROVE  \E items \in Seq(Strings) :
               \A range : range # <<>> =>
                 FlattenSeq(MarcSpecEvaluate(r, CharacterSpec(tags, range))) = Selected(items, range)
  <2>1. \A range : MarcSpecEvaluate(r, CharacterSpec(tags, range)) = <<>>
    BY <1>1, <1>3 DEF FirstIsNone
  <2> QED
    BY <1>2, <2>1, SelectedNone
<1>4. ASSUME NEW f \in KindFields, FirstIs(r, tags, f)
      PROVE  \E items \in Seq(Strings) :
               \A range : range # <<>> =>
                 FlattenSeq(MarcSpecEvaluate(r, CharacterSpec(tags, range))) = Selected(items, range)
  <2> DEFINE items == IF f.is_control THEN Spell(f.value) ELSE <<>>
  <2>1. items \in Seq(Strings)
    <3>1. f.value \in Strings
      BY DEF KindFields, Fields
    <3> QED
      BY <1>2, <3>1, SpellIs
  <2>2. ASSUME NEW range, range # <<>>
        PROVE  FlattenSeq(MarcSpecEvaluate(r, CharacterSpec(tags, range))) = Selected(items, range)
    <3> DEFINE spec == CharacterSpec(tags, range)
    <3>1. OfFirst(spec, tags, range, <<>>)
      BY <1>1
    <3> HIDE DEF spec
    <3>2. spec.char_range = range /\ ~spec.indicator
      BY <3>1 DEF SpecSays, OfFirst
    <3>3. ValuesOf(f, spec) \in Seq(Seq(Strings)) /\ FlattenSeq(ValuesOf(f, spec)) = Selected(items, range)
      <4>1. CASE f.is_control
        <5>1. ValuesOf(f, spec) = Slices(items, range)
          BY <2>2, <3>2, <4>1 DEF ValuesOf
        <5> HIDE DEF items
        <5> QED
          BY <2>1, <2>2, <5>1, SlicesAre
      <4>2. CASE ~f.is_control
        <5>1. ValuesOf(f, spec) = <<>> /\ items = <<>>
          BY <2>2, <3>2, <4>2 DEF ValuesOf
        <5> HIDE DEF items
        <5>2. <<>> \in Seq(Seq(Strings))
          OBVIOUS
        <5> QED
          BY <1>2, <5>1, <5>2, SelectedNone
      <4> QED
        BY <4>1, <4>2
    <3>4. MarcSpecEvaluate(r, spec) = ValuesOf(f, spec)
      BY <1>4, <3>1, <3>3 DEF FirstIs
    <3> QED
      BY <3>3, <3>4 DEF spec
  <2> HIDE DEF items
  <2> QED
    BY <2>1, <2>2
<1> QED
  BY <1>3, <1>4, FirstEvaluates

\* The characters of the leader that it selects.
LEMMA LeaderItems ==
  ASSUME NEW r \in MarcRecords, NEW tags
  PROVE  \E items \in Seq(Strings) :
           \A range : range # <<>> =>
             FlattenSeq(MarcSpecEvaluate(r, LeaderSpec(tags, range))) = Selected(items, range)
<1> DEFINE items == Spell(r.leader)
<1>1. r.leader \in Strings
  BY DEF MarcRecords
<1>2. items \in Seq(Strings)
  BY <1>1, SpellIs
<1>3. ASSUME NEW range, range # <<>>
      PROVE  FlattenSeq(MarcSpecEvaluate(r, LeaderSpec(tags, range))) = Selected(items, range)
  <2> DEFINE spec == LeaderSpec(tags, range)
  <2>1. spec.is_leader /\ spec.char_range = range
    BY SpecsAre
  <2> HIDE DEF spec
  <2>2. MarcSpecEvaluate(r, spec) = Slices(items, range)
    BY <2>1 DEF MarcSpecEvaluate
  <2> HIDE DEF items
  <2> QED
    BY <1>2, <1>3, <2>2, SlicesAre DEF spec
<1> HIDE DEF items
<1> QED
  BY <1>2, <1>3

\* There are as many fields before the k-th one that was picked.
LEMMA PickedBefore ==
  ASSUME NEW S, NEW s \in Seq(S), NEW P \in SUBSET (1..Len(s)), NEW pos,
         Places(pos, ElementsAt(s, P), Len(s), s, P), NEW k \in 1..Len(ElementsAt(s, P))
  PROVE  Cardinality({j \in P : j < pos[k]}) = k - 1
<1> DEFINE e == ElementsAt(s, P)
           T == {j \in P : j < pos[k]}
           f == [l \in 1..(k - 1) |-> pos[l]]
<1>1. e \in Seq(S)
  BY Picked
<1>2. Places(pos, e, Len(s), s, P) /\ k \in 1..Len(e)
  OBVIOUS
<1> HIDE DEF e
<1>3. Len(e) \in Nat /\ Len(s) \in Nat
  BY <1>1
<1>4. /\ \A l \in 1..Len(e) : pos[l] \in 1..Len(s) /\ pos[l] \in P
      /\ \A l, m \in 1..Len(e) : l < m => pos[l] < pos[m]
      /\ \A p \in P : \E l \in 1..Len(e) : pos[l] = p
  BY <1>2 DEF Places
<1>5. k - 1 \in Nat /\ \A l \in 1..(k - 1) : l \in 1..Len(e) /\ l < k
  BY <1>2, <1>3
<1>6. f \in [1..(k - 1) -> T]
  BY <1>2, <1>4, <1>5
<1>7. \A l, m \in 1..(k - 1) : f[l] = f[m] => l = m
  <2>1. ASSUME NEW l \in 1..(k - 1), NEW m \in 1..(k - 1), f[l] = f[m] PROVE l = m
    <3>1. pos[l] = pos[m] /\ l \in 1..Len(e) /\ m \in 1..Len(e)
      BY <1>5, <2>1
    <3>2. ~(l < m) /\ ~(m < l)
      BY <1>4, <3>1
    <3> QED
      BY <3>1, <3>2
  <2> QED
    BY <2>1
<1>8. \A p \in T : \E l \in 1..(k - 1) : f[l] = p
  <2>1. ASSUME NEW p \in T PROVE \E l \in 1..(k - 1) : f[l] = p
    <3>1. p \in P /\ p < pos[k]
      OBVIOUS
    <3>2. PICK l \in 1..Len(e) : pos[l] = p
      BY <1>4, <3>1
    <3>3. ~(k < l) /\ l # k
      BY <1>2, <1>4, <3>1, <3>2
    <3>4. l \in 1..(k - 1)
      BY <1>2, <1>3, <3>3
    <3> QED
      BY <3>2, <3>4
  <2> QED
    BY <2>1
<1> HIDE DEF T, f
<1>9. f \in Bijection(1..(k - 1), T)
  BY <1>6, <1>7, <1>8 DEF Bijection, Injection, Surjection, IsInjective
<1>10. Cardinality(T) = k - 1
  BY <1>5, <1>9, Grown
<1> QED
  BY <1>10 DEF T

\* MARCspec and the selectors of edits count occurrences alike.
LEMMA OccurrenceIs ==
  ASSUME NEW fields \in Seq(KindFields), NEW tags, NEW n \in Nat, NEW sel,
         sel.tags = tags, sel.ind1 = Unset, sel.code = Unset, sel.occurrence = n
  PROVE  ElementsAt(fields, SelectFields(fields, sel)) = Selected(MatchedOf(fields, tags), <<n>>)
<1> DEFINE P == PositionsOf(fields, tags)
           e == ElementsAt(fields, P)
           Q == SelectFields(fields, sel)
           L == Len(e)
<1>1. P \in SUBSET (1..Len(fields)) /\ Len(fields) \in Nat
  BY DEF PositionsOf
<1>2. Q = {i \in P : Cardinality({j \in P : j < i}) = n}
  <2>1. {i \in DOMAIN fields : Matches(sel, fields[i])} = P
    BY DEF Matches, PositionsOf
  <2>2. n # EveryOccurrence
    BY DEF EveryOccurrence
  <2> HIDE DEF P
  <2> QED
    BY <2>1, <2>2 DEF SelectFields
<1> HIDE DEF P, Q
<1>3. e \in Seq(KindFields) /\ L \in Nat
  BY Picked
<1>4. PICK pos : Places(pos, e, Len(fields), fields, P)
  BY Picked
<1>5. \A k \in 1..L : Cardinality({j \in P : j < pos[k]}) = k - 1
  BY <1>1, <1>4, PickedBefore
<1>6. Selected(e, <<n>>) = IF n + 1 <= L THEN <<e[n + 1]>> ELSE <<>>
  BY <1>3, SelectedOne
<1>7. /\ \A k \in 1..L : pos[k] \in 1..Len(fields) /\ pos[k] \in P /\ e[k] = fields[pos[k]]
      /\ \A p \in P : \E k \in 1..L : pos[k] = p
  BY <1>1, <1>4 DEF Places
<1> HIDE DEF e, L
<1>8. ASSUME NEW p \in Q PROVE \E k \in 1..L : pos[k] = p /\ k = n + 1
  <2>1. p \in P /\ Cardinality({j \in P : j < p}) = n
    BY <1>2
  <2>2. PICK k \in 1..L : pos[k] = p
    BY <1>7, <2>1
  <2>3. k - 1 = n
    BY <1>5, <2>1, <2>2
  <2> QED
    BY <1>3, <2>2, <2>3
<1>9. CASE n + 1 <= L
  <2> DEFINE i == pos[n + 1]
  <2>1. n + 1 \in 1..L /\ (n + 1) - 1 = n
    BY <1>3, <1>9
  <2>2. i \in 1..Len(fields) /\ i \in P /\ e[n + 1] = fields[i]
    BY <1>7, <2>1
  <2>3. Cardinality({j \in P : j < i}) = n
    BY <1>5, <2>1
  <2>4. i \in Q
    BY <1>2, <2>2, <2>3
  <2>5. \A k \in Q : k = i
    BY <1>8
  <2> HIDE DEF i
  <2>6. ElementsAt(fields, Q) = <<fields[i]>>
    BY <2>2, <2>4, <2>5, PickOne
  <2> QED
    BY <1>6, <1>9, <2>2, <2>6 DEF e, P, Q, MatchedOf
<1>10. CASE ~(n + 1 <= L)
  <2>1. \A k \in 1..Len(fields) : k \notin Q
    BY <1>3, <1>8, <1>10
  <2>2. ElementsAt(fields, Q) = <<>>
    BY <2>1, PickNone
  <2> QED
    BY <1>6, <1>10, <2>2 DEF e, P, Q, MatchedOf
<1> QED
  BY <1>9, <1>10

\* Ranges of whole fields, subfields and characters partition them.
LEMMA RangesPartition ==
  ASSUME rec \in MarcRecords
  PROVE  SpecRangesPartition
<1> SUFFICES ASSUME NEW tags \in {sel.tags : sel \in Selectors}, NEW n \in Positions
             PROVE
    LET field(range) == [Expression(tags) EXCEPT !.field_index = range]
        subfield(range) == [field(<<0>>) EXCEPT !.subfields = <<[code |-> "a", index |-> range]>>]
        characters(range) == [field(<<0>>) EXCEPT !.char_range = range]
        Items(kind, range) ==
          CASE kind = "field" -> MarcSpecEvaluate(rec, field(range))
            [] kind = "subfield" -> MarcSpecEvaluate(rec, subfield(range))
            [] kind = "character" -> FlattenSeq(MarcSpecEvaluate(rec, characters(range)))
            [] kind = "leader" ->
                 FlattenSeq(MarcSpecEvaluate(rec, [characters(range) EXCEPT !.is_leader = TRUE]))
        occurrence == [tags |-> tags, ind1 |-> Unset, code |-> Unset, values |-> {}, occurrence |-> n]
        selected == ElementsAt(rec.fields, SelectFields(rec.fields, occurrence)) IN
    /\ \A kind \in {"field", "subfield", "character", "leader"} :
         LET all == Items(kind, <<0, LastOne>>) IN
         /\ Items(kind, <<0, n>>) \o Items(kind, <<n + 1, LastOne>>) = all
         /\ Items(kind, <<LastOne, n>>) = SubSeq(all, Max({1, Len(all) - n}), Len(all))
    /\ Items("field", <<n>>) =
         FlattenSeq([k \in DOMAIN selected |-> ValuesOf(selected[k], Expression(tags))])
  BY DEF SpecRangesPartition
<1> DEFINE field(range) == FieldSpec(tags, range)
           subfield(range) == SubfieldSpec(tags, range)
           characters(range) == CharacterSpec(tags, range)
           leader(range) == LeaderSpec(tags, range)
           Items(kind, range) ==
             CASE kind = "field" -> MarcSpecEvaluate(rec, field(range))
               [] kind = "subfield" -> MarcSpecEvaluate(rec, subfield(range))
               [] kind = "character" -> FlattenSeq(MarcSpecEvaluate(rec, characters(range)))
               [] kind = "leader" -> FlattenSeq(MarcSpecEvaluate(rec, leader(range)))
           occurrence == [tags |-> tags, ind1 |-> Unset, code |-> Unset, values |-> {}, occurrence |-> n]
           selected == ElementsAt(rec.fields, SelectFields(rec.fields, occurrence))
           Partition(kind) ==
             LET all == Items(kind, <<0, LastOne>>) IN
             /\ Items(kind, <<0, n>>) \o Items(kind, <<n + 1, LastOne>>) = all
             /\ Items(kind, <<LastOne, n>>) = SubSeq(all, Max({1, Len(all) - n}), Len(all))
           matched == MatchedOf(rec.fields, tags)
<1>1. n \in Nat /\ rec.fields \in Seq(KindFields)
  BY PositionsAssumption DEF MarcRecords
<1>2. ASSUME NEW S, NEW items \in Seq(S), NEW kind,
             \A range : range # <<>> => Items(kind, range) = Selected(items, range)
      PROVE  Partition(kind)
  <2> HIDE DEF Items
  <2>1. <<0, n>> # <<>> /\ <<n + 1, LastOne>> # <<>> /\ <<LastOne, n>> # <<>> /\ <<0, LastOne>> # <<>>
    OBVIOUS
  <2>2. /\ Items(kind, <<0, n>>) = Selected(items, <<0, n>>)
        /\ Items(kind, <<n + 1, LastOne>>) = Selected(items, <<n + 1, LastOne>>)
        /\ Items(kind, <<LastOne, n>>) = Selected(items, <<LastOne, n>>)
        /\ Items(kind, <<0, LastOne>>) = Selected(items, <<0, LastOne>>)
    BY <1>2, <2>1
  <2>3. InRanges(items, n)
    BY <1>1, RangesAre
  <2> QED
    BY <2>2, <2>3 DEF InRanges
<1>3. /\ matched \in Seq(KindFields) /\ Mapped(matched, whole) \in Seq(Wholes)
      /\ \A range : Items("field", range) = Selected(Mapped(matched, whole), range)
      /\ \A range : Items("field", range) = Mapped(Selected(matched, range), whole)
  BY FieldItems
<1>4. Partition("field")
  <2> HIDE DEF matched, Items
  <2> DEFINE items == Mapped(matched, whole)
  <2>1. items \in Seq(Wholes) /\ \A range : Items("field", range) = Selected(items, range)
    BY <1>3
  <2> HIDE DEF items, Partition
  <2> QED
    BY <1>2, <2>1
<1>5. Partition("subfield")
  <2>1. PICK items \in Seq(Seq(Strings)) : \A range : Items("subfield", range) = Selected(items, range)
    BY SubfieldItems
  <2> HIDE DEF Items, Partition
  <2> QED
    BY <1>2, <2>1
<1>6. Partition("character")
  <2>1. PICK items \in Seq(Strings) :
          \A range : range # <<>> => Items("character", range) = Selected(items, range)
    BY CharacterItems
  <2> HIDE DEF Items, Partition
  <2> QED
    BY <1>2, <2>1
<1>7. Partition("leader")
  <2>1. PICK items \in Seq(Strings) :
          \A range : range # <<>> => Items("leader", range) = Selected(items, range)
    BY LeaderItems
  <2> HIDE DEF Items, Partition
  <2> QED
    BY <1>2, <2>1
<1>8. Items("field", <<n>>)
        = FlattenSeq([k \in DOMAIN selected |-> ValuesOf(selected[k], Expression(tags))])
  <2>1. selected = Selected(matched, <<n>>)
    BY <1>1, OccurrenceIs
  <2>2. selected \in Seq(KindFields)
    BY <1>1, Picked
  <2>3. SpecSays(Expression(tags), tags, <<>>, <<>>, <<>>)
    BY SpecsAre
  <2> HIDE DEF selected, Items, matched
  <2>4. FlattenSeq([k \in DOMAIN selected |-> ValuesOf(selected[k], Expression(tags))])
          = Mapped(selected, whole)
    BY <2>2, <2>3, WholesAre
  <2> QED
    BY <1>3, <2>1, <2>4
<1>9. \A kind \in {"field", "subfield", "character", "leader"} : Partition(kind)
  <2> HIDE DEF Partition
  <2> QED
    BY <1>4, <1>5, <1>6, <1>7
<1> HIDE DEF selected
<1> QED
  BY <1>8, <1>9 DEF FieldSpec, SubfieldSpec, CharacterSpec, LeaderSpec, selected

-----------------------------------------------------------------------------
(***************************************************************************)
(* What holds of chains: of edits (Spec) and of edits and cataloguing      *)
(* operations (CatalogSpec).                                               *)
(***************************************************************************)

\* However edits and cataloguing operations are chained, a field is of the
\* kind its tag says: none makes a control field with subfields or a data
\* field without (edit.hpp:105-110).
THEOREM KindMatches == (Spec => []KindMatchesTag) /\ (CatalogSpec => []KindMatchesTag)
<1>1. rec \in MarcRecords => KindMatchesTag
  BY KindsMatch
<1>2. CatalogInv => KindMatchesTag
  BY <1>1 DEF CatalogInv
<1>3. Spec => []KindMatchesTag
  BY <1>1, AlwaysRecord, PTL
<1>4. CatalogSpec => []KindMatchesTag
  BY <1>2, CatalogAlways, PTL
<1> QED
  BY <1>3, <1>4

\* Every edit but those that retag or append leaves a record in tag order
\* that was, merges with any incoming record included, and so does every
\* cataloguing operation (edit.hpp:40-43).
THEOREM TagOrder == (Spec => TagOrderKept) /\ (CatalogSpec => TagOrderKept)
<1> DEFINE Kept == InTagOrder(rec.fields) /\ last'.edit \notin {"move", "swap", "append"}
                     => InTagOrder(rec'.fields)
<1>1. rec \in MarcRecords /\ [Next]_vars => [Kept]_vars
  <2>1. ASSUME rec \in MarcRecords, Next PROVE Kept
    BY <2>1, NextGood DEF GoodStep, Retagging
  <2> QED
    BY <2>1
<1>2. CatalogInv /\ [CatalogNext]_vars => [Kept]_vars
  <2>1. ASSUME CatalogInv, CatalogNext PROVE Kept
    BY <2>1, CatalogNextGood DEF GoodStep, Retagging, CatalogInv
  <2> QED
    BY <2>1
<1>3. Spec => TagOrderKept
  BY <1>1, AlwaysRecord, PTL DEF Spec, TagOrderKept
<1>4. CatalogSpec => TagOrderKept
  BY <1>2, CatalogAlways, PTL DEF CatalogSpec, TagOrderKept
<1> QED
  BY <1>3, <1>4

\* No edit and no cataloguing operation loses, repeats, changes or reorders
\* fields of tags it is not about, whatever tags those are; sorting puts them
\* in tag order, those of one tag in the order they had (edit.hpp:34-124,
\* catalog.hpp:46-64, authlink.hpp:35-53).
THEOREM Untouched == (Spec => UntouchedFieldsStay) /\ (CatalogSpec => UntouchedFieldsStay)
<1>1. rec \in MarcRecords /\ [Next]_vars => [Stay]_vars
  <2>1. ASSUME rec \in MarcRecords, Next, ~UNCHANGED vars PROVE Stay
    BY <2>1, NextGood, OthersStay
  <2> QED
    BY <2>1
<1>2. CatalogInv /\ [CatalogNext]_vars => [Stay]_vars
  <2>1. ASSUME CatalogInv, CatalogNext, ~UNCHANGED vars PROVE Stay
    BY <2>1, CatalogNextGood, OthersStay DEF CatalogInv
  <2> QED
    BY <2>1
<1>3. Spec => UntouchedFieldsStay
  BY <1>1, AlwaysRecord, PTL DEF Spec, UntouchedFieldsStay, Stay
<1>4. CatalogSpec => UntouchedFieldsStay
  BY <1>2, CatalogAlways, PTL DEF CatalogSpec, UntouchedFieldsStay, Stay
<1> QED
  BY <1>3, <1>4

\* The comparison of the first record of a chain with the last lists no field
\* twice, nothing as changed that is the same, and leaves out nothing but
\* fields of each tag that are the same in both, in their order
\* (edit.hpp:191-196).
THEOREM DiffTells == (Spec => []DiffExplains) /\ (CatalogSpec => []DiffExplains)
<1>1. original \in MarcRecords /\ rec \in MarcRecords => DiffExplains
  BY DiffIsExplained
<1>2. CatalogInv => DiffExplains
  BY <1>1 DEF CatalogInv
<1>3. Spec => []DiffExplains
  BY <1>1, OriginalStays, AlwaysRecord, PTL
<1>4. CatalogSpec => []DiffExplains
  BY <1>2, CatalogAlways, PTL
<1> QED
  BY <1>3, <1>4

\* Merging the same record once more changes nothing, into any record in tag
\* order, by any profile that adds to no tag of it (edit.hpp:74-91).
THEOREM Stable == (Spec => []MergeIsStable) /\ (CatalogSpec => []MergeIsStable)
<1>1. rec \in MarcRecords => MergeIsStable
  BY MergeLeavesItself
<1>2. CatalogInv => MergeIsStable
  BY <1>1 DEF CatalogInv
<1>3. Spec => []MergeIsStable
  BY <1>1, AlwaysRecord, PTL
<1>4. CatalogSpec => []MergeIsStable
  BY <1>2, CatalogAlways, PTL
<1> QED
  BY <1>3, <1>4

\* Whatever a record has been through, generating 33X fields, expanding
\* abbreviations and setting a link a second time change nothing more; the
\* first two commute, keep the fields there were and do not make the record
\* rank lower, and links can be set anew and taken back (catalog.hpp:46-64,
\* authlink.hpp:35-53).
THEOREM Settles == CatalogSpec => []CleanupSettles
<1>1. CatalogInv => CleanupSettles
  BY DescriptionIsSettled, LinksAreSettled DEF CatalogInv, CleanupSettles
<1> QED
  BY <1>1, CatalogAlways, PTL

\* Whatever the position n, what [0-n] and [n+1-#] select of fields, subfields
\* and characters is all of it, [#-n] selects the last n + 1, and MARCspec counts occurrences as the
\* selectors of edits do (marcspec.cpp:7-13, edit.hpp:18-24).
THEOREM RangesSplit == CatalogSpec => []SpecRangesPartition
<1>1. CatalogInv => SpecRangesPartition
  BY RangesPartition DEF CatalogInv
<1> QED
  BY <1>1, CatalogAlways, PTL
=============================================================================
