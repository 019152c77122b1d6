---------------------------- MODULE GeneralFacts ----------------------------
(***************************************************************************)
(* Facts that the proofs about several components rest on: induction and   *)
(* recursion over the natural numbers, stated with sets and functions in   *)
(* place of operators, for definitions like                                *)
(* f[n \in 0..N] == IF n = 0 THEN ... ELSE ... f[n - 1] ...; sequences in  *)
(* parts; FlattenSeq and FoldLeft; counting.                               *)
(***************************************************************************)
EXTENDS Integers, SequencesExt, WellFoundedInduction, SequenceTheorems, FiniteSetTheorems,
        FunctionTheorems, TLAPS

NatLess == {p \in Nat \X Nat : p[1] < p[2]}

\* Every nonempty set of natural numbers has a least member.
LEMMA Least ==
  ASSUME NEW T \in SUBSET Nat, T # {}
  PROVE  \E n \in T : \A m \in T : n <= m
<1>1. IsWellFoundedOn(NatLess, Nat)
  BY NatLessThanWellFounded DEF NatLess, OpToRel
<1>2. PICK n \in T : \A m \in T : ~(<<m, n>> \in NatLess)
  BY <1>1, WFMin
<1>3. ASSUME NEW m \in T PROVE n <= m
  <2>1. ~(<<m, n>> \in NatLess)
    BY <1>2
  <2>2. m \in Nat /\ n \in Nat
    OBVIOUS
  <2> QED
    BY <2>1, <2>2 DEF NatLess
<1> QED
  BY <1>3

\* Induction: a set with 0 that is closed under +1 holds every number.
LEMMA Induct ==
  ASSUME NEW T \in SUBSET Nat, 0 \in T, \A n \in T : n + 1 \in T
  PROVE  T = Nat
<1> SUFFICES ASSUME Nat \ T # {} PROVE FALSE
  OBVIOUS
<1>1. PICK n \in Nat \ T : \A m \in Nat \ T : n <= m
  BY Least
<1> QED
  BY <1>1

\* A nonempty set of numbers with an upper bound has a greatest member.
LEMMA Greatest ==
  ASSUME NEW T \in SUBSET Nat, T # {}, NEW b \in Nat, \A n \in T : n <= b
  PROVE  \E n \in T : \A m \in T : m <= n
<1> DEFINE B == {n \in Nat : \A m \in T : m <= n}
<1>1. PICK n \in B : \A m \in B : n <= m
  <2>1. b \in B
    OBVIOUS
  <2> HIDE DEF B
  <2>2. B \in SUBSET Nat
    BY DEF B
  <2> QED
    BY <2>1, <2>2, Least
<1>2. n \in T
  <2> SUFFICES ASSUME n \notin T PROVE FALSE
    OBVIOUS
  <2>1. \A m \in T : m <= n - 1
    OBVIOUS
  <2>2. n - 1 \in Nat
    <3>1. PICK m \in T : TRUE
      OBVIOUS
    <3> QED
      BY <2>1, <3>1
  <2>3. n - 1 \in B
    BY <2>1, <2>2
  <2> QED
    BY <1>1, <2>3
<1> QED
  BY <1>2

\* g is the recursion's value on 0..n.
Approximates(g, n, base, step) ==
  /\ DOMAIN g = 0..n
  /\ g[0] = base
  /\ \A k \in 0..(n - 1) : g[k + 1] = step[<<k, g[k]>>]

\* Two approximations agree where both are defined.
LEMMA Agree ==
  ASSUME NEW base, NEW step, NEW g, NEW h, NEW m \in Nat, NEW n \in Nat, m <= n,
         Approximates(g, m, base, step), Approximates(h, n, base, step)
  PROVE  \A k \in 0..m : g[k] = h[k]
<1> DEFINE T == {k \in Nat : k <= m => g[k] = h[k]}
<1>1. 0 \in T
  BY DEF Approximates
<1>2. ASSUME NEW k \in T PROVE k + 1 \in T
  <2> SUFFICES ASSUME k + 1 <= m PROVE g[k + 1] = h[k + 1]
    OBVIOUS
  <2>1. k \in 0..(m - 1) /\ k \in 0..(n - 1) /\ g[k] = h[k]
    OBVIOUS
  <2> QED
    BY <2>1 DEF Approximates
<1>3. T \in SUBSET Nat
  OBVIOUS
<1> HIDE DEF T
<1>4. T = Nat
  BY <1>1, <1>2, <1>3, Induct
<1> QED
  BY <1>4 DEF T

\* A step makes the next value from the index and the value before.
Steps(D, S) == [D \X S -> S]

\* f is what base and step define on the naturals, and on 0..N.
Recursive(f, S, base, step) ==
  /\ f \in [Nat -> S]
  /\ f[0] = base
  /\ \A n \in Nat : f[n + 1] = step[<<n, f[n]>>]

RecursiveUpTo(N, f, S, base, step) ==
  /\ f \in [0..N -> S]
  /\ f[0] = base
  /\ \A n \in 1..N : f[n] = step[<<n, f[n - 1]>>]

\* Recursion: a start and a step define a function on the naturals.
LEMMA Recursion ==
  ASSUME NEW S, NEW base \in S, NEW step \in Steps(Nat, S)
  PROVE  \E f : Recursive(f, S, base, step)
<1> USE DEF Steps
<1> DEFINE T == {n \in Nat : \E g \in [0..n -> S] : Approximates(g, n, base, step)}
<1>1. T = Nat
  <2>1. 0 \in T
    <3> DEFINE g == [k \in 0..0 |-> base]
    <3>1. g \in [0..0 -> S] /\ Approximates(g, 0, base, step)
      BY DEF Approximates
    <3> QED
      BY <3>1
  <2>2. ASSUME NEW n \in T PROVE n + 1 \in T
    <3>1. PICK g \in [0..n -> S] : Approximates(g, n, base, step)
      OBVIOUS
    <3> DEFINE h == [k \in 0..(n + 1) |-> IF k = n + 1 THEN step[<<n, g[n]>>] ELSE g[k]]
    <3>2. \A k \in 0..n : g[k] \in S
      OBVIOUS
    <3>3. n \in Nat /\ n \in 0..n
      OBVIOUS
    <3>4. step[<<n, g[n]>>] \in S
      BY <3>2, <3>3
    <3>5. h \in [0..(n + 1) -> S]
      BY <3>2, <3>3, <3>4
    <3>6. /\ \A k \in 0..n : h[k] = g[k]
          /\ h[n + 1] = step[<<n, g[n]>>]
      BY <3>3
    <3> HIDE DEF h, T
    <3>7. Approximates(h, n + 1, base, step)
      <4>1. DOMAIN h = 0..(n + 1)
        BY <3>5
      <4>2. h[0] = base
        BY <3>1, <3>3, <3>6 DEF Approximates
      <4>3. ASSUME NEW k \in 0..n PROVE h[k + 1] = step[<<k, h[k]>>]
        <5>1. CASE k = n
          BY <5>1, <3>6, <3>3
        <5>2. CASE k # n
          <6>1. k \in 0..(n - 1) /\ k + 1 \in 0..n
            BY <5>2, <3>3
          <6> QED
            BY <6>1, <3>1, <3>6 DEF Approximates
        <5> QED
          BY <5>1, <5>2
      <4>4. (n + 1) - 1 = n
        BY <3>3
      <4> QED
        BY <4>1, <4>2, <4>3, <4>4 DEF Approximates
    <3> QED
      BY <3>3, <3>5, <3>7 DEF T
  <2>3. T \in SUBSET Nat
    OBVIOUS
  <2> HIDE DEF T
  <2> QED
    BY <2>1, <2>2, <2>3, Induct
<1> DEFINE G(n) == CHOOSE g \in [0..n -> S] : Approximates(g, n, base, step)
           f == [n \in Nat |-> G(n)[n]]
<1>2. ASSUME NEW n \in Nat
      PROVE  G(n) \in [0..n -> S] /\ Approximates(G(n), n, base, step)
  BY <1>1
<1> HIDE DEF G, T
<1>3. f \in [Nat -> S]
  <2> SUFFICES ASSUME NEW n \in Nat PROVE G(n)[n] \in S
    OBVIOUS
  <2>1. n \in 0..n
    OBVIOUS
  <2> QED
    BY <1>2, <2>1
<1>4. f[0] = base
  BY <1>2 DEF Approximates
<1>5. ASSUME NEW n \in Nat PROVE f[n + 1] = step[<<n, f[n]>>]
  <2>1. /\ n + 1 \in Nat /\ n <= n + 1 /\ n \in 0..n
        /\ n \in 0..((n + 1) - 1)
    OBVIOUS
  <2>2. G(n)[n] = G(n + 1)[n]
    BY <2>1, <1>2, Agree
  <2>3. G(n + 1)[n + 1] = step[<<n, G(n + 1)[n]>>]
    BY <2>1, <1>2 DEF Approximates
  <2> QED
    BY <2>1, <2>2, <2>3
<1> HIDE DEF f
<1>6. Recursive(f, S, base, step)
  BY <1>3, <1>4, <1>5 DEF Recursive
<1> QED
  BY <1>6

\* Recursion up to a bound.
LEMMA BoundedRecursion ==
  ASSUME NEW N \in Nat, NEW S, NEW base \in S, NEW step \in Steps(1..N, S)
  PROVE  \E f : RecursiveUpTo(N, f, S, base, step)
<1> DEFINE next == [p \in Nat \X S |-> IF p[1] + 1 \in 1..N THEN step[<<p[1] + 1, p[2]>>] ELSE p[2]]
<1>1. next \in Steps(Nat, S)
  <2> USE DEF Steps
  <2> SUFFICES ASSUME NEW n \in Nat, NEW s \in S, n + 1 \in 1..N
               PROVE  step[<<n + 1, s>>] \in S
    OBVIOUS
  <2>1. <<n + 1, s>> \in (1..N) \X S
    OBVIOUS
  <2> QED
    BY <2>1
<1>2. ASSUME NEW n \in 1..N, NEW s \in S
      PROVE  next[<<n - 1, s>>] = step[<<n, s>>]
  <2>1. n - 1 \in Nat /\ (n - 1) + 1 = n
    OBVIOUS
  <2>2. <<n - 1, s>> \in Nat \X S
    BY <2>1
  <2> QED
    BY <2>1, <2>2
<1> HIDE DEF next
<1>3. PICK f \in [Nat -> S] : f[0] = base /\ \A n \in Nat : f[n + 1] = next[<<n, f[n]>>]
  <2>1. \E f : Recursive(f, S, base, next)
    BY <1>1, Recursion
  <2> QED
    BY <2>1 DEF Recursive
<1> DEFINE g == [n \in 0..N |-> f[n]]
<1>4. g \in [0..N -> S] /\ g[0] = base
  BY <1>3
<1>5. ASSUME NEW n \in 1..N PROVE g[n] = step[<<n, g[n - 1]>>]
  <2>1. n - 1 \in Nat /\ (n - 1) + 1 = n /\ n - 1 \in 0..N /\ n \in 0..N
    OBVIOUS
  <2>2. f[n] = next[<<n - 1, f[n - 1]>>]
    BY <1>3, <2>1
  <2> QED
    BY <1>2, <2>1, <2>2
<1> HIDE DEF g
<1>6. RecursiveUpTo(N, g, S, base, step)
  BY <1>4, <1>5 DEF RecursiveUpTo
<1> QED
  BY <1>6

\* Induction from the end of 1..N.
LEMMA BackwardInduction ==
  ASSUME NEW N \in Nat, NEW T,
         \A p \in 1..N : (\A q \in (p + 1)..N : q \in T) => p \in T
  PROVE  \A p \in 1..N : p \in T
<1> DEFINE missing == (1..N) \ T
<1> SUFFICES ASSUME missing # {} PROVE FALSE
  OBVIOUS
<1>1. missing \in SUBSET Nat /\ \A n \in missing : n <= N
  OBVIOUS
<1> HIDE DEF missing
<1>2. PICK n \in missing : \A m \in missing : m <= n
  BY <1>1, Greatest
<1>3. \A q \in (n + 1)..N : q \in T
  BY <1>1, <1>2 DEF missing
<1> QED
  BY <1>2, <1>3 DEF missing

\* f is what base, step and jump define on 1..N: base where the recursion
\* stops, elsewhere a step from the value further on that jump names.
Backward(N, f, S, Stop, jump, base, step) ==
  /\ f \in [1..N -> S]
  /\ \A p \in 1..N : f[p] = IF p \in Stop THEN base ELSE step[<<p, f[jump[p]]>>]

\* Recursion from the end of 1..N.
LEMMA BackwardRecursion ==
  ASSUME NEW N \in Nat, NEW S, NEW base \in S, NEW Stop, NEW jump,
         \A p \in 1..N : p \notin Stop => jump[p] \in (p + 1)..N,
         NEW step \in Steps(1..N, S)
  PROVE  \E f : Backward(N, f, S, Stop, jump, base, step)
<1> DEFINE R(f, p) == IF p \in Stop THEN base ELSE step[<<p, f[jump[p]]>>]
           T == {n \in Nat : n <= N =>
                   \E f \in [1..N -> S] : \A p \in 1..N : p > N - n => f[p] = R(f, p)}
<1>1. ASSUME NEW f \in [1..N -> S], NEW p \in 1..N
      PROVE  R(f, p) \in S
  <2>1. CASE p \in Stop
    BY <2>1
  <2>2. CASE p \notin Stop
    <3>1. jump[p] \in 1..N
      BY <2>2
    <3>2. <<p, f[jump[p]]>> \in (1..N) \X S
      BY <3>1
    <3> QED
      BY <2>2, <3>2 DEF Steps
  <2> QED
    BY <2>1, <2>2
<1>2. ASSUME NEW f \in [1..N -> S], NEW g \in [1..N -> S], NEW p \in 1..N,
             \A q \in (p + 1)..N : f[q] = g[q]
      PROVE  R(f, p) = R(g, p)
  BY <1>2
<1> HIDE DEF R
<1>3. 0 \in T
  <2> DEFINE f == [p \in 1..N |-> base]
  <2>1. f \in [1..N -> S]
    OBVIOUS
  <2> HIDE DEF f
  <2>2. \A p \in 1..N : ~(p > N - 0)
    OBVIOUS
  <2> QED
    BY <2>1, <2>2
<1>4. ASSUME NEW n \in T PROVE n + 1 \in T
  <2> SUFFICES ASSUME n + 1 <= N
               PROVE  \E f \in [1..N -> S] : \A p \in 1..N : p > N - (n + 1) => f[p] = R(f, p)
    OBVIOUS
  <2>1. PICK f \in [1..N -> S] : \A p \in 1..N : p > N - n => f[p] = R(f, p)
    OBVIOUS
  <2> DEFINE q == N - n
             g == [f EXCEPT ![q] = R(f, q)]
  <2>2. q \in 1..N /\ n \in Nat
    OBVIOUS
  <2>3. g \in [1..N -> S] /\ g[q] = R(f, q) /\ \A p \in 1..N : p # q => g[p] = f[p]
    BY <1>1, <2>2
  <2> HIDE DEF g, T
  <2>4. ASSUME NEW p \in 1..N, p > N - (n + 1) PROVE g[p] = R(g, p)
    <3>1. p >= q /\ \A r \in (p + 1)..N : r \in 1..N /\ r # q
      BY <2>4, <2>2
    <3>2. \A r \in (p + 1)..N : f[r] = g[r]
      BY <3>1, <2>3
    <3>3. R(f, p) = R(g, p)
      BY <3>2, <2>3, <1>2
    <3>4. CASE p = q
      BY <3>3, <3>4, <2>3
    <3>5. CASE p # q
      <4>1. p > N - n
        BY <3>1, <3>5, <2>2
      <4> QED
        BY <4>1, <3>3, <3>5, <2>1, <2>3
    <3> QED
      BY <3>4, <3>5
  <2> QED
    BY <2>3, <2>4
<1>5. T \in SUBSET Nat
  OBVIOUS
<1>6. N \in T
  <2> HIDE DEF T
  <2> QED
    BY <1>3, <1>4, <1>5, Induct
<1>7. PICK f \in [1..N -> S] : \A p \in 1..N : f[p] = R(f, p)
  BY <1>6
<1> QED
  BY <1>7 DEF Backward, R

\* What the function that filters the first n elements of raw is, in terms of
\* itself.
FilterRule(g, raw, bad) ==
  [n \in 0..Len(raw) |->
     IF n = 0 THEN <<>>
     ELSE IF raw[n] \notin bad THEN Append(g[n - 1], raw[n]) ELSE g[n - 1]]

\* There is such a function.
LEMMA FilterExists ==
  ASSUME NEW S, NEW raw \in Seq(S), NEW bad
  PROVE  \E f : f = FilterRule(f, raw, bad)
<1> DEFINE N == Len(raw)
           step == [p \in (1..N) \X Seq(S) |->
                      IF raw[p[1]] \notin bad THEN Append(p[2], raw[p[1]]) ELSE p[2]]
<1>1. N \in Nat /\ (\A n \in 1..N : raw[n] \in S) /\ <<>> \in Seq(S)
  OBVIOUS
<1> HIDE DEF N
<1>2. step \in [(1..N) \X Seq(S) -> Seq(S)]
  <2> SUFFICES ASSUME NEW n \in 1..N, NEW s \in Seq(S)
               PROVE  (IF raw[n] \notin bad THEN Append(s, raw[n]) ELSE s) \in Seq(S)
    OBVIOUS
  <2> QED
    BY <1>1
<1>3. ASSUME NEW n \in 1..N, NEW s \in Seq(S)
      PROVE  step[<<n, s>>] = IF raw[n] \notin bad THEN Append(s, raw[n]) ELSE s
  OBVIOUS
<1> HIDE DEF step
<1>4. PICK f \in [0..N -> Seq(S)] :
        f[0] = <<>> /\ \A n \in 1..N : f[n] = step[<<n, f[n - 1]>>]
  <2>1. step \in Steps(1..N, Seq(S))
    BY <1>2 DEF Steps
  <2>2. \E f : RecursiveUpTo(N, f, Seq(S), <<>>, step)
    BY <1>1, <2>1, BoundedRecursion
  <2> QED
    BY <2>2 DEF RecursiveUpTo
<1>5. ASSUME NEW n \in 0..N
      PROVE  f[n] = IF n = 0 THEN <<>>
                    ELSE IF raw[n] \notin bad THEN Append(f[n - 1], raw[n]) ELSE f[n - 1]
  <2>1. CASE n = 0
    BY <2>1, <1>1, <1>4
  <2>2. CASE n # 0
    <3>1. n \in 1..N /\ n - 1 \in 0..N
      BY <2>2, <1>1
    <3>2. f[n - 1] \in Seq(S)
      BY <3>1
    <3> QED
      BY <3>1, <3>2, <2>2, <1>3, <1>4
  <2> QED
    BY <2>1, <2>2
<1>6. f = FilterRule(f, raw, bad)
  BY <1>5 DEF FilterRule, N
<1> QED
  BY <1>6

\* Its values are sequences of what has been filtered, no longer than that.
LEMMA Filtering ==
  ASSUME NEW S, NEW raw \in Seq(S), NEW bad, NEW upto, upto = FilterRule(upto, raw, bad)
  PROVE  /\ upto[0] = <<>>
         /\ \A n \in 1..Len(raw) :
              upto[n] = IF raw[n] \notin bad THEN Append(upto[n - 1], raw[n]) ELSE upto[n - 1]
         /\ \A n \in 0..Len(raw) : upto[n] \in Seq(S) /\ Len(upto[n]) \in 0..n
<1> DEFINE N == Len(raw)
<1>1. N \in Nat /\ (\A n \in 1..N : raw[n] \in S) /\ <<>> \in Seq(S) /\ Len(<<>>) = 0
  OBVIOUS
<1>2. ASSUME NEW n \in 0..N
      PROVE  upto[n] = IF n = 0 THEN <<>>
               ELSE IF raw[n] \notin bad THEN Append(upto[n - 1], raw[n]) ELSE upto[n - 1]
  BY DEF FilterRule
<1> HIDE DEF N
<1>3. /\ upto[0] = <<>>
      /\ \A n \in 1..N :
           upto[n] = IF raw[n] \notin bad THEN Append(upto[n - 1], raw[n]) ELSE upto[n - 1]
  BY <1>1, <1>2
<1> DEFINE T == {n \in Nat : n <= N => upto[n] \in Seq(S) /\ Len(upto[n]) \in 0..n}
<1>4. 0 \in T
  <2>1. upto[0] \in Seq(S) /\ Len(upto[0]) = 0
    BY <1>1, <1>3
  <2> QED
    BY <2>1
<1>5. ASSUME NEW n \in T PROVE n + 1 \in T
  <2> SUFFICES ASSUME n + 1 <= N
               PROVE  upto[n + 1] \in Seq(S) /\ Len(upto[n + 1]) \in 0..(n + 1)
    OBVIOUS
  <2>1. n \in Nat /\ n + 1 \in 1..N /\ (n + 1) - 1 = n
    BY <1>1
  <2>2. upto[n] \in Seq(S) /\ Len(upto[n]) \in 0..n /\ raw[n + 1] \in S
    BY <1>1, <2>1
  <2> HIDE DEF T
  <2>3. upto[n + 1] = IF raw[n + 1] \notin bad THEN Append(upto[n], raw[n + 1]) ELSE upto[n]
    BY <1>3, <2>1
  <2> QED
    BY <2>1, <2>2, <2>3
<1> HIDE DEF T
<1>6. T = Nat
  BY <1>4, <1>5, Induct DEF T
<1> QED
  BY <1>1, <1>3, <1>6 DEF N, T

-----------------------------------------------------------------------------
(***************************************************************************)
(* Sequences in parts.                                                     *)
(***************************************************************************)

\* Two sequences, one behind the other.
LEMMA Joined ==
  ASSUME NEW S, NEW a \in Seq(S), NEW b \in Seq(S)
  PROVE  /\ a \o b \in Seq(S)
         /\ Len(a) \in Nat /\ Len(b) \in Nat
         /\ Len(a \o b) = Len(a) + Len(b)
         /\ \A i \in 1..Len(a) : (a \o b)[i] = a[i]
         /\ \A i \in 1..Len(b) : (a \o b)[Len(a) + i] = b[i]
<1> DEFINE c == a \o b
<1>1. /\ c \in Seq(S) /\ Len(c) = Len(a) + Len(b)
      /\ \A i \in 1..(Len(a) + Len(b)) : c[i] = IF i <= Len(a) THEN a[i] ELSE b[i - Len(a)]
  BY ConcatProperties
<1> HIDE DEF c
<1>2. Len(a) \in Nat /\ Len(b) \in Nat
  OBVIOUS
<1>3. \A i \in 1..Len(a) : c[i] = a[i]
  BY <1>1, <1>2
<1>4. \A i \in 1..Len(b) : c[Len(a) + i] = b[i]
  <2> SUFFICES ASSUME NEW i \in 1..Len(b) PROVE c[Len(a) + i] = b[i]
    OBVIOUS
  <2>1. Len(a) + i \in 1..(Len(a) + Len(b)) /\ ~(Len(a) + i <= Len(a)) /\ Len(a) + i - Len(a) = i
    BY <1>2
  <2> QED
    BY <2>1, <1>1
<1> QED
  BY <1>1, <1>2, <1>3, <1>4 DEF c

\* An element of two sequences is one of the first or of the second.
LEMMA JoinedAt ==
  ASSUME NEW S, NEW a \in Seq(S), NEW b \in Seq(S), NEW m \in 1..Len(a \o b)
  PROVE  \/ m \in 1..Len(a) /\ (a \o b)[m] = a[m]
         \/ \E j \in 1..Len(b) : m = Len(a) + j /\ (a \o b)[m] = b[j]
<1> DEFINE c == a \o b
<1>1. /\ Len(a) \in Nat /\ Len(b) \in Nat /\ Len(c) = Len(a) + Len(b) /\ m \in 1..Len(c)
      /\ \A i \in 1..Len(a) : c[i] = a[i]
      /\ \A i \in 1..Len(b) : c[Len(a) + i] = b[i]
  BY Joined
<1> HIDE DEF c
<1>2. CASE m <= Len(a)
  BY <1>1, <1>2 DEF c
<1>3. CASE m > Len(a)
  <2>1. m - Len(a) \in 1..Len(b) /\ m = Len(a) + (m - Len(a))
    BY <1>1, <1>3
  <2>2. c[Len(a) + (m - Len(a))] = b[m - Len(a)]
    BY <1>1, <2>1
  <2> QED
    BY <2>1, <2>2 DEF c
<1> QED
  BY <1>1, <1>2, <1>3

\* A sequence in two parts.
LEMMA Parted ==
  ASSUME NEW S, NEW s \in Seq(S), NEW n \in 0..Len(s)
  PROVE  /\ SubSeq(s, 1, n) \in Seq(S) /\ Len(SubSeq(s, 1, n)) = n
         /\ \A i \in 1..n : SubSeq(s, 1, n)[i] = s[i]
         /\ SubSeq(s, n + 1, Len(s)) \in Seq(S) /\ Len(SubSeq(s, n + 1, Len(s))) = Len(s) - n
         /\ \A i \in 1..(Len(s) - n) : SubSeq(s, n + 1, Len(s))[i] = s[n + i]
         /\ SubSeq(s, 1, n) \o SubSeq(s, n + 1, Len(s)) = s
<1>1. Len(s) \in Nat /\ n \in Nat /\ n <= Len(s)
  OBVIOUS
<1>2. /\ SubSeq(s, 1, n) \in Seq(S) /\ Len(SubSeq(s, 1, n)) = n
      /\ \A i \in 1..n : SubSeq(s, 1, n)[i] = s[i]
      /\ SubSeq(s, n + 1, Len(s)) \in Seq(S) /\ Len(SubSeq(s, n + 1, Len(s))) = Len(s) - n
      /\ \A i \in 1..(Len(s) - n) : SubSeq(s, n + 1, Len(s))[i] = s[n + i]
  BY <1>1
<1>3. SubSeq(s, 1, n) \o SubSeq(s, n + 1, Len(s)) = SubSeq(s, 1, Len(s))
  <2>1. 1 \in 1..(Len(s) + 1) /\ n \in (1 - 1)..Len(s) /\ Len(s) \in n..Len(s)
    BY <1>1
  <2> QED
    BY <2>1, ConcatAdjacentSubSeq
<1> QED
  BY <1>2, <1>3, SubSeqFull

-----------------------------------------------------------------------------
(***************************************************************************)
(* Counting.                                                               *)
(***************************************************************************)

\* A set that is numbered without repetition; another grows by as much when
\* none of its elements are new to it.
LEMMA Grown ==
  ASSUME NEW n \in Nat, NEW T, NEW f \in Bijection(1..n, T)
  PROVE  /\ IsFiniteSet(T) /\ Cardinality(T) = n
         /\ \A S : IsFiniteSet(S) /\ S \cap T = {} =>
              IsFiniteSet(S \cup T) /\ Cardinality(S \cup T) = Cardinality(S) + n
<1>3. IsFiniteSet(1..n) /\ Cardinality(1..n) = n
  <2>1. n \in Int /\ 1 \in Int
    OBVIOUS
  <2>2. IsFiniteSet(1..n) /\ Cardinality(1..n) = IF 1 > n THEN 0 ELSE n - 1 + 1
    BY <2>1, FS_Interval
  <2> QED
    BY <2>2
<1>4. IsFiniteSet(T) /\ Cardinality(T) = n
  <2>1. ExistsBijection(1..n, T)
    BY DEF ExistsBijection
  <2> QED
    BY <1>3, <2>1, FS_Bijection
<1>5. ASSUME NEW S, IsFiniteSet(S), S \cap T = {}
      PROVE  IsFiniteSet(S \cup T) /\ Cardinality(S \cup T) = Cardinality(S) + n
  <2>2. /\ IsFiniteSet(S \cup T)
        /\ Cardinality(S \cup T) = Cardinality(S) + Cardinality(T) - Cardinality(S \cap T)
    BY <1>4, <1>5, FS_Union
  <2>3. Cardinality(S) \in Nat /\ Cardinality(S \cap T) = 0
    BY <1>5, FS_CardinalityType, FS_EmptySet
  <2> DEFINE c == Cardinality(S \cup T)
             k == Cardinality(S)
  <2>4. c = k + n - 0 /\ k \in Nat
    BY <1>4, <2>2, <2>3
  <2> HIDE DEF c, k
  <2>5. c = k + n
    BY <2>4
  <2> QED
    BY <2>2, <2>5 DEF c, k
<1> QED
  BY <1>4, <1>5
-----------------------------------------------------------------------------
(* FlattenSeq.                                                             *)

\* What the function behind FlattenSeq is, in terms of itself.
FlattenRule(g, seqs) ==
  [i \in 1..Len(seqs) |-> IF i = 1 THEN seqs[i] ELSE g[i - 1] \o seqs[i]]

\* f[n] are the first n sequences, one behind the other.
Flattens(f, S, seqs) ==
  /\ f \in [0..Len(seqs) -> Seq(S)]
  /\ f[0] = <<>>
  /\ \A n \in 1..Len(seqs) : f[n] = f[n - 1] \o seqs[n]

\* There is such a function, and FlattenSeq is its last value.
LEMMA FlattenIs ==
  ASSUME NEW S, NEW seqs \in Seq(Seq(S))
  PROVE  \E f : Flattens(f, S, seqs) /\ f[Len(seqs)] = FlattenSeq(seqs)
<1> DEFINE N == Len(seqs)
           step == [p \in (1..N) \X Seq(S) |-> p[2] \o seqs[p[1]]]
<1>1. N \in Nat /\ (\A n \in 1..N : seqs[n] \in Seq(S)) /\ <<>> \in Seq(S)
  OBVIOUS
<1> HIDE DEF N
<1>2. step \in [(1..N) \X Seq(S) -> Seq(S)]
  <2> SUFFICES ASSUME NEW n \in 1..N, NEW s \in Seq(S)
               PROVE  s \o seqs[n] \in Seq(S)
    OBVIOUS
  <2>1. seqs[n] \in Seq(S)
    BY <1>1
  <2> QED
    BY <2>1
<1>3. \A n \in 1..N, s \in Seq(S) : step[<<n, s>>] = s \o seqs[n]
  OBVIOUS
<1> HIDE DEF step
<1>4. PICK f \in [0..N -> Seq(S)] :
        f[0] = <<>> /\ \A n \in 1..N : f[n] = step[<<n, f[n - 1]>>]
  <2>1. step \in Steps(1..N, Seq(S))
    BY <1>2 DEF Steps
  <2>2. \E f : RecursiveUpTo(N, f, Seq(S), <<>>, step)
    BY <1>1, <2>1, BoundedRecursion
  <2> QED
    BY <2>2 DEF RecursiveUpTo
<1>5. ASSUME NEW n \in 1..N PROVE f[n - 1] \in Seq(S) /\ f[n] = f[n - 1] \o seqs[n]
  <2>1. n - 1 \in 0..N
    BY <1>1
  <2>2. f[n - 1] \in Seq(S)
    BY <2>1
  <2> QED
    BY <2>2, <1>3, <1>4
<1>6. Flattens(f, S, seqs)
  BY <1>4, <1>5 DEF Flattens, N
<1> DEFINE g == [i \in 1..N |-> f[i]]
           h == CHOOSE flatten : flatten = FlattenRule(flatten, seqs)
<1>7. g = FlattenRule(g, seqs)
  <2>1. ASSUME NEW i \in 1..N PROVE f[i] = IF i = 1 THEN seqs[i] ELSE g[i - 1] \o seqs[i]
    <3>1. CASE i = 1
      <4>0. 1 \in 1..N /\ 1 - 1 = 0
        BY <1>1, <3>1
      <4>1. f[1] = f[0] \o seqs[1] /\ 1 \in 1..N
        BY <1>5, <4>0
      <4>2. seqs[1] \in Seq(S) /\ f[1] = <<>> \o seqs[1]
        BY <4>1, <1>1, <1>4
      <4>3. <<>> \o seqs[1] = seqs[1]
        BY <4>2
      <4> QED
        BY <3>1, <4>2, <4>3
    <3>2. CASE i # 1
      <4>1. i - 1 \in 1..N
        BY <1>1, <3>2
      <4>2. g[i - 1] = f[i - 1]
        BY <4>1
      <4> QED
        BY <3>2, <4>2, <1>5
    <3> QED
      BY <3>1, <3>2
  <2> QED
    BY <2>1 DEF FlattenRule, N
<1>8. h = FlattenRule(h, seqs)
  <2>1. \E flatten : flatten = FlattenRule(flatten, seqs)
    BY <1>7
  <2> QED
    BY <2>1
<1>9. Len(seqs) # 0 => FlattenSeq(seqs) = h[Len(seqs)]
  BY DEF FlattenSeq, FlattenRule
<1> HIDE DEF g, h
<1>10. ASSUME NEW i \in 1..N PROVE h[i] = IF i = 1 THEN seqs[i] ELSE h[i - 1] \o seqs[i]
  BY <1>8 DEF FlattenRule, N
<1> DEFINE T == {n \in Nat : n + 1 <= N => h[n + 1] = f[n + 1]}
<1>11. 0 \in T
  <2> SUFFICES ASSUME 1 <= N PROVE h[1] = f[1]
    OBVIOUS
  <2>1. 1 \in 1..N /\ 1 - 1 = 0
    BY <1>1
  <2>2. f[1] = <<>> \o seqs[1] /\ seqs[1] \in Seq(S) /\ h[1] = seqs[1]
    BY <2>1, <1>1, <1>4, <1>5, <1>10
  <2> QED
    BY <2>2
<1>12. ASSUME NEW n \in T PROVE n + 1 \in T
  <2> SUFFICES ASSUME n + 1 + 1 <= N PROVE h[n + 1 + 1] = f[n + 1 + 1]
    OBVIOUS
  <2>1. n \in Nat /\ n + 1 <= N /\ h[n + 1] = f[n + 1]
    BY <1>1
  <2>2. n + 1 + 1 \in 1..N /\ n + 1 + 1 # 1 /\ (n + 1 + 1) - 1 = n + 1
    BY <1>1, <2>1
  <2>3. h[n + 1 + 1] = h[n + 1] \o seqs[n + 1 + 1] /\ f[n + 1 + 1] = f[n + 1] \o seqs[n + 1 + 1]
    BY <2>2, <1>5, <1>10
  <2> QED
    BY <2>1, <2>3
<1> HIDE DEF T
<1>13. T = Nat
  BY <1>11, <1>12, Induct DEF T
<1>14. f[N] = FlattenSeq(seqs)
  <2>1. CASE N = 0
    <3>1. FlattenSeq(seqs) = seqs
      BY <2>1 DEF FlattenSeq, N
    <3>2. seqs = <<>>
      BY <2>1 DEF N
    <3> QED
      BY <2>1, <3>1, <3>2, <1>4
  <2>2. CASE N # 0
    <3>1. N - 1 \in T /\ N - 1 + 1 = N /\ N <= N
      BY <1>1, <1>13, <2>2
    <3>2. h[N] = f[N]
      BY <3>1 DEF T
    <3> QED
      BY <2>2, <3>2, <1>9 DEF N
  <2> QED
    BY <2>1, <2>2
<1> QED
  BY <1>6, <1>14 DEF N

\* Two such functions agree as far as their sequences do.
LEMMA FlattenAgree ==
  ASSUME NEW S, NEW s, NEW t, NEW f, NEW g, Flattens(f, S, s), Flattens(g, S, t)
  PROVE  \A n \in Nat : n \in 0..Len(s) /\ n \in 0..Len(t) /\ (\A i \in 1..n : s[i] = t[i])
           => f[n] = g[n]
<1> SUFFICES ASSUME NEW n \in Nat, n \in 0..Len(s), n \in 0..Len(t), \A i \in 1..n : s[i] = t[i]
             PROVE  f[n] = g[n]
  OBVIOUS
<1> DEFINE T == {i \in Nat : i <= n => f[i] = g[i]}
<1>1. 0 \in T
  BY DEF Flattens
<1>2. ASSUME NEW i \in T PROVE i + 1 \in T
  <2> SUFFICES ASSUME i + 1 <= n PROVE f[i + 1] = g[i + 1]
    OBVIOUS
  <2>1. i \in Nat /\ i <= n /\ f[i] = g[i]
    OBVIOUS
  <2>2. i + 1 \in 1..n /\ i + 1 \in 1..Len(s) /\ i + 1 \in 1..Len(t) /\ (i + 1) - 1 = i
    BY <2>1
  <2>3. f[i + 1] = f[i] \o s[i + 1] /\ g[i + 1] = g[i] \o t[i + 1]
    BY <2>2 DEF Flattens
  <2> QED
    BY <2>1, <2>2, <2>3
<1> HIDE DEF T
<1>3. T = Nat
  BY <1>1, <1>2, Induct DEF T
<1> QED
  BY <1>3 DEF T

\* What is flattened is a sequence.
LEMMA FlattenIn ==
  ASSUME NEW S, NEW seqs \in Seq(Seq(S))
  PROVE  FlattenSeq(seqs) \in Seq(S)
<1>1. PICK f : Flattens(f, S, seqs) /\ f[Len(seqs)] = FlattenSeq(seqs)
  BY FlattenIs
<1>2. Len(seqs) \in 0..Len(seqs)
  OBVIOUS
<1> QED
  BY <1>1, <1>2 DEF Flattens

\* One more sequence is put behind the others.
LEMMA FlattenOneMore ==
  ASSUME NEW S, NEW seqs \in Seq(Seq(S)), NEW more \in Seq(Seq(S)), NEW n \in Nat,
         Len(seqs) = n, Len(more) = n + 1, \A i \in 1..n : more[i] = seqs[i]
  PROVE  FlattenSeq(seqs) \in Seq(S) /\ FlattenSeq(more) = FlattenSeq(seqs) \o more[n + 1]
<1>1. PICK f : Flattens(f, S, seqs) /\ f[Len(seqs)] = FlattenSeq(seqs)
  BY FlattenIs
<1>2. PICK g : Flattens(g, S, more) /\ g[Len(more)] = FlattenSeq(more)
  BY FlattenIs
<1>3. n \in 0..Len(seqs) /\ n \in 0..Len(more)
  OBVIOUS
<1>4. \A k \in Nat : k \in 0..Len(seqs) /\ k \in 0..Len(more) /\ (\A i \in 1..k : seqs[i] = more[i])
        => f[k] = g[k]
  BY ONLY <1>1, <1>2, FlattenAgree
<1>5. f[n] = g[n]
  BY <1>3, <1>4
<1>6. n \in 0..Len(seqs) /\ n + 1 \in 1..Len(more) /\ (n + 1) - 1 = n
  OBVIOUS
<1>7. g[n + 1] = g[n] \o more[n + 1]
  BY <1>2, <1>6 DEF Flattens
<1>8. f[n] \in Seq(S)
  BY <1>1, <1>6 DEF Flattens
<1> QED
  BY <1>1, <1>2, <1>5, <1>7, <1>8

\* The same, for a sequence that is appended.
LEMMA FlattenAppend ==
  ASSUME NEW S, NEW seqs \in Seq(Seq(S)), NEW s \in Seq(S)
  PROVE  /\ FlattenSeq(seqs) \in Seq(S)
         /\ FlattenSeq(Append(seqs, s)) = FlattenSeq(seqs) \o s
<1> DEFINE more == Append(seqs, s)
<1>1. PICK n \in Nat : n = Len(seqs)
  OBVIOUS
<1>2. /\ more \in Seq(Seq(S)) /\ Len(more) = n + 1
      /\ \A i \in 1..n : more[i] = seqs[i]
      /\ more[n + 1] = s
  BY <1>1, AppendProperties
<1> HIDE DEF more
<1>3. FlattenSeq(seqs) \in Seq(S) /\ FlattenSeq(more) = FlattenSeq(seqs) \o more[n + 1]
  BY <1>1, <1>2, FlattenOneMore
<1> QED
  BY <1>2, <1>3 DEF more

\* Where the elements of a flattened sequence came from: the part, one of the
\* first n, and the place in it.
FlatUpTo(flat, seqs, n, part, place) ==
  /\ part \in [1..Len(flat) -> 1..n]
  /\ place \in [1..Len(flat) -> Nat]
  /\ \A i \in 1..Len(flat) :
       place[i] \in 1..Len(seqs[part[i]]) /\ flat[i] = seqs[part[i]][place[i]]
  /\ \A i, j \in 1..Len(flat) : part[i] = part[j] /\ place[i] = place[j] => i = j
  /\ \A p \in 1..n : \A q \in 1..Len(seqs[p]) :
       \E i \in 1..Len(flat) : part[i] = p /\ place[i] = q

\* One more part.
LEMMA FlatStep ==
  ASSUME NEW S, NEW flat \in Seq(S), NEW seqs, NEW n \in Nat, NEW part, NEW place,
         FlatUpTo(flat, seqs, n, part, place), seqs[n + 1] \in Seq(S)
  PROVE  \E more, places : FlatUpTo(flat \o seqs[n + 1], seqs, n + 1, more, places)
<1> DEFINE s == seqs[n + 1]
           new == flat \o s
           L == Len(flat)
           M == Len(s)
           more == [i \in 1..(L + M) |-> IF i <= L THEN part[i] ELSE n + 1]
           places == [i \in 1..(L + M) |-> IF i <= L THEN place[i] ELSE i - L]
<1>1. /\ L \in Nat /\ M \in Nat /\ Len(new) = L + M
      /\ \A i \in 1..L : new[i] = flat[i]
      /\ \A i \in 1..M : new[L + i] = s[i]
  BY Joined
<1>2. /\ part \in [1..L -> 1..n] /\ place \in [1..L -> Nat]
      /\ \A i \in 1..L : place[i] \in 1..Len(seqs[part[i]]) /\ flat[i] = seqs[part[i]][place[i]]
      /\ \A i, j \in 1..L : part[i] = part[j] /\ place[i] = place[j] => i = j
      /\ \A p \in 1..n : \A q \in 1..Len(seqs[p]) : \E i \in 1..L : part[i] = p /\ place[i] = q
  BY DEF FlatUpTo
<1>3. Len(seqs[n + 1]) = M /\ seqs[n + 1] = s
  OBVIOUS
<1> HIDE DEF new, L, M, s
<1>4. \A i \in 1..L : i \in 1..(L + M) /\ i <= L /\ part[i] \in 1..n /\ place[i] \in Nat
  BY <1>1, <1>2
<1>5. \A i \in 1..L : more[i] = part[i] /\ places[i] = place[i]
  BY <1>4
<1>6. \A i \in 1..M : L + i \in 1..(L + M) /\ ~(L + i <= L) /\ (L + i) - L = i
  BY <1>1
<1>7. \A i \in 1..M : more[L + i] = n + 1 /\ places[L + i] = i
  BY <1>6
<1>8. ASSUME NEW i \in 1..(L + M) PROVE i \in 1..L \/ \E k \in 1..M : i = L + k
  <2>1. CASE i <= L
    BY <1>1, <2>1
  <2>2. CASE ~(i <= L)
    <3>1. i - L \in 1..M /\ i = L + (i - L)
      BY <1>1, <2>2
    <3> QED
      BY <3>1
  <2> QED
    BY <2>1, <2>2
<1>9. more \in [1..(L + M) -> 1..(n + 1)] /\ places \in [1..(L + M) -> Nat]
  <2>1. ASSUME NEW i \in 1..(L + M)
        PROVE  /\ (IF i <= L THEN part[i] ELSE n + 1) \in 1..(n + 1)
               /\ (IF i <= L THEN place[i] ELSE i - L) \in Nat
    <3>1. CASE i <= L
      <4>1. i \in 1..L /\ part[i] \in 1..n /\ place[i] \in Nat
        BY <1>1, <1>4, <3>1
      <4> QED
        BY <3>1, <4>1
    <3>2. CASE ~(i <= L)
      BY <1>1, <3>2
    <3> QED
      BY <3>1, <3>2
  <2> QED
    BY <2>1
<1> HIDE DEF more, places
<1>10. ASSUME NEW i \in 1..(L + M)
       PROVE  places[i] \in 1..Len(seqs[more[i]]) /\ new[i] = seqs[more[i]][places[i]]
  <2>1. CASE i \in 1..L
    BY <1>1, <1>2, <1>5, <2>1
  <2>2. ASSUME NEW k \in 1..M, i = L + k
        PROVE  places[i] \in 1..Len(seqs[more[i]]) /\ new[i] = seqs[more[i]][places[i]]
    BY <1>1, <1>3, <1>7, <2>2
  <2> QED
    BY <1>8, <2>1, <2>2
<1>11. ASSUME NEW i \in 1..(L + M), NEW j \in 1..(L + M), more[i] = more[j], places[i] = places[j]
       PROVE  i = j
  <2>1. CASE i \in 1..L /\ j \in 1..L
    BY <1>2, <1>5, <1>11, <2>1
  <2>2. ASSUME NEW k \in 1..M, i = L + k, j \in 1..L PROVE FALSE
    <3>1. more[i] = n + 1 /\ more[j] \in 1..n
      BY <1>4, <1>5, <1>7, <2>2
    <3> QED
      BY <1>11, <3>1
  <2>3. ASSUME NEW k \in 1..M, j = L + k, i \in 1..L PROVE FALSE
    <3>1. more[j] = n + 1 /\ more[i] \in 1..n
      BY <1>4, <1>5, <1>7, <2>3
    <3> QED
      BY <1>11, <3>1
  <2>4. ASSUME NEW k \in 1..M, NEW l \in 1..M, i = L + k, j = L + l PROVE i = j
    BY <1>7, <1>11, <2>4
  <2> QED
    BY <1>8, <2>1, <2>2, <2>3, <2>4
<1>12. ASSUME NEW p \in 1..(n + 1), NEW q \in 1..Len(seqs[p])
       PROVE  \E i \in 1..(L + M) : more[i] = p /\ places[i] = q
  <2>1. CASE p \in 1..n
    <3>1. PICK i \in 1..L : part[i] = p /\ place[i] = q
      BY <1>2, <2>1
    <3> QED
      BY <1>4, <1>5, <3>1
  <2>2. CASE p = n + 1
    BY <1>3, <1>6, <1>7, <2>2
  <2>3. p \in 1..n \/ p = n + 1
    OBVIOUS
  <2> QED
    BY <2>1, <2>2, <2>3
<1>13. FlatUpTo(new, seqs, n + 1, more, places)
  BY <1>1, <1>9, <1>10, <1>11, <1>12 DEF FlatUpTo
<1> QED
  BY <1>13 DEF new, s

\* So of all elements.
LEMMA FlattenParts ==
  ASSUME NEW S, NEW seqs \in Seq(Seq(S))
  PROVE  \E part, place : FlatUpTo(FlattenSeq(seqs), seqs, Len(seqs), part, place)
<1>1. PICK f : Flattens(f, S, seqs) /\ f[Len(seqs)] = FlattenSeq(seqs)
  BY FlattenIs
<1> DEFINE N == Len(seqs)
           T == {n \in Nat : n <= N => \E part, place : FlatUpTo(f[n], seqs, n, part, place)}
<1>2. N \in Nat /\ \A n \in 1..N : seqs[n] \in Seq(S)
  OBVIOUS
<1>3. /\ f \in [0..N -> Seq(S)] /\ f[0] = <<>>
      /\ \A n \in 1..N : f[n] = f[n - 1] \o seqs[n]
  BY <1>1 DEF Flattens
<1> HIDE DEF N
<1>4. 0 \in T
  <2>1. FlatUpTo(<<>>, seqs, 0, [i \in 1..0 |-> i], [i \in 1..0 |-> i])
    <3>1. Len(<<>>) = 0 /\ 1..0 = {}
      OBVIOUS
    <3> QED
      BY <3>1 DEF FlatUpTo
  <2> QED
    BY <1>3, <2>1
<1>5. ASSUME NEW n \in T PROVE n + 1 \in T
  <2> SUFFICES ASSUME n + 1 <= N PROVE \E part, place : FlatUpTo(f[n + 1], seqs, n + 1, part, place)
    OBVIOUS
  <2>1. n \in Nat /\ n \in 0..N /\ n <= N /\ n + 1 \in 1..N /\ (n + 1) - 1 = n
    BY <1>2
  <2>2. PICK part, place : FlatUpTo(f[n], seqs, n, part, place)
    BY <2>1
  <2> HIDE DEF T
  <2>3. f[n] \in Seq(S) /\ seqs[n + 1] \in Seq(S) /\ f[n + 1] = f[n] \o seqs[n + 1]
    BY <1>2, <1>3, <2>1
  <2>4. \E more, places : FlatUpTo(f[n] \o seqs[n + 1], seqs, n + 1, more, places)
    BY <2>1, <2>2, <2>3, FlatStep
  <2> QED
    BY <2>3, <2>4
<1> HIDE DEF T
<1>6. T = Nat
  BY <1>4, <1>5, Induct DEF T
<1>7. N \in T
  BY <1>2, <1>6
<1> QED
  BY <1>1, <1>7 DEF T, N

-----------------------------------------------------------------------------
(***************************************************************************)
(* Numbers in ascending order.                                             *)
(***************************************************************************)

\* The first m numbers that are named are named in ascending order.
Ascending(e, m) ==
  e \in [1..m -> Nat] /\ \A k, l \in 1..m : k < l => e[k] < e[l]

\* The numbers e are among the numbers g.
Among(e, m, g, n) == \A k \in 1..m : \E l \in 1..n : g[l] = e[k]

\* Of numbers in ascending order, there are no fewer than of some of them.
LEMMA FewerAscend ==
  ASSUME NEW m \in Nat, NEW n \in Nat, NEW e, NEW g, Ascending(e, m), Ascending(g, n),
         Among(e, m, g, n)
  PROVE  m <= n /\ \A k \in 1..m : k \in 1..n /\ g[k] <= e[k]
<1>1. /\ \A k \in 1..m : e[k] \in Nat
      /\ \A l \in 1..n : g[l] \in Nat
      /\ \A k, l \in 1..m : k < l => e[k] < e[l]
      /\ \A k, l \in 1..n : k < l => g[k] < g[l]
  BY DEF Ascending
<1> DEFINE T == {k \in Nat : k \in 1..m => \A l \in 1..n : g[l] = e[k] => k <= l}
<1>2. 0 \in T
  OBVIOUS
<1>3. ASSUME NEW k \in T PROVE k + 1 \in T
  <2> SUFFICES ASSUME k + 1 \in 1..m, NEW l \in 1..n, g[l] = e[k + 1] PROVE k + 1 <= l
    OBVIOUS
  <2>1. k \in Nat
    OBVIOUS
  <2>2. CASE k = 0
    BY <2>2
  <2>3. CASE k # 0
    <3>1. k \in 1..m /\ k < k + 1
      BY <2>1, <2>3
    <3>2. PICK j \in 1..n : g[j] = e[k]
      BY <3>1 DEF Among
    <3>3. k <= j
      BY <3>1, <3>2
    <3>4. g[j] < g[l]
      BY <1>1, <3>1, <3>2
    <3>5. ~(l <= j)
      BY <1>1, <3>4
    <3> QED
      BY <2>1, <3>3, <3>5
  <2> QED
    BY <2>2, <2>3
<1> HIDE DEF T
<1>4. T = Nat
  BY <1>2, <1>3, Induct DEF T
<1>5. ASSUME NEW k \in 1..m PROVE k \in 1..n /\ g[k] <= e[k]
  <2>1. PICK l \in 1..n : g[l] = e[k]
    BY DEF Among
  <2>2. k <= l
    <3>1. k \in T
      BY <1>4
    <3> QED
      BY <2>1, <3>1 DEF T
  <2>3. k \in 1..n
    BY <2>2
  <2> QED
    BY <1>1, <2>1, <2>2, <2>3
<1>6. m <= n
  <2>1. CASE m = 0
    BY <2>1
  <2>2. CASE m # 0
    BY <1>5, <2>2
  <2> QED
    BY <2>1, <2>2
<1> QED
  BY <1>5, <1>6

\* There is only one ascending order.
LEMMA SameAscending ==
  ASSUME NEW m \in Nat, NEW n \in Nat, NEW e, NEW g, Ascending(e, m), Ascending(g, n),
         Among(e, m, g, n), Among(g, n, e, m)
  PROVE  m = n /\ \A k \in 1..m : e[k] = g[k]
<1>1. m <= n /\ \A k \in 1..m : k \in 1..n /\ g[k] <= e[k]
  BY FewerAscend
<1>2. n <= m /\ \A k \in 1..n : k \in 1..m /\ e[k] <= g[k]
  BY FewerAscend
<1>3. m = n
  BY <1>1, <1>2
<1>4. \A k \in 1..m : e[k] \in Nat /\ g[k] \in Nat
  BY <1>3 DEF Ascending
<1> QED
  BY <1>1, <1>2, <1>3, <1>4

-----------------------------------------------------------------------------
(***************************************************************************)
(* FoldLeft.  It folds over the positions of a sequence: the function      *)
(* behind it is defined on the sets of positions, and takes the greatest   *)
(* position of a set as the last one.                                      *)
(***************************************************************************)

\* f[n] is the fold over the positions up to n that are in s.
PartFold(f, s, N, S, base, step) ==
  /\ f \in [0..N -> S]
  /\ f[0] = base
  /\ \A n \in 1..N : f[n] = IF n \in s THEN step[<<n, f[n - 1]>>] ELSE f[n - 1]

\* There is such a function.
LEMMA PartFoldExists ==
  ASSUME NEW N \in Nat, NEW S, NEW base \in S, NEW step \in Steps(1..N, S), NEW s
  PROVE  \E f : PartFold(f, s, N, S, base, step)
<1> DEFINE skip == [p \in (1..N) \X S |-> IF p[1] \in s THEN step[p] ELSE p[2]]
<1>1. ASSUME NEW n \in 1..N, NEW x \in S
      PROVE  /\ <<n, x>> \in (1..N) \X S
             /\ skip[<<n, x>>] = IF n \in s THEN step[<<n, x>>] ELSE x
             /\ step[<<n, x>>] \in S
  BY DEF Steps
<1>2. skip \in Steps(1..N, S)
  BY DEF Steps
<1> HIDE DEF skip
<1>3. PICK f : RecursiveUpTo(N, f, S, base, skip)
  BY <1>2, BoundedRecursion
<1>4. ASSUME NEW n \in 1..N
      PROVE  f[n] = IF n \in s THEN step[<<n, f[n - 1]>>] ELSE f[n - 1]
  <2>1. f[n - 1] \in S /\ f[n] = skip[<<n, f[n - 1]>>]
    BY <1>3 DEF RecursiveUpTo
  <2> QED
    BY <1>1, <2>1
<1>5. PartFold(f, s, N, S, base, step)
  BY <1>3, <1>4 DEF RecursiveUpTo, PartFold
<1> QED
  BY <1>5

\* Where no position is in s the fold stays as it is.
LEMMA PartFoldRests ==
  ASSUME NEW N \in Nat, NEW S, NEW base, NEW step, NEW s, NEW f, NEW m \in 0..N,
         PartFold(f, s, N, S, base, step), \A k \in (m + 1)..N : k \notin s
  PROVE  f[N] = f[m]
<1> DEFINE T == {n \in Nat : n \in m..N => f[n] = f[m]}
<1>1. 0 \in T
  <2>1. 0 \in m..N => m = 0
    OBVIOUS
  <2> QED
    BY <2>1
<1>2. ASSUME NEW n \in T PROVE n + 1 \in T
  <2> SUFFICES ASSUME n + 1 \in m..N PROVE f[n + 1] = f[m]
    OBVIOUS
  <2>1. CASE n + 1 = m
    BY <2>1
  <2>2. CASE n + 1 # m
    <3>1. n \in m..N /\ n + 1 \in (m + 1)..N /\ n + 1 \in 1..N /\ (n + 1) - 1 = n
      BY <2>2
    <3>2. f[n] = f[m] /\ n + 1 \notin s
      BY <3>1
    <3>3. f[n + 1] = f[n]
      BY <3>1, <3>2 DEF PartFold
    <3> QED
      BY <3>2, <3>3
  <2> QED
    BY <2>1, <2>2
<1> HIDE DEF T
<1>3. T = Nat
  BY <1>1, <1>2, Induct DEF T
<1>4. N \in T /\ N \in m..N
  BY <1>3
<1> QED
  BY <1>4 DEF T

\* The folds over two sets agree as far as the sets do.
LEMMA PartFoldsAgree ==
  ASSUME NEW N \in Nat, NEW S, NEW base, NEW step, NEW s, NEW t, NEW f, NEW h, NEW m \in 0..N,
         PartFold(f, s, N, S, base, step), PartFold(h, t, N, S, base, step),
         \A k \in 1..m : k \in s <=> k \in t
  PROVE  f[m] = h[m]
<1> DEFINE T == {n \in Nat : n <= m => f[n] = h[n]}
<1>1. 0 \in T
  BY DEF PartFold
<1>2. ASSUME NEW n \in T PROVE n + 1 \in T
  <2> SUFFICES ASSUME n + 1 <= m PROVE f[n + 1] = h[n + 1]
    OBVIOUS
  <2>1. n + 1 \in 1..m /\ n + 1 \in 1..N /\ n <= m /\ (n + 1) - 1 = n
    OBVIOUS
  <2>2. f[n] = h[n] /\ (n + 1 \in s <=> n + 1 \in t)
    BY <2>1
  <2>3. /\ f[n + 1] = IF n + 1 \in s THEN step[<<n + 1, f[n]>>] ELSE f[n]
        /\ h[n + 1] = IF n + 1 \in t THEN step[<<n + 1, h[n]>>] ELSE h[n]
    BY <2>1 DEF PartFold
  <2> QED
    BY <2>2, <2>3
<1> HIDE DEF T
<1>3. T = Nat
  BY <1>1, <1>2, Induct DEF T
<1>4. m \in T /\ m <= m
  BY <1>3
<1> QED
  BY <1>4 DEF T

\* The greatest member of a set of positions.
LEMMA MaxIs ==
  ASSUME NEW N \in Nat, NEW s \in SUBSET (1..N), s # {}
  PROVE  Max(s) \in s /\ \A n \in s : n <= Max(s)
<1>1. s \in SUBSET Nat /\ \A n \in s : n <= N
  OBVIOUS
<1>2. PICK m \in s : \A n \in s : n <= m
  BY <1>1, Greatest
<1>3. \E x \in s : \A y \in s : x >= y
  BY <1>1, <1>2
<1>4. Max(s) \in s /\ \A y \in s : Max(s) >= y
  BY <1>3 DEF Max
<1> QED
  BY <1>1, <1>4

\* g is the function that FoldLeft is defined with.
Folding(g, N, S, base, step) ==
  /\ g \in [SUBSET (1..N) -> S]
  /\ \A s \in SUBSET (1..N) :
       g[s] = IF s = {} THEN base ELSE step[<<Max(s), g[s \ {Max(s)}]>>]

\* There is such a function.
LEMMA FoldExists ==
  ASSUME NEW N \in Nat, NEW S, NEW base \in S, NEW step \in Steps(1..N, S)
  PROVE  \E g : Folding(g, N, S, base, step)
<1> DEFINE F(s) == CHOOSE f : PartFold(f, s, N, S, base, step)
           g == [s \in SUBSET (1..N) |-> F(s)[N]]
<1>1. ASSUME NEW s PROVE PartFold(F(s), s, N, S, base, step)
  BY PartFoldExists
<1> HIDE DEF F
<1>2. g \in [SUBSET (1..N) -> S]
  <2> SUFFICES ASSUME NEW s \in SUBSET (1..N) PROVE F(s)[N] \in S
    OBVIOUS
  <2>1. F(s) \in [0..N -> S] /\ N \in 0..N
    BY <1>1 DEF PartFold
  <2> QED
    BY <2>1
<1>3. ASSUME NEW s \in SUBSET (1..N)
      PROVE  F(s)[N] = IF s = {} THEN base ELSE step[<<Max(s), F(s \ {Max(s)})[N]>>]
  <2>1. CASE s = {}
    <3>1. 0 \in 0..N /\ \A k \in (0 + 1)..N : k \notin s
      BY <2>1
    <3>2. PartFold(F(s), s, N, S, base, step)
      BY <1>1
    <3>3. F(s)[N] = F(s)[0]
      BY <3>1, <3>2, PartFoldRests, SMTT(30)
    <3> QED
      BY <2>1, <3>2, <3>3 DEF PartFold
  <2>2. CASE s # {}
    <3> DEFINE m == Max(s)
               r == s \ {m}
    <3>1. m \in s /\ (\A n \in s : n <= m)
      BY <2>2, MaxIs
    <3> HIDE DEF m
    <3>2. m \in 1..N /\ m \in 0..N /\ m - 1 \in 0..N
      BY <3>1
    <3> DEFINE fs == F(s)
               fr == F(r)
    <3>3. PartFold(fs, s, N, S, base, step) /\ PartFold(fr, r, N, S, base, step)
      BY <1>1
    <3> HIDE DEF fs, fr
    <3>4. fs[N] = fs[m]
      <4>1. \A k \in (m + 1)..N : k \notin s
        BY <3>1, <3>2
      <4>2. N \in Nat /\ m \in 0..N /\ PartFold(fs, s, N, S, base, step)
        BY <3>2, <3>3
      <4> QED
        BY ONLY <4>1, <4>2, PartFoldRests, SMTT(30)
    <3>5. fs[m] = step[<<m, fs[m - 1]>>]
      BY <3>1, <3>2, <3>3 DEF PartFold
    <3>6. fs[m - 1] = fr[m - 1]
      <4>1. \A k \in 1..(m - 1) : k \in s <=> k \in r
        BY <3>2
      <4> HIDE DEF r
      <4> QED
        BY <3>2, <3>3, <4>1, PartFoldsAgree
    <3>7. fr[N] = fr[m - 1]
      <4>1. \A k \in ((m - 1) + 1)..N : k \notin r
        BY <3>1, <3>2
      <4> HIDE DEF r
      <4> QED
        BY <3>2, <3>3, <4>1, PartFoldRests
    <3> QED
      BY <2>2, <3>4, <3>5, <3>6, <3>7 DEF m, fs, fr
  <2> QED
    BY <2>1, <2>2
<1>4. ASSUME NEW s \in SUBSET (1..N)
      PROVE  g[s] = IF s = {} THEN base ELSE step[<<Max(s), g[s \ {Max(s)}]>>]
  <2>1. s \ {Max(s)} \in SUBSET (1..N)
    OBVIOUS
  <2>2. g[s] = F(s)[N] /\ g[s \ {Max(s)}] = F(s \ {Max(s)})[N]
    BY <2>1
  <2> HIDE DEF g
  <2> QED
    BY <1>3, <2>2
<1> HIDE DEF g
<1>5. Folding(g, N, S, base, step)
  BY <1>2, <1>4 DEF Folding
<1> QED
  BY <1>5

\* g obeys the same rule where it is known that it stays in S.
Follows(g, N, S, base, step) ==
  \A s \in SUBSET (1..N) :
    s = {} \/ g[s \ {Max(s)}] \in S =>
      g[s] = IF s = {} THEN base ELSE step[<<Max(s), g[s \ {Max(s)}]>>]

\* SS[n] holds what the fold over the first n positions may be.
Carries(SS, N, S, base, step) ==
  /\ base \in SS[0]
  /\ \A n \in 0..N : SS[n] \subseteq S
  /\ \A n \in 1..N : \A x \in SS[n - 1] : step[<<n, x>>] \in SS[n]

\* The fold over n positions is a step from that over one less.
LEMMA FoldAlong ==
  ASSUME NEW N \in Nat, NEW S, NEW base, NEW step, NEW g, Follows(g, N, S, base, step),
         NEW SS, Carries(SS, N, S, base, step)
  PROVE  g[1..N] \in SS[N]
<1> DEFINE T == {n \in Nat : n <= N => g[1..n] \in SS[n]}
<1>1. 0 \in T
  <2>1. 1..0 = {} /\ {} \in SUBSET (1..N)
    OBVIOUS
  <2>2. g[{}] = base
    BY <2>1 DEF Follows
  <2> QED
    BY <2>1, <2>2 DEF Carries
<1>2. ASSUME NEW n \in T PROVE n + 1 \in T
  <2> SUFFICES ASSUME n + 1 <= N PROVE g[1..(n + 1)] \in SS[n + 1]
    OBVIOUS
  <2> DEFINE s == 1..(n + 1)
  <2>1. n \in Nat /\ n \in 0..N /\ (n + 1) - 1 = n /\ g[1..n] \in SS[n]
    OBVIOUS
  <2>2. n + 1 \in 1..N /\ n + 1 \in s /\ (\A k \in s : k \in 1..N /\ k <= n + 1)
    BY <2>1
  <2>3. Max(s) = n + 1
    <3> HIDE DEF s
    <3>1. Max(s) \in s /\ \A k \in s : k <= Max(s)
      <4>1. s \in SUBSET (1..N) /\ s # {}
        BY <2>2
      <4> QED
        BY <4>1, MaxIs
    <3>2. Max(s) \in 1..N /\ Max(s) <= n + 1
      BY <2>2, <3>1
    <3>3. n + 1 <= Max(s)
      BY <2>2, <3>1
    <3> QED
      BY <2>1, <3>2, <3>3
  <2>4. s \ {n + 1} = 1..n
    BY <2>1
  <2> HIDE DEF s, T
  <2>5. g[1..n] \in S
    BY <2>1 DEF Carries
  <2>6. g[s] = step[<<n + 1, g[1..n]>>]
    <3>1. s \in SUBSET (1..N) /\ s # {}
      BY <2>2
    <3> QED
      BY <2>3, <2>4, <2>5, <3>1 DEF Follows
  <2>7. step[<<n + 1, g[1..n]>>] \in SS[n + 1]
    BY <2>1, <2>2 DEF Carries
  <2> QED
    BY <2>6, <2>7 DEF s
<1> HIDE DEF T
<1>3. T = Nat
  BY <1>1, <1>2, Induct DEF T
<1>4. N \in T /\ N <= N
  BY <1>3
<1> QED
  BY <1>4 DEF T

\* In particular it stays in S.
LEMMA FoldIn ==
  ASSUME NEW N \in Nat, NEW S, NEW base \in S, NEW step \in Steps(1..N, S), NEW g,
         Follows(g, N, S, base, step)
  PROVE  g[1..N] \in S
<1> DEFINE SS == [n \in 0..N |-> S]
<1>1. 0 \in 0..N /\ N \in 0..N /\ \A n \in 1..N : n - 1 \in 0..N /\ n \in 0..N
  OBVIOUS
<1>2. \A n \in 1..N, x \in S : step[<<n, x>>] \in S
  BY DEF Steps
<1>3. \A n \in 0..N : SS[n] = S
  OBVIOUS
<1> HIDE DEF SS
<1>4. Carries(SS, N, S, base, step)
  BY <1>1, <1>2, <1>3 DEF Carries
<1>5. g[1..N] \in SS[N]
  BY <1>4, FoldAlong
<1> QED
  BY <1>1, <1>3, <1>5
=============================================================================
