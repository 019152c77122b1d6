------------------------------- MODULE Marc8 -------------------------------
(***************************************************************************)
(* MARC-8, the character encoding of older MARC records: the decoder of    *)
(* src/core/marc8.cpp and the encoder of src/core/writer.cpp.  Octets      *)
(* below 80 (hex) are read in the set designated as G0, the others in G1;  *)
(* escape sequences designate sets, one of which (EACC) has three octets   *)
(* to a character, and a mark stands in front of its base.  The encoder    *)
(* writes what no set has as a numeric character reference.                *)
(*                                                                         *)
(* A reference "&#x...;" is one symbol here, beyond the code points: all   *)
(* its octets are ASCII, read in G0, and the decoder passes them through.  *)
(***************************************************************************)
EXTENDS Unicode

CONSTANT
  CodeTables   \* Marc8SetFor: designation -> key -> its character (0 for none), a mark or not

Ascii == \h42
Ansel == \h45
Eacc == \h31
Escape == \h1B

\* The octets that stand between ESC and a designation, or for one.
LeftParen == \h28
RightParen == \h29
Comma == \h2C
Hyphen == \h2D
Dollar == \h24
LetterS == \h73

\* The sets that a single letter designates, next to "s" for ASCII.
LetterSets == {\h67, \h62, \h70}

ASSUME SetsInUse == {Ascii, Ansel, Eacc} \cup LetterSets \subseteq DOMAIN CodeTables

\* A numeric character reference, as a symbol of its own.
FirstReference == \h110000
Reference(c) == FirstReference + c
IsReference(c) == c >= FirstReference

(***************************************************************************)
(* The encoder's reverse tables.  Of the keys of a character the first     *)
(* counts, in the order of the sets and then of the keys.                  *)
(***************************************************************************)
SetOrder == <<\h4E, \h51, \h32, \h33, \h34, \h53, \h62, \h70, \h67, Eacc>>

Graphic == \h21 .. \h7E

AnselKeys(mark) ==
  {k \in DOMAIN CodeTables[Ansel] :
     /\ k \in Graphic /\ CodeTables[Ansel][k].ucs # 0
     /\ CodeTables[Ansel][k].combining = mark}

AnselOctets(mark) ==
  [c \in {CodeTables[Ansel][k].ucs : k \in AnselKeys(mark)} |->
     128 + Min({k \in AnselKeys(mark) : CodeTables[Ansel][k].ucs = c})]

AltKeys(set, mark) ==
  {k \in DOMAIN CodeTables[set] :
     /\ set = Eacc \/ k \in Graphic
     /\ CodeTables[set][k].ucs # 0 /\ CodeTables[set][k].combining = mark}

AltSets == {p \in DOMAIN SetOrder : SetOrder[p] \in DOMAIN CodeTables}

\* Of the entries of a character, <<order of the set, key>>, the first one.
FirstEntry(entries) ==
  CHOOSE e \in entries : \A d \in entries : e[1] < d[1] \/ (e[1] = d[1] /\ e[2] <= d[2])

AltCodesOf(entries) ==
  LET Char(e) == CodeTables[SetOrder[e[1]]][e[2]].ucs
      Code(e) == [set |-> SetOrder[e[1]], key |-> e[2]]
  IN [c \in {Char(e) : e \in entries} |-> Code(FirstEntry({e \in entries : Char(e) = c}))]

AltCodes(mark) == AltCodesOf(UNION {{p} \X AltKeys(SetOrder[p], mark) : p \in AltSets})

spacing == AnselOctets(FALSE)
combining == AnselOctets(TRUE)
alt == AltCodes(FALSE)
alt_combining == AltCodes(TRUE)

\* A mark over two letters is written in two halves, one before each letter.
SpanningSecondHalf(c) ==
  CASE c = \h361 -> \hEC [] c = \h360 -> \hFB [] OTHER -> 0

(***************************************************************************)
(* The encoder.  Its state: the octets so far, the set designated as G0,   *)
(* the second half owed to the next letter, the marks deferred to behind   *)
(* the current base, and the position in the decomposed text.              *)
(***************************************************************************)
Put(st, octets) == [st EXCEPT !.out = @ \o octets]

Designation(set) ==
  IF set = Eacc THEN <<Escape, Dollar, Eacc>> ELSE <<Escape, LeftParen, set>>

Designate(st, set) ==
  IF st.g0 = set THEN st ELSE [Put(st, Designation(set)) EXCEPT !.g0 = set]

KeyOctets(code) ==
  IF code.set = Eacc
  THEN <<code.key \div 65536, (code.key \div 256) % 256, code.key % 256>>
  ELSE <<code.key>>

EmitAlt(st, code) == Put(Designate(st, code.set), KeyOctets(code))

WriteReference(st, c) == Put(Designate(st, Ascii), <<Reference(c)>>)
WriteReferences(st, chars) == FoldLeft(WriteReference, st, chars)

FlushSecond(st) ==
  IF st.second = 0 THEN st ELSE [Put(st, <<st.second>>) EXCEPT !.second = 0]

HasByteForm(c) == c < \h80 \/ c \in DOMAIN spacing \/ c \in DOMAIN alt

\* The syllable that starts at a position of the decomposed text, if any.
HangulAt(s, i) ==
  LET lv == IF i < Len(s) THEN HangulCompose(s[i], s[i + 1]) ELSE NoCharacter
      whole == i + 1 < Len(s) /\ s[i + 2] \in TBase + 1 .. TBase + TCount - 1
  IN IF lv = NoCharacter
     THEN [char |-> NoCharacter, next |-> i]
     ELSE IF whole THEN [char |-> lv + (s[i + 2] - TBase), next |-> i + 3]
     ELSE [char |-> lv, next |-> i + 2]

\* The position behind the marks that follow a base.
ClusterEnd(s, i) ==
  Min({j \in i + 1 .. Len(s) + 1 : j = Len(s) + 1 \/ Ccc(s[j]) = 0})

Deferred(st, m) == [st EXCEPT !.deferred = Append(@, m)]

EncodeMark(st, m, next_base_ok) ==
  IF SpanningSecondHalf(m) # 0
  THEN IF next_base_ok
       THEN [Put(st, <<combining[m]>>) EXCEPT !.second = SpanningSecondHalf(m)]
       ELSE Deferred(st, m)
  ELSE IF m \in DOMAIN combining THEN Put(st, <<combining[m]>>)
  ELSE IF m \in DOMAIN alt_combining THEN EmitAlt(st, alt_combining[m])
  ELSE Deferred(st, m)

\* Mutant: an ASCII base is written in whatever set a mark designated.
EncodeBaseInPlace(st, c) ==
  IF c < \h80 THEN Put(st, <<c>>)
  ELSE IF c \in DOMAIN spacing THEN Put(st, <<spacing[c]>>)
  ELSE EmitAlt(st, alt[c])

\* Spaces and controls are the same in every set.
EncodeBase(st, c) ==
  IF c < \h80
  THEN Put(IF c \in Graphic THEN Designate(st, Ascii) ELSE st, <<c>>)
  ELSE IF c \in DOMAIN spacing THEN Put(st, <<spacing[c]>>)
  ELSE EmitAlt(st, alt[c])

EncodeMarks(st, marks, next_base_ok) ==
  FoldLeft(LAMBDA acc, m : EncodeMark(acc, m, next_base_ok), st, marks)

WriteDeferred(st) == [WriteReferences(st, st.deferred) EXCEPT !.deferred = <<>>]

EncodeCluster(st, s, i, j) ==
  LET next_base_ok == j <= Len(s) /\ HasByteForm(s[j])
      marked == EncodeMarks(FlushSecond(st), SubSeq(s, i + 1, j - 1), next_base_ok)
  IN [WriteDeferred(EncodeBase(marked, s[i])) EXCEPT !.at = j]

\* One round of the loop: a syllable, a base without a byte form and its
\* marks, or a base with its marks in front of it.
EncodeRound(st, s, i, j, hangul) ==
  IF hangul.char \in DOMAIN alt
  THEN [EmitAlt(FlushSecond(st), alt[hangul.char]) EXCEPT !.at = hangul.next]
  ELSE IF ~HasByteForm(s[i])
  THEN [WriteReferences(st, SubSeq(s, i, j - 1)) EXCEPT !.at = j]
  ELSE EncodeCluster(st, s, i, j)

EncodeDecomposed(s) ==
  LET start == [out |-> <<>>, g0 |-> Ascii, second |-> 0, deferred |-> <<>>, at |-> 1]
      leading == Min({j \in 1 .. Len(s) + 1 : j = Len(s) + 1 \/ Ccc(s[j]) = 0}) - 1
      led == [WriteReferences(start, SubSeq(s, 1, leading)) EXCEPT !.at = leading + 1]
      Step(st, i) ==
        IF i < st.at THEN st ELSE EncodeRound(st, s, i, ClusterEnd(s, i), HangulAt(s, i))
  IN Designate(FoldLeftDomain(Step, led, s), Ascii).out

EncodeMarc8(text) == EncodeDecomposed(NfdNormalize(text))

(***************************************************************************)
(* The decoder.  Its state: the text so far, the marks waiting for their   *)
(* base, the designated sets, and the position in the octets.              *)
(***************************************************************************)

Emit(st, c, mark) ==
  IF mark THEN [st EXCEPT !.pending = Append(@, c)]
  ELSE [st EXCEPT !.out = (@ \o <<c>>) \o st.pending, !.pending = <<>>]

\* An entry for no character says that the octets stand for nothing.
EmitKey(st, set, key, valid) ==
  IF ~valid \/ key \notin DOMAIN CodeTables[set] THEN Emit(st, Replacement, FALSE)
  ELSE LET entry == CodeTables[set][key]
       IN IF entry.ucs = 0 THEN st ELSE Emit(st, entry.ucs, entry.combining)

\* Which half an escape sequence designates, and where its last octet is.
Designator(octets, i) ==
  LET At(j) == IF j <= Len(octets) THEN octets[j] ELSE 0
      Half(half, final) == [half |-> half, final |-> final]
  IN CASE At(i + 1) \in {LeftParen, Comma} -> Half("g0", i + 2)
       [] At(i + 1) \in {RightParen, Hyphen} -> Half("g1", i + 2)
       [] At(i + 1) = Dollar /\ At(i + 2) \in {RightParen, Hyphen} -> Half("g1", i + 3)
       [] At(i + 1) = Dollar /\ At(i + 2) = Comma -> Half("g0", i + 3)
       [] At(i + 1) = Dollar -> Half("g0", i + 2)
       [] At(i + 1) \in LetterSets \cup {LetterS} -> Half("single", i + 1)
       [] OTHER -> Half("none", i + 1)

\* An escape sequence ends with its final octet, known or not.
DesignateHalf(st, octets, designator) ==
  LET final == designator.final
      set == IF final > Len(octets) THEN 0
             ELSE IF designator.half = "single" /\ octets[final] = LetterS THEN Ascii
             ELSE octets[final]
      next == Min({final + 1, Len(octets) + 1})
      known == set \in DOMAIN CodeTables /\ designator.half # "none"
  IN IF ~known THEN [Emit(st, Replacement, FALSE) EXCEPT !.at = next]
     ELSE IF designator.half = "g1" THEN [st EXCEPT !.g1 = set, !.at = next]
     ELSE [st EXCEPT !.g0 = set, !.at = next]

DecodeEscape(st, octets, i) == DesignateHalf(st, octets, Designator(octets, i))

\* EACC: three octets, each masked to seven bits.
DecodeTriple(st, octets, i) ==
  LET septets == [k \in 1..3 |-> octets[i + k - 1] % 128]
      key == (septets[1] * 256 + septets[2]) * 256 + septets[3]
      valid == \A k \in 1..3 : septets[k] \in Graphic
  IN IF i + 2 <= Len(octets)
     THEN [EmitKey(st, Eacc, key, valid) EXCEPT !.at = i + 3]
     ELSE [Emit(st, Replacement, FALSE) EXCEPT !.at = Len(octets) + 1]

DecodeAt(st, octets, i) ==
  LET b == octets[i]
      set == IF b < \h80 \/ IsReference(b) THEN st.g0 ELSE st.g1
      Single(next) == [next EXCEPT !.at = i + 1]
  IN CASE b = Escape -> DecodeEscape(st, octets, i)
       [] (b < \h21 /\ b # Escape) \/ b = \h7F -> Single(Emit(st, b, FALSE))
       [] b \in \h80 .. \hA0 \/ b = \hFF -> Single(Emit(st, Replacement, FALSE))
       [] IsReference(b) -> Single(Emit(st, IF set = Ascii THEN b ELSE Replacement, FALSE))
       [] OTHER ->
            IF set = Eacc THEN DecodeTriple(st, octets, i)
            ELSE IF set = Ascii /\ b < \h80 THEN Single(Emit(st, b, FALSE))
            ELSE Single(EmitKey(st, set, b % 128, TRUE))

\* Marks without a base at the end are kept.
Finished(end) == NfcNormalize(end.out \o end.pending)

Marc8Decode(octets) ==
  LET start == [out |-> <<>>, pending |-> <<>>, g0 |-> Ascii, g1 |-> Ansel, at |-> 1]
      Step(st, i) == IF i < st.at THEN st ELSE DecodeAt(st, octets, i)
  IN Finished(FoldLeftDomain(Step, start, octets))
=============================================================================
