------------------------------ MODULE Unicode ------------------------------
(***************************************************************************)
(* Text as the core handles it: the normal forms of                        *)
(* src/core/unicode_nfc.cpp and its reading and writing of UTF-8.  A       *)
(* character is its code point, an octet its number; the three generated   *)
(* tables of unicode_tables.hpp are constants, of which a model takes an   *)
(* excerpt.                                                                *)
(***************************************************************************)
EXTENDS Integers, Sequences, SequencesExt

CONSTANTS
  CombiningClass,  \* CCC_TABLE: the class of every mark
  Decomposition,   \* DECOMP_TABLE: the full decomposition of a character
  Composition      \* COMP_TABLE: the character that a pair composes to

ASSUME ClassesArePositive == \A c \in DOMAIN CombiningClass : CombiningClass[c] \in 1..255

Replacement == \hFFFD
NoCharacter == -1

\* The class of a mark; 0 says that the character is a starter.
Ccc(c) == IF c \in DOMAIN CombiningClass THEN CombiningClass[c] ELSE 0

(***************************************************************************)
(* Hangul syllables are composed of a leading consonant, a vowel and       *)
(* possibly a trailing consonant by arithmetic.                            *)
(***************************************************************************)
LBase == \h1100
VBase == \h1161
TBase == \h11A7
SBase == \hAC00
LCount == 19
VCount == 21
TCount == 28
NCount == VCount * TCount
IsSyllable(c) == c \in SBase .. SBase + LCount * NCount - 1

Syllable(l, v) == SBase + ((l - LBase) * VCount + (v - VBase)) * TCount

HangulCompose(a, b) ==
  IF a \in LBase .. LBase + LCount - 1 /\ b \in VBase .. VBase + VCount - 1
  THEN Syllable(a, b)
  ELSE IF IsSyllable(a) /\ (a - SBase) % TCount = 0 /\ b \in TBase + 1 .. TBase + TCount - 1
  THEN a + (b - TBase)
  ELSE NoCharacter

(***************************************************************************)
(* Normal forms.                                                           *)
(***************************************************************************)
Decompose(c) ==
  LET index == c - SBase
      trailing == index % TCount
  IN IF IsSyllable(c)
     THEN <<LBase + (index \div NCount), VBase + ((index % NCount) \div TCount)>>
            \o (IF trailing = 0 THEN <<>> ELSE <<TBase + trailing>>)
     ELSE IF c \in DOMAIN Decomposition THEN Decomposition[c]
     ELSE <<c>>

\* A mark moves in front of the marks of a higher class that precede it.
Placed(s, c) ==
  IF Ccc(c) = 0 THEN Append(s, c)
  ELSE InsertAt(s, 1 + Max({0} \cup {i \in DOMAIN s : Ccc(s[i]) <= Ccc(c)}), c)

CanonicalOrder(s) == FoldLeft(Placed, <<>>, s)

NfdNormalize(s) == CanonicalOrder(FlattenSeq([i \in DOMAIN s |-> Decompose(s[i])]))

Composed(a, b) ==
  IF <<a, b>> \in DOMAIN Composition THEN Composition[<<a, b>>] ELSE HangulCompose(a, b)

\* Mutant: a mark composes with its starter past a mark of the same class.
ComposesPastEquals(acc, c) ==
  /\ acc.starter # 0
  /\ acc.last_cc <= Ccc(c)
  /\ Composed(acc.out[acc.starter], c) # NoCharacter

\* A character composes with the last starter when no starter, and no mark of
\* its class or a higher one, stands between them.
Composes(acc, c) ==
  /\ acc.starter # 0
  /\ acc.last_cc < Ccc(c)
  /\ Composed(acc.out[acc.starter], c) # NoCharacter

NfcStep(acc, c) ==
  IF Composes(acc, c)
  THEN [acc EXCEPT !.out[acc.starter] = Composed(@, c)]
  ELSE IF Ccc(c) = 0
  THEN [out |-> Append(acc.out, c), starter |-> Len(acc.out) + 1, last_cc |-> -1]
  ELSE [acc EXCEPT !.out = Append(@, c), !.last_cc = Ccc(c)]

NfcNormalize(s) ==
  FoldLeft(NfcStep, [out |-> <<>>, starter |-> 0, last_cc |-> -1], NfdNormalize(s)).out

(***************************************************************************)
(* UTF-8.                                                                  *)
(***************************************************************************)
Continuation(c, shift) == 128 + ((c \div shift) % 64)

Utf8Octets(c) ==
  CASE c < \h80 -> <<c>>
    [] c \in \h80 .. \h7FF -> <<192 + (c \div 64), Continuation(c, 1)>>
    [] c \in \h800 .. \hFFFF -> <<224 + (c \div 4096), Continuation(c, 64), Continuation(c, 1)>>
    [] c > \hFFFF -> <<240 + (c \div 262144), Continuation(c, 4096), Continuation(c, 64), Continuation(c, 1)>>

Utf8Encode(s) == FlattenSeq([i \in DOMAIN s |-> Utf8Octets(s[i])])

\* How many octets the first octet announces; 0 if it starts no character.
Announced(octet) ==
  CASE octet < 128 -> 1
    [] octet \div 32 = 6 -> 2
    [] octet \div 16 = 14 -> 3
    [] octet \div 8 = 30 -> 4
    [] OTHER -> 0

\* The character of as many octets, or U+FFFD for what has a shorter form, is
\* a surrogate or lies above U+10FFFF.
Assembled(octets) ==
  LET width == Len(octets)
      payload == octets[1] % <<128, 32, 16, 8>>[width]
      c == FoldLeft(LAMBDA acc, octet : acc * 64 + (octet % 64), payload, Tail(octets))
  IN IF /\ c \in <<0, \h80, \h800, \h10000>>[width] .. \h10FFFF
        /\ c \notin \hD800 .. \hDFFF
     THEN c ELSE Replacement

Utf8DecodeLossy(octets) ==
  LET Whole(i, width) ==
        /\ width # 0
        /\ \A j \in i + 1 .. i + width - 1 : j <= Len(octets) /\ octets[j] \div 64 = 2
      Step(acc, i) ==
        LET width == Announced(octets[i])
        IN IF i < acc.at THEN acc
           ELSE IF Whole(i, width)
           THEN [out |-> Append(acc.out, Assembled(SubSeq(octets, i, i + width - 1))),
                 at |-> i + width]
           ELSE [out |-> Append(acc.out, Replacement), at |-> i + 1]
  IN FoldLeftDomain(Step, [out |-> <<>>, at |-> 1], octets).out

NfcNormalizeUtf8(octets) == NfcNormalize(Utf8DecodeLossy(octets))
=============================================================================
