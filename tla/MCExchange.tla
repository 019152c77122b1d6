----------------------------- MODULE MCExchange -----------------------------
(* An excerpt of the generated tables, and short texts, for TLC. *)
EXTENDS Exchange

CONSTANT MaxText   \* bound: characters of a text

\* Marks of several classes, some without a MARC-8 form.
FewClasses ==
  (\h302 :> 230) @@ (\h306 :> 230) @@ (\h323 :> 220) @@ (\h31B :> 216) @@ (\h361 :> 234)
    @@ (\h360 :> 234) @@ (\h5BC :> 21)

FewDecompositions ==
  (\hE2 :> <<\h61, \h302>>) @@ (\h103 :> <<\h61, \h306>>) @@ (\h1EA1 :> <<\h61, \h323>>)
    @@ (\h1EAD :> <<\h61, \h323, \h302>>) @@ (\h1EB7 :> <<\h61, \h323, \h306>>)
    @@ (\h419 :> <<\h418, \h306>>) @@ (\hFB31 :> <<\h5D1, \h5BC>>) @@ (\h1A0 :> <<\h4F, \h31B>>)

FewCompositions ==
  (<<\h61, \h302>> :> \hE2) @@ (<<\h61, \h306>> :> \h103) @@ (<<\h61, \h323>> :> \h1EA1)
    @@ (<<\h1EA1, \h302>> :> \h1EAD) @@ (<<\h1EA1, \h306>> :> \h1EB7)
    @@ (<<\h418, \h306>> :> \h419) @@ (<<\h4F, \h31B>> :> \h1A0)

Char(ucs) == [ucs |-> ucs, combining |-> FALSE]
Mark(ucs) == [ucs |-> ucs, combining |-> TRUE]

\* ASCII, ANSEL, Cyrillic, Hebrew, Arabic (a second breve), EACC, and the
\* sets of one letter.
AnselTable ==
  (\h21 :> Char(\h141)) @@ (\h2C :> Char(\h1A0)) @@ (\h63 :> Mark(\h302)) @@ (\h66 :> Mark(\h306))
    @@ (\h6B :> Mark(\h361)) @@ (\h6C :> Mark(0)) @@ (\h72 :> Mark(\h323))
    @@ (\h7A :> Mark(\h360)) @@ (\h7B :> Mark(0))
EaccTable ==
  (\h214273 :> Char(\h65E5)) @@ (\h6F5C63 :> Char(\hD558)) @@ (\h6F5C65 :> Char(\hD55C))
CyrillicTable == (\h69 :> Char(\h418)) @@ (\h6A :> Char(\h419))
HebrewTable == (\h61 :> Char(\h5D1)) @@ (\h4B :> Mark(\h5BC))

FewTables ==
  (Ascii :> [k \in Graphic |-> Char(k)]) @@ (Ansel :> AnselTable) @@ (Eacc :> EaccTable)
    @@ (\h4E :> CyrillicTable) @@ (\h32 :> HebrewTable) @@ (\h34 :> (\h7D :> Mark(\h306)))
    @@ (\h62 :> (\h32 :> Char(\h2082))) @@ (\h70 :> (\h32 :> Char(\hB2)))
    @@ (\h67 :> (\h61 :> Char(\h3B1)))

\* A letter and a space; marks; composed letters; letters of other sets; a
\* syllable and a final consonant; characters that no set has.
Letters == {\h61, \h20, \h141, \h418, \h5D1, \h65E5, \hD558, \h1F600}
Marks == {\h302, \h323, \h31B, \h361, \h5BC}
Others == {\h1EAD, \h419, \hFB31, \h11AB}

TextsUpTo(n) == UNION {[1..k -> Letters \cup Marks \cup Others] : k \in 0..n}
\* Characters that one of the text forms has an escape for, and what looks
\* like an escape.
MarkupTexts ==
  {<<c>> : c \in {Dollar, Backslash, Less, Quote, LF, CR, 1, \hE9}}
    \cup {DollarEscape, Entities[Less], <<Amp>> \o Entities[Amp] \o <<Semicolon>>,
          <<Backslash, LowerU>>, <<Amp, Hash>>}

FewTexts ==
  TextsUpTo(MaxText) \cup MarkupTexts
    \cup {<<\h418, m, n>> : m, n \in Marks \cup {\h306}}
    \cup {<<\h61, m, n, o>> : m, n, o \in Marks \cup {\h306}}
    \cup {<<\h61, \h361, c, m>> : c \in Letters \cup Others, m \in Marks}

AnselTexts == {<<c>> : c \in DOMAIN spacing} \cup {<<c, m>> : c \in DOMAIN spacing, m \in DOMAIN combining}

Leader == [i \in 1..LeaderLength |-> \h6E]
Tag(n) == <<Zero + n \div 100, Zero + ((n \div 10) % 10), Zero + (n % 10)>>
Title(value) == DataField(Tag(245), <<<<Zero>>, <<Space>>>>, <<Subfield(<<LowerA>>, value)>>)

Note(value) ==
  DataField(Tag(10), <<<<Space>>, <<Space>>>>, <<Subfield(<<LowerA>>, <<>>), Subfield(<<Zero>>, value)>>)

\* Indicators and codes that one of the text forms has a use for.
Coded(indicators, codes, value) ==
  LET code == SetToSeq(codes)
  IN DataField(Tag(500), indicators, [k \in DOMAIN code |-> Subfield(<<code[k]>>, value)])

Records(field_lists) == {[leader |-> Leader, fields |-> fields] : fields \in field_lists}

FewRecordsOf(value) ==
  IF Len(value) > 2 THEN {}
  ELSE Records({ <<ControlField(Tag(1), value), Title(value)>>,
                 <<Title(value), DataField(Tag(500), <<<<Space>>, <<Zero>>>>, <<>>), Note(value)>>,
                 [k \in 1..10 |-> Title(value)] })

FewFormRecordsOf(value) ==
  IF Len(value) > 1 /\ value \notin MarkupTexts THEN {}
  ELSE Records({ <<ControlField(Tag(1), value), DataField(Tag(500), <<<<Quote>>, <<Amp>>>>, <<>>)>>,
                 <<Note(value)>>,
                 <<Coded(<<<<Less>>, <<Greater>>>>, {Quote, Amp, Less, Greater, Backslash}, value)>>,
                 <<Coded(<<<<Space>>, <<Backslash>>>>, {Dollar}, value)>> })

FewDamagedTexts == {<<\h61>>, <<\hFB31>>}
FewNeighbour == <<LowerA, RT>>
FewOctets == {FT, SF, RT, Space, Zero, LowerA, \hC3, \hE8}
=============================================================================
