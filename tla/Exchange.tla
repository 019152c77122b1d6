------------------------------ MODULE Exchange ------------------------------
(***************************************************************************)
(* A record on its way through a file: text that some other program wrote  *)
(* in one of its canonically equivalent forms, put into a record, written  *)
(* as ISO 2709 in UTF-8 or MARC-8, possibly damaged, or in a text form by  *)
(* this program or another, and read back.                                 *)
(***************************************************************************)
EXTENDS TextForms

CONSTANTS
  Texts,           \* the texts to start from
  RecordsOf(_),    \* the records that carry a text, to be written as ISO 2709
  FormRecordsOf(_),  \* ... and in a text form
  Neighbour,       \* the octets of the record behind it in the file
  Octets,          \* the octets that damage puts in
  DamagedTexts,    \* the texts whose records may be damaged
  MaxDamaged       \* bound: octets of a record that may be damaged

VARIABLES
  original,  \* the text of the beginning
  text,      \* an equivalent form of it
  rec,       \* the record that carries it
  encoding,  \* how it is written
  own,       \* whether this program wrote it, or another
  written,   \* what was written
  file,      \* what the file holds
  damaged,   \* the damage: nothing, the position of a changed octet, or a cut
  pc

vars == <<original, text, rec, encoding, own, written, file, damaged, pc>>

Undamaged == [kind |-> "none", at |-> 0]

Init ==
  /\ original \in Texts
  /\ text = original
  /\ rec = Error
  /\ encoding = "none"
  /\ own = TRUE
  /\ written = <<>>
  /\ file = <<>>
  /\ damaged = Undamaged
  /\ pc = "text"

(***************************************************************************)
(* Canonical equivalence, by definition: a character stands for its        *)
(* decomposition, and marks of different classes may change places.        *)
(***************************************************************************)
Splice(i, n, part) == SubSeq(text, 1, i - 1) \o part \o SubSeq(text, i + n, Len(text))

Equivalents ==
  {Splice(i, 1, Decompose(text[i])) : i \in DOMAIN text}
  \cup {Splice(i, 2, <<text[i + 1], text[i]>>) :
          i \in {j \in DOMAIN text : /\ j < Len(text)
                                     /\ 0 \notin {Ccc(text[j]), Ccc(text[j + 1])}
                                     /\ Ccc(text[j]) # Ccc(text[j + 1])}}
  \cup {Splice(i, 2, <<Composed(text[i], text[i + 1])>>) :
          i \in {j \in DOMAIN text : j < Len(text) /\ Composed(text[j], text[j + 1]) # NoCharacter}}

Rewrite ==
  /\ pc = "text"
  /\ text' \in Equivalents
  /\ UNCHANGED <<original, rec, encoding, own, written, file, damaged, pc>>

(***************************************************************************)
(* Writing and damage.                                                     *)
(***************************************************************************)

Put2709(result) ==
  /\ written' = IF IsError(result) THEN <<>> ELSE result.octets
  /\ file' = IF IsError(result) THEN <<>> ELSE result.octets \o Neighbour
  /\ pc' = IF IsError(result) THEN "refused" ELSE "written"

Write(r, enc) ==
  /\ pc = "text"
  /\ rec' = r
  /\ encoding' = enc
  /\ own' = TRUE
  /\ Put2709(WriteRecord(r, enc))
  /\ UNCHANGED <<original, text, damaged>>

\* A file of the record, twice, as COPY writes it: each on lines of its own.
\* Another program may end lines with CR LF and put JSON into envelopes.
BreakerFile(doc) == doc \o <<LF>> \o doc \o <<LF>>
XmlFile(doc) ==
  Open("collection", NoAttributes) \o doc \o Text(<<LF>>) \o doc \o Text(<<LF>>) \o Close("collection")
JsonFile(doc, by_this) ==
  LET envelope == Obj([parsedRecord |-> Obj([content |-> doc])])
  IN IF by_this THEN <<doc, doc>> ELSE <<Obj([sourceRecords |-> Arr(<<envelope, doc>>)])>>

WriteText(r, form, by_this) ==
  /\ pc = "text"
  /\ rec' = r
  /\ encoding' = form
  /\ own' = by_this
  /\ file' = CASE form = "breaker" -> BreakerFile(WriteBreaker(r, IF by_this THEN <<LF>> ELSE <<CR, LF>>))
               [] form = "marcxml" -> XmlFile(WriteMarcXml(r, by_this))
               [] form = "marcjson" -> JsonFile(WriteMarcJson(r, by_this), by_this)
  /\ pc' = "written"
  /\ UNCHANGED <<original, text, written, damaged>>

Damageable ==
  /\ pc = "written" /\ damaged = Undamaged
  /\ text \in DamagedTexts /\ encoding \in {"utf8", "marc8"} /\ Len(written) <= MaxDamaged

\* An octet of the record is changed.
Damage(p, octet) ==
  /\ Damageable
  /\ file[p] # octet
  /\ file' = [file EXCEPT ![p] = octet]
  /\ damaged' = [kind |-> "octet", at |-> p]
  /\ UNCHANGED <<original, text, rec, encoding, own, written, pc>>

\* The file ends inside the record.
Cut(n) ==
  /\ Damageable
  /\ file' = SubSeq(written, 1, n)
  /\ damaged' = [kind |-> "cut", at |-> n]
  /\ UNCHANGED <<original, text, rec, encoding, own, written, pc>>

Next ==
  \/ Rewrite
  \/ \E r \in RecordsOf(text), enc \in {"utf8", "marc8"} : Write(r, enc)
  \/ \E r \in FormRecordsOf(text), form \in {"breaker", "marcxml", "marcjson"}, by_this \in BOOLEAN :
       WriteText(r, form, by_this)
  \/ \E p \in DOMAIN written, octet \in Octets : Damage(p, octet)
  \/ \E n \in DOMAIN written : Cut(n)

Spec == Init /\ [][Next]_vars

(***************************************************************************)
(* What the reader makes of it.                                            *)
(***************************************************************************)

Separators == {10, 13, Space}

\* The records of a file: each up to its terminator, the last one as it is,
\* without the separators in front.
RawRecords(octets) ==
  LET ends == SetToSortSeq({p \in DOMAIN octets : octets[p] = RT \/ p = Len(octets)}, <)
      First(k) == IF k = 1 THEN 1 ELSE ends[k - 1] + 1
      Significant(k) == {p \in First(k) .. ends[k] : octets[p] \notin Separators}
      Raw(k) == IF Significant(k) = {} THEN <<>>
                ELSE SubSeq(octets, Min(Significant(k)), ends[k])
  IN SelectSeq([k \in DOMAIN ends |-> Raw(k)], LAMBDA raw : raw # <<>>)

ReadBack == ParseRecord(RawRecords(file)[1], "auto", "all")

ReadText ==
  CASE encoding = "breaker" -> ParseBreaker(file)
    [] encoding = "marcxml" -> ParseMarcXml(file)
    [] encoding = "marcjson" -> ParseMarcJson(file)

(***************************************************************************)
(* Properties.                                                             *)
(***************************************************************************)

\* All canonically equivalent texts have the same NFC and the same NFD, and
\* both forms are stable (CanonicalOrder sorts stably, and composition is
\* blocked by marks that stand between: unicode_nfc.cpp:127-194).
NormalFormStable ==
  pc = "text" =>
    /\ NfcNormalize(text) = NfcNormalize(original)
    /\ NfdNormalize(text) = NfdNormalize(original)
    /\ NfcNormalize(NfcNormalize(text)) = NfcNormalize(text)
    /\ NfdNormalize(NfcNormalize(text)) = NfdNormalize(text)

\* The characters of a decoded text with its references resolved, as they are
\* decomposed: the bases in order, each with the bag of its marks.
Unreferenced(s) == [i \in DOMAIN s |-> IF IsReference(s[i]) THEN s[i] - FirstReference ELSE s[i]]
Bases(s) == SelectSeq(NfdNormalize(s), LAMBDA c : Ccc(c) = 0)
MarksOf(s) ==
  LET nfd == NfdNormalize(s)
      BaseOf(i) == Cardinality({j \in 1 .. i : Ccc(nfd[j]) = 0})
      Positions(c, b) == {i \in DOMAIN nfd : nfd[i] = c /\ BaseOf(i) = b}
  IN {<<nfd[i], BaseOf(i), Cardinality(Positions(nfd[i], BaseOf(i)))>> :
        i \in {j \in DOMAIN nfd : Ccc(nfd[j]) # 0}}

\* MARC-8 keeps the text: what was written without references reads back as
\* its NFC, and otherwise every base and every mark of it comes back, those
\* without a byte form as references (writer.cpp:131-282, marc8.cpp:33-138).
Lossless(octets, decoded) ==
  /\ (\A i \in DOMAIN octets : ~IsReference(octets[i])) => decoded = NfcNormalize(text)
  /\ Bases(Unreferenced(decoded)) = Bases(text)
  /\ MarksOf(Unreferenced(decoded)) = MarksOf(text)

Marc8Lossless ==
  LET octets == EncodeMarc8(text)
  IN pc = "text" => Lossless(octets, Marc8Decode(octets))

\* The comment of test/cpp/core_test.cpp:502: "decode(encode(s)) == s for
\* everything ANSEL-representable", for texts that are single characters of
\* the ANSEL table.
AnselCharactersRoundTrip ==
  \A c \in DOMAIN spacing :
    (pc = "text" /\ text = <<c>>) => Marc8Decode(EncodeMarc8(text)) = NfcNormalize(text)

\* What a value is read as: in NFC; MARC-8 may have references in it, and
\* the breaker form has no other meaning for "{dollar}".
Decoded(s) ==
  CASE encoding = "marc8" -> Marc8Decode(EncodeMarc8(s))
    [] encoding = "breaker" -> Unescape(s)
    [] OTHER -> NfcNormalize(s)

FieldsBack ==
  LET BackSubfield(sf) == Subfield(sf.code, Decoded(sf.value))
      Back(f) == [f EXCEPT !.value = Decoded(@),
                           !.subfields = [k \in DOMAIN @ |-> BackSubfield(@[k])]]
  IN [i \in DOMAIN rec.fields |-> Back(rec.fields[i])]

\* The breaker form has no escape for line ends, for a backslash as an
\* indicator and for a dollar sign as a code.
Expressible ==
  encoding = "breaker" =>
    \A f \in ToSet(rec.fields) :
      /\ \A part \in ToSet(FieldTexts(f)) : ToSet(part.text) \cap {LF, CR} = {}
      /\ <<Backslash>> \notin ToSet(f.indicators)
      /\ \A sf \in ToSet(f.subfields) : sf.code # <<Dollar>>

Reads2709(result, fields) ==
  /\ ~IsError(result)
  /\ result.fields = fields
  /\ ParseAsciiNum(SubSeq(written, 1, TotalWidth)) = [error |-> FALSE, value |-> Len(written)]

ReadsText(result, fields) ==
  LET record == [leader |-> rec.leader, fields |-> fields]
  IN result = [error |-> FALSE, records |-> <<record, record>>]

\* A record that is written reads back with its fields as they were, the
\* values in NFC: as ISO 2709 in the encoding that the reader takes from
\* leader/09, with a leader that gives its length (writer.cpp:286-337,
\* iso2709.cpp:67-138), and in every text form, with its leader
\* (textwriters.cpp:1-7), also when another program wrote it.
RoundTrips ==
  (pc = "written" /\ damaged = Undamaged /\ Expressible) =>
    IF encoding \in {"utf8", "marc8"} THEN Reads2709(ReadBack, FieldsBack)
    ELSE ReadsText(ReadText, FieldsBack)

\* The field of a position of the record; 0 for leader, directory and RT.
FieldAtOf(p, lengths) ==
  LET base == Len(written) - 1 - FoldLeft(+, 0, lengths)
      Start(i) == base + FoldLeft(+, 0, SubSeq(lengths, 1, i - 1))
      holding == {i \in DOMAIN lengths : p > Start(i) /\ p <= Start(i) + lengths[i]}
  IN IF holding = {} THEN 0 ELSE CHOOSE i \in holding : TRUE

FieldAt(p) ==
  FieldAtOf(p, [i \in DOMAIN rec.fields |-> Len(FieldOctets(rec.fields[i], encoding))])

AllBut(fields, i) == [fields EXCEPT ![i] = Error]

\* What the damage does, given the record that is read, the record that was
\* written, the records of the file and the damaged field.
ContainsDamage(result, intact, records, field) ==
  /\ damaged.kind = "cut" /\ ~IsError(result) => result.fields = intact.fields
  /\ damaged.kind = "octet" /\ field # 0 /\ ~IsError(result) =>
       AllBut(result.fields, field) = AllBut(intact.fields, field)
  /\ damaged.kind = "octet" /\ damaged.at # Len(written) => records[Len(records)] = Neighbour
  /\ IsError(result) <=> IsError(ParseRecord(records[1], "auto", "none"))

\* Damage to a field stays in it: the reader refuses the record, or all its
\* other fields are as they were. A cut record is refused, or nothing of it
\* is missing. The record behind is read as it was, unless the terminator
\* between them was hit. A record is refused whatever a query decodes of it.
DamageContained ==
  damaged # Undamaged =>
    ContainsDamage(ReadBack, ParseRecord(written, "auto", "all"), RawRecords(file), FieldAt(damaged.at))
=============================================================================
