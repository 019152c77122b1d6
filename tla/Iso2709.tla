------------------------------ MODULE Iso2709 ------------------------------
(***************************************************************************)
(* The binary form of a record: the writer of src/core/writer.cpp and the  *)
(* reader of src/core/iso2709.cpp.  A record is a leader of 24 characters, *)
(* a directory with an entry (tag, length, start) for every field, and the *)
(* fields, each ended by FT, their subfields each begun by SF; RT ends the *)
(* record.  The lengths are numbers of a fixed width: records that are too *)
(* long cannot be written.                                                 *)
(***************************************************************************)
EXTENDS Marc8

CONSTANTS
  Radix,        \* of the numbers in directory and leader: 10 in the code
  LengthWidth,  \* digits of a field's length: 4 in the code
  StartWidth,   \* digits of a field's start: 5 in the code
  TotalWidth    \* digits of the record's length in the leader: 5 in the code

ASSUME WidthsFit ==
  /\ Radix \in 2 .. 78
  /\ LengthWidth \in 1 .. 4 /\ StartWidth \in 1 .. 5 /\ TotalWidth \in 1 .. 5

LeaderLength == 24
TagLength == 3
EntryLength == TagLength + LengthWidth + StartWidth

SF == \h1F
FT == \h1E
RT == \h1D
Zero == 48
LowerA == \h61
Space == \h20

\* What the reader and the writer throw.
Error == [error |-> TRUE]
IsError(result) == result = Error

\* A tag is its three octets; below "010" it is that of a control field.
IsControlTag(tag) ==
  tag[1] < Zero \/ (tag[1] = Zero /\ (tag[2] < Zero + 1 \/ (tag[2] = Zero + 1 /\ tag[3] < Zero)))

ControlField(tag, value) ==
  [tag |-> tag, is_control |-> TRUE, value |-> value, indicators |-> <<>>, subfields |-> <<>>]
DataField(tag, indicators, subfields) ==
  [tag |-> tag, is_control |-> FALSE, value |-> <<>>, indicators |-> indicators,
   subfields |-> subfields]
Subfield(code, value) == [code |-> code, value |-> value]

(***************************************************************************)
(* The writer.                                                             *)
(***************************************************************************)

\* At least as many digits as the width, and all that the number has (up to
\* two more here).
AppendNum(v, width) ==
  LET digits == Min({d \in width .. width + 2 : v < Radix ^ d})
  IN [d \in 1..digits |-> Zero + ((v \div Radix ^ (digits - d)) % Radix)]

Encode(text, encoding) == IF encoding = "marc8" THEN EncodeMarc8(text) ELSE Utf8Encode(text)

\* The texts of a field, in their order, and the mark each begins with.
FieldTexts(f) ==
  LET Marked(sf) == <<[mark |-> <<SF>>, text |-> sf.code], [mark |-> <<>>, text |-> sf.value]>>
      Plain(text) == [mark |-> <<>>, text |-> text]
  IN IF f.is_control THEN <<Plain(f.value)>>
     ELSE [k \in DOMAIN f.indicators |-> Plain(f.indicators[k])]
            \o FlattenSeq([k \in DOMAIN f.subfields |-> Marked(f.subfields[k])])

FieldOctets(f, encoding) ==
  LET Marked(part) == part.mark \o Encode(part.text, encoding)
  IN Append(FlattenSeq([k \in DOMAIN FieldTexts(f) |-> Marked(FieldTexts(f)[k])]), FT)

\* Mutant: a field of one octet too many is written.
FieldFitsBarely(start, length) ==
  length <= Radix ^ LengthWidth /\ start < Radix ^ StartWidth

FieldFits(start, length) ==
  length < Radix ^ LengthWidth /\ start < Radix ^ StartWidth

Total(base, body) == base + Len(body) + 1

TotalFits(total) == total < Radix ^ TotalWidth

\* The octets of the fields, behind leader and directory.
WriteFields(rec, encoding, octets) ==
  LET start == [i \in DOMAIN octets |-> Len(FlattenSeq(SubSeq(octets, 1, i - 1)))]
      Entry(i) == Utf8Encode(rec.fields[i].tag) \o AppendNum(Len(octets[i]), LengthWidth)
                    \o AppendNum(start[i], StartWidth)
      directory == Append(FlattenSeq([i \in DOMAIN octets |-> Entry(i)]), FT)
      body == FlattenSeq(octets)
      base == LeaderLength + Len(directory)
      total == Total(base, body)
      Replace(s, pos, part) == SubSeq(s, 1, pos) \o part \o SubSeq(s, pos + TotalWidth + 1, Len(s))
      sized == Replace(Utf8Encode(rec.leader), 0, AppendNum(total, TotalWidth))
      marked == [sized EXCEPT ![10] = IF encoding = "marc8" THEN Space ELSE LowerA]
  IN IF \/ Len(Utf8Encode(rec.leader)) # LeaderLength
        \/ \E i \in DOMAIN octets : \/ Len(Utf8Encode(rec.fields[i].tag)) # TagLength
                                    \/ ~FieldFits(start[i], Len(octets[i]))
        \/ ~TotalFits(total)
     THEN Error
     ELSE [error |-> FALSE,
           octets |-> Replace(marked, 12, AppendNum(base, TotalWidth)) \o directory \o body \o <<RT>>]

WriteRecord(rec, encoding) ==
  WriteFields(rec, encoding, [i \in DOMAIN rec.fields |-> FieldOctets(rec.fields[i], encoding)])

(***************************************************************************)
(* The reader.                                                             *)
(***************************************************************************)

\* The number that octets are, if all are digits.
ParseAsciiNum(octets) ==
  IF \E i \in DOMAIN octets : octets[i] \notin Zero .. Zero + Radix - 1 THEN Error
  ELSE [error |-> FALSE,
        value |-> FoldLeft(LAMBDA acc, octet : acc * Radix + (octet - Zero), 0, octets)]

DecodeBytes(octets, encoding) ==
  IF encoding = "marc8" THEN Marc8Decode(octets) ELSE NfcNormalizeUtf8(octets)

\* Where an octet stands from a position on; 0 if it does not.
Find(octets, octet, from) ==
  LET found == {i \in from .. Len(octets) : octets[i] = octet}
  IN IF found = {} THEN 0 ELSE Min(found)

\* The parts behind each mark; empty ones and what stands before the first
\* mark are skipped.
Parts(s, mark) ==
  LET PartEnd(p) == Min({q - 1 : q \in {m \in p + 1 .. Len(s) : s[m] = mark}} \cup {Len(s)})
      Part(p) == IF s[p] = mark THEN SubSeq(s, p + 1, PartEnd(p)) ELSE <<>>
  IN SelectSeq([p \in DOMAIN s |-> Part(p)], LAMBDA part : part # <<>>)

\* The subfields, each behind its SF.
ParseSubfields(parts, encoding, mode) ==
  LET Parsed(part) == Subfield(<<part[1]>>,
                               IF mode = "all" THEN DecodeBytes(Tail(part), encoding) ELSE <<>>)
  IN [k \in DOMAIN parts |-> Parsed(parts[k])]

WithoutTerminator(chunk) ==
  IF chunk # <<>> /\ chunk[Len(chunk)] = FT THEN Front(chunk) ELSE chunk

\* Mutant: a field may extend past the end of the record.
EndsAnywhere(raw, last) == TRUE

EndsWithin(raw, last) == last <= Len(raw)

\* A field from its octets.
ParseChunk(tag, chunk, encoding, mode) ==
  IF IsControlTag(tag)
  THEN ControlField(tag, IF mode = "none" THEN <<>> ELSE DecodeBytes(chunk, encoding))
  ELSE IF Len(chunk) < 2 THEN Error
  ELSE DataField(tag, <<<<chunk[1]>>, <<chunk[2]>>>>,
                 ParseSubfields(Parts(SubSeq(chunk, 3, Len(chunk)), SF), encoding, mode))

\* The field that a directory entry describes; the directory ends before base.
ParseField(raw, base, entry, encoding, mode) ==
  LET length == ParseAsciiNum(SubSeq(entry, TagLength + 1, TagLength + LengthWidth))
      start == ParseAsciiNum(SubSeq(entry, TagLength + LengthWidth + 1, EntryLength))
      first == base + start.value
      last == first + length.value - 1
  IN IF length.error \/ start.error THEN Error
     ELSE IF ~EndsWithin(raw, last) THEN Error
     ELSE ParseChunk(SubSeq(entry, 1, TagLength),
                     WithoutTerminator(SubSeq(raw, first, Min({last, Len(raw)}))), encoding, mode)

EncodingOf(raw, encoding) ==
  IF encoding # "auto" THEN encoding ELSE IF raw[10] = LowerA THEN "utf8" ELSE "marc8"

ParseFields(raw, dir_end, encoding, mode) ==
  LET entries == (dir_end - 1 - LeaderLength) \div EntryLength
      Entry(k) == SubSeq(raw, LeaderLength + (k - 1) * EntryLength + 1, LeaderLength + k * EntryLength)
  IN [k \in 1 .. entries |-> ParseField(raw, dir_end + 1, Entry(k), encoding, mode)]

RecordWith(raw, fields) ==
  IF \E k \in DOMAIN fields : IsError(fields[k]) THEN Error
  ELSE [error |-> FALSE, leader |-> SubSeq(raw, 1, LeaderLength), fields |-> fields]

\* The directory ends at the first FT behind the leader, whatever the leader
\* says of it.
ParseRecord(raw, encoding, mode) ==
  LET dir_end == Find(raw, FT, LeaderLength + 1)
  IN IF Len(raw) < LeaderLength THEN Error
     ELSE IF dir_end = 0 THEN Error
     ELSE IF (dir_end - 1 - LeaderLength) % EntryLength # 0 THEN Error
     ELSE RecordWith(raw, ParseFields(raw, dir_end, EncodingOf(raw, encoding), mode))
=============================================================================
