------------------------------ MODULE TextForms ------------------------------
(***************************************************************************)
(* The text forms of a record, written and read: MARC breaker              *)
(* (src/core/textwriters.cpp, breaker.cpp), MARCXML (textwriters.cpp,      *)
(* marcxml.cpp) and MARC-in-JSON (marcjson.cpp, json.cpp).  Values and     *)
(* keys are characters, with every escape; a tag of MARCXML and a bracket  *)
(* of JSON is one symbol or one value, as long as no character of a value  *)
(* makes another of it.                                                    *)
(*                                                                         *)
(* Every form has two writers: the repository's own, and that of some      *)
(* other program, which escapes what it may and lays out the text in       *)
(* other ways the readers provide for.                                     *)
(***************************************************************************)
EXTENDS Iso2709

CONSTANT DefaultLeader   \* of a breaker record without a leader line

LF == 10
CR == 13
Quote == \h22
Hash == \h23
Amp == \h26
Apostrophe == \h27
Slash == \h2F
Semicolon == \h3B
Less == \h3C
Equals == \h3D
Greater == \h3E
Backslash == \h5C
LowerU == \h75
LowerX == \h78

Resize(leader) ==
  SubSeq(leader \o [i \in 1 .. LeaderLength |-> Space], 1, LeaderLength)

\* One character, a space if there is none.
OneScalar(s) == IF s = <<>> THEN <<Space>> ELSE <<s[1]>>

Escaped(s, escapes) ==
  FlattenSeq([i \in DOMAIN s |-> IF s[i] \in DOMAIN escapes THEN escapes[s[i]] ELSE <<s[i]>>])

HexDigit(d) == IF d < 10 THEN Zero + d ELSE LowerA + d - 10
Hex(c, digits) == [d \in 1..digits |-> HexDigit((c \div 16 ^ (digits - d)) % 16)]

\* The value of a digit; 99 for what is none.
Digit(c) ==
  CASE c \in Zero .. Zero + 9 -> c - Zero
    [] c \in LowerA .. LowerA + 5 -> c - LowerA + 10
    [] c \in \h41 .. \h46 -> c - \h41 + 10
    [] OTHER -> 99
Number(digits, base) == FoldLeft(LAMBDA acc, c : acc * base + Digit(c), 0, digits)

\* The characters from m to n, as far as there are any.
Within(s, m, n) == SubSeq(s, m, IF n > Len(s) THEN Len(s) ELSE n)

(***************************************************************************)
(* MARC breaker: a line for every field, "=LDR" for the leader.            *)
(***************************************************************************)
LDR == <<\h4C, \h44, \h52>>
DollarEscape == <<\h7B, \h64, \h6F, \h6C, \h6C, \h61, \h72, \h7D>>

WriteBreaker(rec, line_end) ==
  LET Protect(s) == Escaped(s, Dollar :> DollarEscape)
      Indicator(ind) == IF ind = <<Space>> THEN <<Backslash>> ELSE ind
      SubfieldText(sf) == <<Dollar>> \o sf.code \o Protect(sf.value)
      Content(f) ==
        IF f.is_control THEN Protect(f.value)
        ELSE Indicator(f.indicators[1]) \o Indicator(f.indicators[2])
               \o FlattenSeq([k \in DOMAIN f.subfields |-> SubfieldText(f.subfields[k])])
      Line(tag, content) == <<Equals>> \o tag \o <<Space, Space>> \o content \o line_end
  IN Line(LDR, rec.leader)
       \o FlattenSeq([i \in DOMAIN rec.fields |-> Line(rec.fields[i].tag, Content(rec.fields[i]))])

\* "{dollar}" stands for a dollar sign.
Unescape(s) ==
  LET starts == {i \in DOMAIN s : Within(s, i, i + 7) = DollarEscape}
      Inside(i) == \E j \in starts : i \in j + 1 .. j + 7
      At(i) == IF i \in starts THEN <<Dollar>> ELSE IF Inside(i) THEN <<>> ELSE <<s[i]>>
  IN NfcNormalize(FlattenSeq([i \in DOMAIN s |-> At(i)]))

IsAlnum(c) == c \in Zero .. Zero + 9 \cup \h41 .. \h5A \cup \h61 .. \h7A

BreakerField(tag, rest) ==
  LET Indicator(i) == IF i > Len(rest) \/ rest[i] = Backslash THEN <<Space>> ELSE <<rest[i]>>
      parts == Parts(SubSeq(rest, 3, Len(rest)), Dollar)
      Parsed(part) == Subfield(<<part[1]>>, Unescape(Tail(part)))
  IN IF IsControlTag(tag) THEN ControlField(tag, Unescape(rest))
     ELSE DataField(tag, <<Indicator(1), Indicator(2)>>, [k \in DOMAIN parts |-> Parsed(parts[k])])

\* The current record is the last one; a field before any leader begins one.
ParseBreaker(text) ==
  LET WithoutCR(line) == IF line[Len(line)] = CR THEN Front(line) ELSE line
      NewRecord(leader) == [leader |-> leader, fields |-> <<>>]
      Step(acc, raw) ==
        LET line == WithoutCR(raw)
            tag == Within(line, 2, 4)
            rest == SubSeq(line, 7, Len(line))
            records == IF acc.records = <<>> THEN <<NewRecord(DefaultLeader)>> ELSE acc.records
        IN CASE acc.error \/ line = <<>> -> acc
             [] ~acc.error /\ line # <<>> ->
                  IF line[1] # Equals THEN acc
                  ELSE IF Len(line) < 6 THEN [acc EXCEPT !.error = TRUE]
                  ELSE IF tag = LDR THEN [acc EXCEPT !.records = Append(@, NewRecord(Resize(rest)))]
                  ELSE IF \E i \in 1..3 : ~IsAlnum(tag[i]) THEN [acc EXCEPT !.error = TRUE]
                  ELSE [acc EXCEPT !.records =
                          [records EXCEPT ![Len(records)].fields = Append(@, BreakerField(tag, rest))]]
  IN FoldLeft(Step, [error |-> FALSE, records |-> <<>>], Parts(<<LF>> \o text, LF))

(***************************************************************************)
(* MARCXML: a sequence of tags and the texts between them.                 *)
(***************************************************************************)
Entities ==
  (Amp :> <<\h61, \h6D, \h70>>) @@ (Less :> <<\h6C, \h74>>) @@ (Greater :> <<\h67, \h74>>)
    @@ (Quote :> <<\h71, \h75, \h6F, \h74>>) @@ (Apostrophe :> <<\h61, \h70, \h6F, \h73>>)

EntitiesOf(chars) == [c \in chars |-> <<Amp>> \o Entities[c] \o <<Semicolon>>]

XmlEscapeText(s) == Escaped(s, EntitiesOf({Amp, Less, Greater}))
XmlEscapeAttr(s) == Escaped(s, EntitiesOf({Amp, Less, Greater, Quote}))

\* Another program: a reference for what is not ASCII, in either base.
XmlEscapeAll(s) ==
  LET Decimal(c) == [d \in 1..7 |-> Zero + ((c \div 10 ^ (7 - d)) % 10)]
      Ref(c) == <<Amp, Hash>> \o (IF c % 2 = 0 THEN <<LowerX>> \o Hex(c, 6) ELSE Decimal(c)) \o <<Semicolon>>
      foreign == {c \in ToSet(s) : c >= \h80}
  IN Escaped(s, EntitiesOf(DOMAIN Entities) @@ [c \in foreign |-> Ref(c)])

\* What stands between "&" and ";": one of the five names, or a number of at
\* most 7 digits; anything else stands for itself.
Entity(name) ==
  LET hex == Len(name) > 1 /\ name[2] \in {\h58, LowerX}
      base == IF hex THEN 16 ELSE 10
      digits == SubSeq(name, IF hex THEN 3 ELSE 2, Len(name))
      c == Number(digits, base)
      valid == /\ digits # <<>> /\ Len(name) <= 9
               /\ \A i \in DOMAIN digits : Digit(digits[i]) < base
  IN IF name \in {Entities[e] : e \in DOMAIN Entities}
     THEN <<CHOOSE e \in DOMAIN Entities : Entities[e] = name>>
     ELSE IF Len(name) > 1 /\ name[1] = Hash
     THEN IF ~valid THEN <<Replacement>>
          ELSE IF c <= \h10FFFF /\ c \notin \hD800 .. \hDFFF THEN <<c>> ELSE <<Replacement>>
     ELSE <<Amp>> \o name \o <<Semicolon>>

DecodeEntities(s) ==
  LET Step(acc, i) ==
        LET end == Find(s, Semicolon, i)
        IN IF i < acc.at THEN acc
           ELSE IF s[i] # Amp THEN [out |-> Append(acc.out, s[i]), at |-> i + 1]
           ELSE IF end = 0 THEN [out |-> acc.out \o SubSeq(s, i, Len(s)), at |-> Len(s) + 1]
           ELSE [out |-> acc.out \o Entity(SubSeq(s, i + 1, end - 1)), at |-> end + 1]
  IN IF Amp \notin ToSet(s) THEN s ELSE FoldLeftDomain(Step, [out |-> <<>>, at |-> 1], s).out

NoAttributes == [attribute \in {} |-> <<>>]
Open(name, attributes) == <<[kind |-> "open", name |-> name, attributes |-> attributes]>>
Empty(name, attributes) == <<[kind |-> "empty", name |-> name, attributes |-> attributes]>>
Close(name) == <<[kind |-> "close", name |-> name]>>
Text(s) == IF s = <<>> THEN <<>> ELSE <<[kind |-> "text", text |-> s]>>
Layout == Text(<<LF, Space>>)

WriteMarcXml(rec, own) ==
  LET Protect(s) == IF own THEN XmlEscapeText(s) ELSE XmlEscapeAll(s)
      Element(name, attributes, value) ==
        (IF own \/ value # <<>> THEN Open(name, attributes) \o Text(Protect(value)) \o Close(name)
         ELSE Empty(name, attributes)) \o Layout
      SubfieldElement(sf) == Element("subfield", "code" :> XmlEscapeAttr(sf.code), sf.value)
      FieldElement(f) ==
        IF f.is_control THEN Element("controlfield", "tag" :> XmlEscapeAttr(f.tag), f.value)
        ELSE Open("datafield", [tag |-> XmlEscapeAttr(f.tag), ind1 |-> XmlEscapeAttr(f.indicators[1]),
                                ind2 |-> XmlEscapeAttr(f.indicators[2])])
               \o Layout \o FlattenSeq([k \in DOMAIN f.subfields |-> SubfieldElement(f.subfields[k])])
               \o Close("datafield") \o Layout
  IN Open("record", NoAttributes) \o Layout \o Element("leader", NoAttributes, rec.leader)
       \o FlattenSeq([i \in DOMAIN rec.fields |-> FieldElement(rec.fields[i])]) \o Close("record")

\* The first ">" ends the tag, and the attribute it stands in is none.
HasAttr(symbol, name) ==
  LET order == <<"code", "tag", "ind1", "ind2">>
      Reaches(at) == \A i \in 1 .. at :
        order[i] \in DOMAIN symbol.attributes => Greater \notin ToSet(symbol.attributes[order[i]])
  IN \E at \in DOMAIN order : order[at] = name /\ Reaches(at)

\* The value of an attribute ends at the quotation mark.
Attr(symbol, name) ==
  LET s == symbol.attributes[name]
      end == Find(s, Quote, 1)
  IN DecodeEntities(IF end = 0 THEN s ELSE SubSeq(s, 1, end - 1))

\* "in_tag": a text has begun a tag and not ended it.
XmlStart ==
  [records |-> <<>>, leader |-> <<>>, fields |-> <<>>, in_record |-> FALSE,
   datafield |-> DataField(<<>>, <<>>, <<>>), in_datafield |-> FALSE,
   elem |-> "none", key |-> <<>>, collected |-> <<>>, in_tag |-> FALSE, error |-> FALSE]

Collect(st, elem, key) == [st EXCEPT !.elem = elem, !.key = key, !.collected = <<>>]

AddXmlField(st, f) == IF st.in_record THEN [st EXCEPT !.fields = Append(@, f)] ELSE st

AddXmlSubfield(st, code, value) ==
  IF st.in_datafield
  THEN [st EXCEPT !.datafield.subfields = Append(@, Subfield(OneScalar(code), value))]
  ELSE st

\* A "<" begins a tag (of no known name) up to the next ">".
ReadXmlText(st, text) ==
  LET Step(acc, c) ==
        IF acc.in_tag THEN [acc EXCEPT !.in_tag = c # Greater]
        ELSE IF c = Less THEN [acc EXCEPT !.in_tag = TRUE]
        ELSE IF acc.elem = "none" THEN acc
        ELSE [acc EXCEPT !.collected = Append(@, c)]
  IN FoldLeft(Step, st, text)

\* The collected text becomes the value of its element.
CloseCollected(st) ==
  LET value == NfcNormalize(DecodeEntities(st.collected))
      closed == CASE st.elem = "leader" -> [st EXCEPT !.leader = value]
                  [] st.elem = "controlfield" -> AddXmlField(st, ControlField(st.key, value))
                  [] st.elem = "subfield" -> AddXmlSubfield(st, st.key, value)
  IN Collect(closed, "none", <<>>)

CloseOther(st, name) ==
  CASE name = "datafield" /\ st.in_record /\ st.in_datafield ->
         [AddXmlField(st, st.datafield) EXCEPT !.in_datafield = FALSE]
    [] name = "record" /\ st.in_record ->
         [st EXCEPT !.records = Append(@, [leader |-> Resize(st.leader), fields |-> st.fields]),
                    !.in_record = FALSE]
    [] OTHER -> st

KeyAttribute == [controlfield |-> "tag", datafield |-> "tag", subfield |-> "code"]

OpenElement(st, symbol) ==
  LET empty == symbol.kind = "empty"
      ind(name) == IF HasAttr(symbol, name) THEN OneScalar(Attr(symbol, name)) ELSE <<Space>>
      keyless == /\ symbol.name \in DOMAIN KeyAttribute
                 /\ ~HasAttr(symbol, KeyAttribute[symbol.name])
  IN CASE keyless -> [st EXCEPT !.error = TRUE]
       [] symbol.name = "record" -> [st EXCEPT !.leader = <<>>, !.fields = <<>>, !.in_record = TRUE]
       [] symbol.name = "leader" -> IF empty THEN st ELSE Collect(st, "leader", st.key)
       [] symbol.name = "controlfield" ->
            IF empty THEN AddXmlField(st, ControlField(Attr(symbol, "tag"), <<>>))
            ELSE Collect(st, "controlfield", Attr(symbol, "tag"))
       [] symbol.name = "datafield" ->
            [st EXCEPT !.datafield = DataField(Attr(symbol, "tag"), <<ind("ind1"), ind("ind2")>>, <<>>),
                       !.in_datafield = TRUE]
       [] symbol.name = "subfield" ->
            IF empty THEN AddXmlSubfield(st, Attr(symbol, "code"), <<>>)
            ELSE Collect(st, "subfield", Attr(symbol, "code"))
       [] OTHER -> st

ParseMarcXml(symbols) ==
  LET Step(st, symbol) ==
        CASE st.error -> st
          [] ~st.error /\ symbol.kind = "text" -> ReadXmlText(st, symbol.text)
          [] ~st.error /\ symbol.kind # "text" ->
               IF st.in_tag THEN [st EXCEPT !.in_tag = FALSE]
               ELSE IF symbol.kind # "close" THEN OpenElement(st, symbol)
               ELSE IF symbol.name = st.elem THEN CloseCollected(st)
               ELSE CloseOther(st, symbol.name)
      state[n \in 0 .. Len(symbols)] ==
        IF n = 0 THEN XmlStart ELSE Step(state[n - 1], symbols[n])
      last == state[Len(symbols)]
  IN [error |-> last.error, records |-> IF last.error THEN <<>> ELSE last.records]

(***************************************************************************)
(* MARC-in-JSON: a sequence of values.  A string is its characters between *)
(* the quotation marks; an object whose keys are tags or codes has one     *)
(* member, one whose keys are names is a record.                           *)
(***************************************************************************)
JsonLetters ==
  (Quote :> Quote) @@ (Backslash :> Backslash) @@ (8 :> \h62) @@ (12 :> \h66) @@ (LF :> \h6E)
    @@ (CR :> \h72) @@ (9 :> \h74)

UnicodeEscape(unit) == <<Backslash, LowerU>> \o Hex(unit, 4)

EscapeJsonString(s) ==
  LET Control(c) == IF c \in DOMAIN JsonLetters THEN <<Backslash, JsonLetters[c]>> ELSE UnicodeEscape(c)
  IN Escaped(s, [c \in 0 .. Space - 1 \cup DOMAIN JsonLetters |-> Control(c)])

\* Another program: everything but ASCII as UTF-16 units.
EscapeJsonAll(s) ==
  LET Units(c) ==
        IF c <= \hFFFF THEN UnicodeEscape(c)
        ELSE UnicodeEscape(\hD800 + ((c - \h10000) \div 1024)) \o UnicodeEscape(\hDC00 + ((c - \h10000) % 1024))
      At(c) == IF c < \h80 THEN EscapeJsonString(<<c>>) ELSE Units(c)
  IN FlattenSeq([i \in DOMAIN s |-> At(s[i])])

\* The unit of "\uXXXX" at a position; -1 if it is none.
UnitAt(s, i) ==
  LET digits == Within(s, i + 2, i + 5)
  IN IF /\ Within(s, i, i + 1) = <<Backslash, LowerU>>
        /\ Len(digits) = 4 /\ \A k \in 1..4 : Digit(digits[k]) < 16
     THEN Number(digits, 16) ELSE -1

\* The escape at a position: the character it stands for (none if it is
\* malformed) and its length.
EscapeAt(s, i, unit, next_unit) ==
  LET letter == IF i < Len(s) THEN s[i + 1] ELSE 0
      meant == {c \in DOMAIN JsonLetters : JsonLetters[c] = letter}
      Char(c, length) == [char |-> c, length |-> length]
  IN IF letter = LowerU
     THEN CASE unit \in \hD800 .. \hDBFF ->
                 IF next_unit \in \hDC00 .. \hDFFF
                 THEN Char(\h10000 + (unit - \hD800) * 1024 + (next_unit - \hDC00), 12)
                 ELSE Char(NoCharacter, 2)
            [] unit >= 0 /\ unit \notin \hD800 .. \hDFFF -> Char(unit, 6)
            [] unit \in {-1} \cup \hDC00 .. \hDFFF -> Char(NoCharacter, 2)
     ELSE IF letter = Slash THEN Char(Slash, 2)
     ELSE IF meant # {} THEN Char(CHOOSE c \in meant : TRUE, 2)
     ELSE Char(NoCharacter, 2)

TakeEscape(acc, escape) ==
  [error |-> escape.char = NoCharacter, out |-> Append(acc.out, escape.char), at |-> acc.at + escape.length]

\* A quotation mark ends the string, and no JSON goes on with what is left.
ParseString(s) ==
  LET Step(acc, i) ==
        IF i < acc.at \/ acc.error THEN acc
        ELSE IF s[i] = Quote THEN [acc EXCEPT !.error = TRUE]
        ELSE IF s[i] # Backslash THEN [acc EXCEPT !.out = Append(@, s[i]), !.at = i + 1]
        ELSE TakeEscape(acc, EscapeAt(s, i, UnitAt(s, i), UnitAt(s, i + 6)))
  IN FoldLeftDomain(Step, [error |-> FALSE, out |-> <<>>, at |-> 1], s)

Str(s) == [type |-> "STR", str |-> s]
Arr(items) == [type |-> "ARR", arr |-> items]
Obj(members) == [type |-> "OBJ", obj |-> members]
Member(key, value) == [type |-> "OBJ", key |-> key, value |-> value]

WriteMarcJson(rec, own) ==
  LET Protect(s) == IF own THEN EscapeJsonString(s) ELSE EscapeJsonAll(s)
      String(s) == Str(Protect(s))
      SubfieldValue(sf) == Member(Protect(sf.code), String(sf.value))
      FieldValue(f) ==
        IF f.is_control THEN String(f.value)
        ELSE Obj([ind1 |-> String(f.indicators[1]), ind2 |-> String(f.indicators[2]),
                  subfields |-> Arr([k \in DOMAIN f.subfields |-> SubfieldValue(f.subfields[k])])])
      fields == [i \in DOMAIN rec.fields |-> Member(Protect(rec.fields[i].tag), FieldValue(rec.fields[i]))]
  IN Obj([leader |-> String(rec.leader), fields |-> Arr(fields)])

Has(v, name) == name \in DOMAIN v.obj
HasOf(v, name, type) == Has(v, name) /\ v.obj[name].type = type

\* The record proper may stand in an envelope of one or two objects.
Unwrapped(v, name) == IF ~Has(v, "fields") /\ HasOf(v, name, "OBJ") THEN v.obj[name] ELSE v

JsonSubfield(sub) ==
  IF sub.value.type # "STR" THEN Error
  ELSE Subfield(OneScalar(ParseString(sub.key).out), NfcNormalize(ParseString(sub.value.str).out))

IfNone(results, value) == IF \E k \in DOMAIN results : IsError(results[k]) THEN Error ELSE value

JsonData(tag, v) ==
  LET Indicator(name) == IF Has(v, name) THEN OneScalar(ParseString(v.obj[name].str).out) ELSE <<Space>>
      subs == IF Has(v, "subfields") THEN v.obj.subfields.arr ELSE <<>>
      subfields == [k \in DOMAIN subs |-> JsonSubfield(subs[k])]
  IN IfNone(subfields, DataField(tag, <<Indicator("ind1"), Indicator("ind2")>>, subfields))

\* A control field is a string, a data field an object.
JsonField(tag, v) ==
  CASE v.type = "STR" -> IF IsControlTag(tag) THEN ControlField(tag, NfcNormalize(ParseString(v.str).out)) ELSE Error
    [] v.type = "OBJ" -> IF IsControlTag(tag) THEN Error ELSE JsonData(tag, v)
    [] OTHER -> Error

JsonRecord(v) ==
  LET entries == v.obj.fields.arr
      leader == IF HasOf(v, "leader", "STR") THEN ParseString(v.obj.leader.str).out ELSE <<>>
      fields == [k \in DOMAIN entries |-> JsonField(ParseString(entries[k].key).out, entries[k].value)]
  IN IF ~HasOf(v, "fields", "ARR") THEN Error
     ELSE IfNone(fields, [leader |-> Resize(leader), fields |-> fields])

RecordFromObject(v) == JsonRecord(Unwrapped(Unwrapped(v, "parsedRecord"), "content"))

\* The records of a collection, unless the object may be a record itself.
RecordObjects(v) ==
  LET collections == SelectSeq(<<"sourceRecords", "records">>, LAMBDA name : HasOf(v, name, "ARR"))
  IN CASE v.type = "ARR" -> v.arr
       [] v.type = "OBJ" ->
            IF (\E name \in {"fields", "parsedRecord", "content"} : Has(v, name)) \/ collections = <<>>
            THEN <<v>> ELSE v.obj[collections[1]].arr

\* The strings of a value, all of which are parsed before it is looked at.
RECURSIVE JsonStrings(_)
JsonStrings(v) ==
  CASE v.type = "STR" -> {v.str}
    [] v.type = "ARR" -> UNION {JsonStrings(item) : item \in ToSet(v.arr)}
    [] v.type = "OBJ" /\ "key" \in DOMAIN v -> {v.key} \cup JsonStrings(v.value)
    [] v.type = "OBJ" /\ "key" \notin DOMAIN v -> UNION {JsonStrings(v.obj[name]) : name \in DOMAIN v.obj}

ParseMarcJson(values) ==
  LET objects == FlattenSeq([k \in DOMAIN values |-> RecordObjects(values[k])])
      records == [k \in DOMAIN objects |-> RecordFromObject(objects[k])]
      strings == UNION {JsonStrings(v) : v \in ToSet(values)}
  IN [error |-> \/ objects = <<>>
                \/ \E s \in strings : ParseString(s).error
                \/ \E k \in DOMAIN records : IsError(records[k]),
      records |-> records]
=============================================================================
