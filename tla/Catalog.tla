------------------------------ MODULE Catalog ------------------------------
(***************************************************************************)
(* Cataloguing operations on top of record editing, chained with the edits *)
(* of RecordEdit: new records, 33X generation, abbreviations and ranking   *)
(* (src/core/catalog.cpp), links to authorities (src/core/authlink.cpp,    *)
(* with the comparison form of src/core/idnorm.cpp), and MARCspec queries  *)
(* (src/core/marcspec.cpp).                                                *)
(*                                                                         *)
(* These look inside values: Spelling gives the symbols of a value.  A     *)
(* symbol is a character, or a few letters that no operation takes apart.  *)
(***************************************************************************)
EXTENDS RecordEdit

CONSTANTS
  Spelling,      \* value -> the symbols it is made of, for leaders and values
  Punctuation,   \* the symbols that are no letters or digits, next to space and comma
  Foreign,       \* the letters and digits that are not ASCII
  Marks,         \* the symbols that are diacritics
  Folded,        \* symbol -> its form in NacoNormalize, where that differs
  Materials,     \* the kinds of new records
  Links,         \* arguments of SetLinkedUri: a tag pattern, a heading, a URI, a code
  Positions      \* bound: the positions that ranges begin and end at

Comma == ","
Period == "."
NoCode == "no code"

Spell(value) == IF value \in DOMAIN Spelling THEN Spelling[value] ELSE <<value>>

\* The value that is spelled so.
Value(symbols) ==
  IF Len(symbols) = 1 THEN symbols[1]
  ELSE CHOOSE v \in DOMAIN Spelling : Spelling[v] = symbols

\* There is one.  There always is, in the program; an instance has a table of
\* those that are needed.
IsSpelled(symbols) ==
  IF Len(symbols) = 1 THEN symbols[1] \in Strings \ DOMAIN Spelling
  ELSE \E v \in DOMAIN Spelling : Spelling[v] = symbols

\* Symbols are not in the table, and no two values are spelled alike.
ASSUME SpellingAssumption ==
  /\ "" \in DOMAIN Spelling /\ Spelling[""] = <<>>
  /\ DOMAIN Spelling \subseteq Strings
  /\ \A v \in DOMAIN Spelling : Spelling[v] \in Seq(Strings) /\ Len(Spelling[v]) # 1
  /\ \A v, w \in DOMAIN Spelling : Spelling[v] = Spelling[w] => v = w

\* The character at a position counted from 0, as in "leader/06".
At(value, position) ==
  IF position < Len(Spell(value)) THEN Spell(value)[position + 1] ELSE NoCode

(***************************************************************************)
(* New records.  Of the leader, the positions that are looked at again     *)
(* (type, level, encoding level) are given, of the 008 its length.         *)
(***************************************************************************)
Fixed(length, codes) ==
  [p \in 1..length |-> IF p - 1 \in DOMAIN codes THEN codes[p - 1] ELSE Blank]

Each(keys, value) == [k \in keys |-> value]

TypeAndLevel ==
  [book |-> <<"a", "m">>, serial |-> <<"a", "s">>, video |-> <<"g", "m">>,
   map |-> <<"e", "m">>, music |-> <<"c", "m">>, electronic |-> <<"m", "m">>]

ASSUME MaterialsAreKnown == Materials \subseteq DOMAIN TypeAndLevel \cup {"authority"}

NewLeader(material) ==
  Fixed(24, IF material = "authority" THEN (6 :> "z") @@ (17 :> "o")
            ELSE (6 :> TypeAndLevel[material][1]) @@ (7 :> TypeAndLevel[material][2]) @@ (17 :> "5"))
New008 == Fixed(40, <<>>)

ASSUME NewTextsAreSpelled ==
  IsSpelled(New008) /\ \A material \in Materials : IsSpelled(NewLeader(material))

\* What there is to fill in: the heading of an authority, the title of the others.
NewRecord(material) ==
  [leader |-> Value(NewLeader(material)),
   fields |-> <<Control(8, Value(New008)),
                Data(IF material = "authority" THEN 100 ELSE 245, Blank, <<Sub("a", "")>>)>>]

(***************************************************************************)
(* RankRecord.                                                             *)
(***************************************************************************)

EncodingLevelRank(level) ==
  CASE level = Blank -> 100 [] level = "4" -> 90 [] level = "1" -> 85 [] level = "I" -> 80
    [] level = "2" -> 70 [] level = "5" -> 60 [] level = "8" -> 50 [] level = "3" -> 40
    [] level = "K" -> 35 [] level = "M" -> 30 [] level = "7" -> 25 [] level = "u" -> 10
    [] level = "z" -> 5 [] OTHER -> 0

\* A language code that is neither blank nor filled.
NamesLanguage(f) ==
  /\ f.is_control /\ f.tag = 8
  /\ Len(Spell(f.value)) >= 38
  /\ \A fill \in {Blank, "|"} : \E p \in 35..37 : At(f.value, p) # fill

Completeness(fields) ==
  LET HasTag(tags) == \E i \in DataFields(fields, tags) : TRUE
      HasTitle(code) == \E i \in DataFields(fields, {245}) :
        \E sf \in ToSet(fields[i].subs) : sf.code = code /\ sf.value # ""
      subjects == Cardinality(DataFields(fields, 600..699))
      Score(points, condition) == IF condition THEN points ELSE 0
  IN Score(15, HasTitle("a")) + Score(5, HasTitle("b")) + Score(10, HasTag(100..199))
       + Score(5, HasTag(700..799)) + (IF subjects > 5 THEN 15 ELSE 3 * subjects)
       + Score(10, HasTag({300})) + Score(10, HasTag({260, 264}))
       + Score(10, \E i \in DOMAIN fields : NamesLanguage(fields[i])) + Score(10, HasTag({20, 10}))
       + Score(5, HasTag(500..599)) + Score(5, \A tag \in 336..338 : HasTag({tag}))

RankRecord(r) ==
  (6 * EncodingLevelRank(At(r.leader, 17)) + 4 * Completeness(r.fields)) \div 10

(***************************************************************************)
(* Generate33X: content, media and carrier type from the coded values.  A  *)
(* term is given by its code.                                              *)
(***************************************************************************)
NoTerm == ""

\* The value of a table for a key, or the default.
Lookup(table, key, default) == IF key \in DOMAIN table THEN table[key] ELSE default

Content ==
  [a |-> "txt", t |-> "txt", c |-> "ntm", d |-> "ntm", e |-> "cri", f |-> "cri", g |-> "tdi",
   i |-> "spw", j |-> "prm"]
ContentFor(type, program) ==
  IF type = "m" THEN (IF program THEN "cop" ELSE "cod") ELSE Lookup(Content, type, NoTerm)

Media == [s |-> "s", v |-> "v", c |-> "c", g |-> "g", m |-> "g", h |-> "h", f |-> "n"]

\* A carrier's code is the 007's category and a letter for its designation,
\* which is mostly its own.
Designations ==
  [s |-> {"e", "g", "i", "q", "s", "t", "w"}, v |-> {"c", "f", "r"},
   c |-> {"r", "b", "f", "k", "a", "c", "h"}, g |-> {"c", "d", "f", "s", "t", "o"},
   m |-> {"c", "f", "o", "r"}, h |-> {"a", "b", "c", "d", "e", "f", "g", "h", "j"}]
CarrierLetter(category, designation) ==
  CASE category = "c" -> Lookup([a |-> "h", c |-> "e", h |-> "a"], designation, designation)
    [] category = "g" -> Lookup([o |-> "f"], designation, designation)
    [] OTHER -> designation

\* Audio, video and computer carriers are discs unless said otherwise, tactile
\* ones always volumes.
CarrierFor(category, designation) ==
  LET listed == designation \in Lookup(Designations, category, {}) IN
  CASE category = "f" -> "nc"
    [] category # "f" /\ listed -> category \o CarrierLetter(category, designation)
    [] category \in {"s", "v", "c"} /\ ~listed -> category \o "d"
    [] OTHER -> NoTerm

\* The terms, and what else is written with them, are texts.
ASSUME TermsAreStrings ==
  /\ \A type \in DOMAIN Content : Content[type] \in Strings
  /\ \A category \in DOMAIN Media : Media[category] \in Strings
  /\ {"cop", "cod", "sti", "tct", "nc", "rdacontent", "rdamedia", "rdacarrier", "2"} \subseteq Strings
  /\ \A category \in {"s", "v", "c"} : category \o "d" \in Strings
  /\ \A category \in DOMAIN Designations : \A l \in Designations[category] :
       category \o CarrierLetter(category, l) \in Strings

Filled(fields, tag) ==
  LET group == OfTag(fields, tag)
  IN ElementsAt(group, {k \in DOMAIN group : group[k].is_control /\ group[k].value # ""})
FirstFilled(fields, tag) == IF Filled(fields, tag) = <<>> THEN "" ELSE Filled(fields, tag)[1].value

\* The leader's type, or the first 006 whose type has a term.
ContentByType(leader, f006s, f008) ==
  LET by_leader == ContentFor(At(leader, 6), At(f008, 26) = "b")
      by_006 == [k \in DOMAIN f006s |-> ContentFor(At(f006s[k].value, 0), At(f006s[k].value, 9) = "b")]
      found == {k \in DOMAIN by_006 : by_006[k] # NoTerm}
  IN CASE by_leader # NoTerm -> by_leader
       [] by_leader = NoTerm /\ found # {} -> by_006[CHOOSE k \in found : \A j \in found : k <= j]
       [] OTHER -> NoTerm

\* The terms for 336, 337 and 338.  A projected still and a text to be felt
\* are told by the 007 only; a printed work has none.
TermsFor(leader, by_type, f007) ==
  LET type == At(leader, 6)
      category == At(f007, 0)
      printish == type \in {"a", "t", "c", "d", "e", "f"}
      content == CASE category = "g" /\ type = "g" -> "sti"
                   [] category = "f" /\ type \in {"a", "t"} -> "tct"
                   [] OTHER -> by_type
      printed == f007 = "" /\ printish
  IN [tag \in 336..338 |->
        CASE tag = 336 -> content
          [] tag = 337 -> IF printed THEN "n" ELSE Lookup(Media, category, NoTerm)
          [] tag = 338 -> IF printed THEN "nc" ELSE CarrierFor(category, At(f007, 1))]

TermsOf(r) ==
  TermsFor(r.leader, ContentByType(r.leader, Filled(r.fields, 6), FirstFilled(r.fields, 8)),
           FirstFilled(r.fields, 7))

Source(tag) ==
  CASE tag = 336 -> "rdacontent" [] tag = 337 -> "rdamedia" [] tag = 338 -> "rdacarrier"

Missing(fields, tag) == tag \notin TagsOf(fields)

TermField(term, tag) ==
  Data(tag, Blank, <<Sub("a", term), Sub("b", term), Sub("2", Source(tag))>>)

\* A field for a term, if there is one and the record had no such field.
GenerateOne(fields, terms, out, tag) ==
  IF Missing(fields, tag) /\ terms[tag] # NoTerm
  THEN AddField(out, TermField(terms[tag], tag), "order") ELSE out

Generated(fields, terms) ==
  GenerateOne(fields, terms,
    GenerateOne(fields, terms, GenerateOne(fields, terms, fields, 336), 337), 338)

Generate33X(r) == [r EXCEPT !.fields = Generated(@, TermsOf(r))]

(***************************************************************************)
(* RdaExpandAbbreviations.  No abbreviation is the beginning of another    *)
(* one's word, so that their order does not matter.                        *)
(***************************************************************************)
Abbreviations ==
  [facsims |-> "facsimiles", facsim |-> "facsimile", ports |-> "portraits", port |-> "portrait",
   ill |-> "illustrations", col |-> "color", ed |-> "edition", v |-> "volumes", p |-> "pages"]

\* Of the letters and digits, those of ASCII.
IsWord(symbol) == symbol \notin Punctuation \cup Marks \cup Foreign \cup {Blank, Comma}

\* An abbreviation stands alone: no letter before it, none behind its period.
ExpandsAt(s, i) ==
  /\ s[i] \in DOMAIN Abbreviations
  /\ i < Len(s) /\ s[i + 1] = Period
  /\ i > 1 => ~IsWord(s[i - 1])
  /\ i + 1 < Len(s) => ~IsWord(s[i + 2])

\* The word is written out, and its period dropped.
Expanded(s) ==
  LET written == [i \in DOMAIN s |-> IF ExpandsAt(s, i) THEN Abbreviations[s[i]] ELSE s[i]]
  IN ElementsAt(written, {i \in DOMAIN s : ~(i > 1 /\ ExpandsAt(s, i - 1))})

ExpandAbbrevs(value) == Value(Expanded(Spell(value)))

RdaExpandAbbreviations(fields) ==
  LET Expand(sf) == Sub(sf.code, ExpandAbbrevs(sf.value))
      ExpandA(sf) == IF sf.code = "a" THEN Expand(sf) ELSE sf
      ExpandIn(f) == IF f.tag = 250 THEN MapSubs(f, ExpandA) ELSE MapSubs(f, Expand)
  IN MapFields(fields, DataFields(fields, {250, 300}), ExpandIn)

\* Words are not punctuation, no expansion is an abbreviation, and what is
\* written is a text.
ASSUME AbbreviationAssumption ==
  /\ Period \in Punctuation
  /\ \A a \in DOMAIN Abbreviations :
       /\ IsWord(a) /\ IsWord(Abbreviations[a]) /\ Abbreviations[a] \in Strings
       /\ Abbreviations[a] \notin DOMAIN Abbreviations
  /\ \A v \in DOMAIN Spelling : IsSpelled(Expanded(Spelling[v]))

(***************************************************************************)
(* Links to authorities.                                                   *)
(***************************************************************************)

\* Diacritics and punctuation are dropped, commas and spaces become one space
\* between words, none at the ends.
NacoNormalize(symbols) ==
  LET Step(acc, c) ==
        CASE c \in Marks -> acc
          [] c \in {Comma, Blank} -> [acc EXCEPT !.pending_space = TRUE]
          [] c \in Punctuation -> acc
          [] OTHER -> [pending_space |-> FALSE,
                       out |-> acc.out \o (IF acc.pending_space /\ acc.out # <<>> THEN <<Blank>> ELSE <<>>)
                                 \o <<Lookup(Folded, c, c)>>]
  IN FoldLeft(Step, [pending_space |-> FALSE, out |-> <<>>], symbols).out

\* The subfields' values with single spaces between them.
JoinSubfields(subs) ==
  FlattenSeq([k \in DOMAIN subs |-> (IF k = 1 THEN <<>> ELSE <<Blank>>) \o Spell(subs[k].value)])

OfCodes(subs, codes) == ElementsAt(subs, {i \in DOMAIN subs : subs[i].code \in codes})

\* Numbered subfields and $w are not part of the heading.
HeadingCodes ==
  {"a", "b", "c", "d", "e", "f", "g", "h", "i", "j", "k", "l", "m", "n", "o", "p", "q", "r", "s",
   "t", "u", "v", "x", "y", "z"}
JoinHeading(f) == JoinSubfields(OfCodes(f.subs, HeadingCodes))

\* Mutant: every link that is there is set, instead of one.
LinkEvery(subs, uri, code) ==
  IF \E i \in DOMAIN subs : subs[i].code = code
  THEN [i \in DOMAIN subs |-> IF subs[i].code = code THEN Sub(code, uri) ELSE subs[i]]
  ELSE Append(subs, Sub(code, uri))

WithoutLinks(subs, code) == OfCodes(subs, Strings \ {code})

\* The first link is set, the others are dropped.
Link(subs, uri, code) ==
  LET links == {i \in DOMAIN subs : subs[i].code = code}
      first == CHOOSE i \in links : \A j \in links : i <= j
  IN IF links = {} THEN Append(subs, Sub(code, uri))
     ELSE SubSeq(subs, 1, first - 1) \o <<Sub(code, uri)>>
            \o WithoutLinks(SubSeq(subs, first + 1, Len(subs)), code)

\* ValidateLinkCode.
ASSUME LinkAssumption ==
  /\ {"0", "1"} \subseteq Strings
  /\ Links \subseteq [tags : SUBSET Nat, heading : Seq(Strings), uri : Strings, code : {"0", "1"}]

\* A heading that normalises to nothing links nothing.
LinkedBy(fields, link) ==
  LET want == NacoNormalize(link.heading)
  IN {i \in DataFields(fields, link.tags) :
        want # <<>> /\ NacoNormalize(JoinHeading(fields[i])) = want}

SetLinkedUri(fields, link) ==
  LET SetIn(f) == [f EXCEPT !.subs = Link(@, link.uri, link.code)]
  IN MapFields(fields, LinkedBy(fields, link), SetIn)

ClearLinkedUris(fields, tags, code) ==
  LET ClearIn(f) == [f EXCEPT !.subs = WithoutLinks(@, code)]
  IN MapFields(fields, DataFields(fields, tags), ClearIn)

(***************************************************************************)
(* MARCspec.  A range is absent (<<>>), one position <<p>> or <<p, q>>, in *)
(* positions from 0; the last one is written #.  An expression is of the   *)
(* leader or of fields; the text it is written in is not modelled.         *)
(***************************************************************************)
LastOne == -1

\* Mutant: [#-n] are the last n.
ResolveLastN(range, len) ==
  {i \in 1..len : Len(range) = 2 /\ range[1] = LastOne => i > len - range[2]}

\* The positions, from 1, that a range selects; [#-n] are the last n + 1.
Resolve(range, len) ==
  LET final == len - 1
      from_end == Len(range) = 2 /\ range[1] = LastOne /\ range[2] # LastOne
      Place(p) == IF p = LastOne THEN final ELSE p
      start == IF ~from_end THEN Place(range[1])
               ELSE IF range[2] >= final THEN 0 ELSE final - range[2]
      end == IF from_end THEN final ELSE Place(range[Len(range)])
  IN {i \in 1..len : start <= i - 1 /\ i - 1 <= end}

Selected(items, range) ==
  IF range = <<>> THEN items ELSE ElementsAt(items, Resolve(range, Len(items)))

\* Nothing is said of a slice of nothing.
Slices(symbols, range) ==
  IF range # <<>> /\ Selected(symbols, range) = <<>> THEN <<>> ELSE <<Selected(symbols, range)>>

SubfieldValues(f, sub) ==
  LET values == [k \in DOMAIN f.subs |-> IF f.subs[k].code = sub.code THEN <<Spell(f.subs[k].value)>> ELSE <<>>]
  IN Selected(FlattenSeq(values), sub.index)

ValuesOf(f, spec) ==
  CASE spec.indicator -> IF f.is_control THEN <<>> ELSE <<<<f.ind1>>>>
    [] ~spec.indicator /\ spec.char_range # <<>> ->
         IF f.is_control THEN Slices(Spell(f.value), spec.char_range) ELSE <<>>
    [] ~spec.indicator /\ spec.char_range = <<>> /\ spec.subfields # <<>> ->
         IF f.is_control THEN <<>>
         ELSE FlattenSeq([n \in DOMAIN spec.subfields |-> SubfieldValues(f, spec.subfields[n])])
    [] OTHER -> <<IF f.is_control THEN Spell(f.value) ELSE JoinSubfields(f.subs)>>

MarcSpecEvaluate(r, spec) ==
  LET matched == ElementsAt(r.fields, PositionsOf(r.fields, spec.tags))
      chosen == Selected(matched, spec.field_index)
  IN IF spec.is_leader THEN Slices(Spell(r.leader), spec.char_range)
     ELSE FlattenSeq([k \in DOMAIN chosen |-> ValuesOf(chosen[k], spec)])

-----------------------------------------------------------------------------
(***************************************************************************)
(* Chains of edits and cataloguing operations.                             *)
(***************************************************************************)

CatalogInit ==
  /\ original \in Records \cup {NewRecord(material) : material \in Materials}
  /\ rec = original
  /\ last = [edit |-> "none", tags |-> {}]
  /\ edits = 0

Generate == Edit("generate", 336..338, Generate33X(rec).fields)

ExpandAbbreviations == Edit("expand", {250, 300}, RdaExpandAbbreviations(rec.fields))

SetLink == \E link \in Links : Edit("link", link.tags, SetLinkedUri(rec.fields, link))

ClearLinks == \E link \in Links :
  Edit("unlink", link.tags, ClearLinkedUris(rec.fields, link.tags, link.code))

CatalogNext == Next \/ Generate \/ ExpandAbbreviations \/ SetLink \/ ClearLinks

CatalogSpec == CatalogInit /\ [][CatalogNext]_vars

-----------------------------------------------------------------------------
(***************************************************************************)
(* Correctness.                                                            *)
(***************************************************************************)

LinksOf(f, code) == OfCodes(f.subs, {code})

\* Generating 33X fields and expanding abbreviations settle after one pass,
\* commute and keep every field there was, and a generated field never makes
\* a record rank lower.
DescriptionSettles ==
  LET generated == Generate33X(rec)
      Expand(r) == [r EXCEPT !.fields = RdaExpandAbbreviations(@)] IN
  /\ Generate33X(generated) = generated
  /\ Expand(Expand(rec)) = Expand(rec)
  /\ Generate33X(Expand(rec)) = Expand(generated)
  /\ \A f \in ToSet(rec.fields) : OfTag(generated.fields, f.tag) = OfTag(rec.fields, f.tag)
  /\ RankRecord(generated) >= RankRecord(rec)

\* A heading links the field it was taken from.  Linked fields have one link,
\* the last one that was set, setting it again changes nothing, and it can be
\* taken back: clearing leaves what clearing left before.
LinksSettle ==
  /\ \A i \in DataFields(rec.fields, TagsOf(rec.fields)), link \in Links :
       LET heading == JoinHeading(rec.fields[i])
           own == [link EXCEPT !.heading = heading, !.tags = {rec.fields[i].tag}] IN
       NacoNormalize(heading) # <<>> => i \in LinkedBy(rec.fields, own)
  /\ \A link, other \in Links :
       LET once == SetLinkedUri(rec.fields, link)
           again == [link EXCEPT !.uri = other.uri] IN
       /\ SetLinkedUri(once, link) = once
       /\ SetLinkedUri(once, again) = SetLinkedUri(rec.fields, again)
       /\ \A i \in LinkedBy(once, link) : LinksOf(once[i], link.code) = <<Sub(link.code, link.uri)>>
       /\ ClearLinkedUris(once, link.tags, link.code)
            = ClearLinkedUris(rec.fields, link.tags, link.code)

\* Clean-up scripts run over the same records again and again, in any order:
\* whatever edits a record has been through, a second pass changes nothing
\* more (catalog.hpp:46-64, authlink.hpp:35-53).
CleanupSettles == DescriptionSettles /\ LinksSettle

ASSUME PositionsAssumption == Positions \subseteq Nat

Expression(tags) ==
  [is_leader |-> FALSE, tags |-> tags, field_index |-> <<>>, char_range |-> <<>>,
   subfields |-> <<>>, indicator |-> FALSE]

\* What [0-n] selects, followed by what [n+1-#] selects, is all there is, and
\* [#-n] selects the last n + 1, for occurrences of fields, subfields and
\* characters, however few there are; and MARCspec counts occurrences as the
\* selectors of edits do (marcspec.cpp:7-13, edit.hpp:18-24).
SpecRangesPartition ==
  \A tags \in {sel.tags : sel \in Selectors}, n \in Positions :
    LET field(range) == [Expression(tags) EXCEPT !.field_index = range]
        subfield(range) == [field(<<0>>) EXCEPT !.subfields = <<[code |-> "a", index |-> range]>>]
        characters(range) == [field(<<0>>) EXCEPT !.char_range = range]
        Items(kind, range) ==
          CASE kind = "field" -> MarcSpecEvaluate(rec, field(range))
            [] kind = "subfield" -> MarcSpecEvaluate(rec, subfield(range))
            [] kind = "character" -> FlattenSeq(MarcSpecEvaluate(rec, characters(range)))
            [] kind = "leader" ->
                 FlattenSeq(MarcSpecEvaluate(rec, [characters(range) EXCEPT !.is_leader = TRUE]))
        occurrence == [tags |-> tags, ind1 |-> Unset, code |-> Unset, values |-> {}, occurrence |-> n]
        selected == ElementsAt(rec.fields, SelectFields(rec.fields, occurrence)) IN
    /\ \A kind \in {"field", "subfield", "character", "leader"} :
         LET all == Items(kind, <<0, LastOne>>) IN
         /\ Items(kind, <<0, n>>) \o Items(kind, <<n + 1, LastOne>>) = all
         /\ Items(kind, <<LastOne, n>>) = SubSeq(all, Max({1, Len(all) - n}), Len(all))
    /\ Items("field", <<n>>) =
         FlattenSeq([k \in DOMAIN selected |-> ValuesOf(selected[k], Expression(tags))])
=============================================================================
