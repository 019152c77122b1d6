----------------------------- MODULE RecordEdit -----------------------------
(***************************************************************************)
(* Editing, merging and comparing records: src/core/edit.cpp, bound to the *)
(* marc_* SQL functions that map a list of fields to a new one and are     *)
(* chained in queries.  The state is the record such a chain has reached.  *)
(*                                                                         *)
(* A tag is its number, a tag pattern the set of tags it matches, a value  *)
(* one of a few strings.  A regular expression is the set of values it     *)
(* matches, a replacement or a case mapping a function on the values it    *)
(* changes.                                                                *)
(***************************************************************************)
EXTENDS Integers, Sequences, FiniteSets, SequencesExt

CONSTANTS
  Strings,     \* the strings
  Records,     \* the records to start from
  NewFields,   \* the fields to add
  Selectors,   \* the field selectors
  Values,      \* the values to set, and to map
  Rules,       \* the rewritings of values: functions
  RuleLists,   \* lists of pairs of a selector by tag or code and a rewriting
  Moves,       \* pairs of a tag pattern and a tag
  Templates,   \* templates of BuildField, with their number of field lines
  Merges,      \* pairs of an incoming record and a merge profile
  MaxEdits     \* bound: edits in a chain

VARIABLES
  original,    \* the record the chain started from
  rec,         \* the record it has reached
  last,        \* the last edit: its name, and the tags it is about
  edits        \* how many edits there were

vars == <<original, rec, last, edits>>

Blank == " "
Backslash == "\\"
\* A part of a selector that is not given.
Unset == "unset"
EveryOccurrence == -1

\* A control field has a value, a data field indicators and subfields.
Control(tag, value) ==
  [tag |-> tag, is_control |-> TRUE, value |-> value, ind1 |-> Blank, subs |-> <<>>]
Data(tag, ind1, subs) ==
  [tag |-> tag, is_control |-> FALSE, value |-> "", ind1 |-> ind1, subs |-> subs]
Sub(code, value) == [code |-> code, value |-> value]

\* Tags below 010 are those of control fields.
TagIsControl(tag) == tag < 10

Subfields == [code : Strings, value : Strings]
Fields ==
  [tag : Nat, is_control : BOOLEAN, value : Strings, ind1 : Strings, subs : Seq(Subfields)]

\* The fields that a reader makes, which goes by the tag, and the records.
KindFields == {f \in Fields : f.is_control = TagIsControl(f.tag)}
MarcRecords == [leader : Strings, fields : Seq(KindFields)]

\* A rewriting gives a value for every value it changes.
IsRule(rule) == \A value \in DOMAIN rule : rule[value] \in Strings

\* Edits start from records as they are read, and add such fields.
ASSUME EditAssumption ==
  /\ {"", Blank, Backslash, "$", "{dollar}", "a", "b"} \subseteq Strings
  /\ Records \subseteq MarcRecords
  /\ NewFields \subseteq KindFields
  /\ Values \subseteq Strings
  /\ \A rule \in Rules : IsRule(rule)
  /\ \A rules \in RuleLists :
       /\ Len(rules) \in Nat /\ DOMAIN rules = 1..Len(rules)
       /\ \A i \in DOMAIN rules : IsRule(rules[i].rule)
  /\ \A m \in Moves : m.to \in Nat
  /\ \A tmpl \in Templates : tmpl.to \in Nat
  /\ \A m \in Merges :
       /\ m.incoming \in MarcRecords
       /\ m.profile.default \in {"protected", "replace", "add", "keep"}

(***************************************************************************)
(* Selection and insertion.                                                *)
(***************************************************************************)

SubfieldMatches(sel, sf) == sf.code = sel.code /\ sf.value \in sel.values

Matches(sel, f) ==
  /\ f.tag \in sel.tags
  /\ sel.ind1 # Unset => ~f.is_control /\ f.ind1 = sel.ind1
  /\ sel.code # Unset =>
       ~f.is_control /\ \E i \in DOMAIN f.subs : SubfieldMatches(sel, f.subs[i])

\* The positions of the fields that are selected: all that match, or the one
\* at the given occurrence, counted from 0.
SelectFields(fields, sel) ==
  LET matched == {i \in DOMAIN fields : Matches(sel, fields[i])}
      Occurrence(i) == Cardinality({j \in matched : j < i})
  IN {i \in matched : sel.occurrence = EveryOccurrence \/ Occurrence(i) = sel.occurrence}

\* Mutant: the position of the last field that is not greater, not behind it.
TagOrderPositionBefore(fields, tag) ==
  LET fitting == {0} \cup {i \in DOMAIN fields : fields[i].tag <= tag}
      last_fitting == CHOOSE i \in fitting : \A j \in fitting : j <= i
  IN IF last_fitting = 0 THEN 0 ELSE last_fitting - 1

\* Behind the last field whose tag is not greater.
TagOrderPosition(fields, tag) ==
  LET fitting == {0} \cup {i \in DOMAIN fields : fields[i].tag <= tag}
  IN CHOOSE i \in fitting : \A j \in fitting : j <= i

Insert(fields, pos, group) ==
  SubSeq(fields, 1, pos) \o group \o SubSeq(fields, pos + 1, Len(fields))

\* Every field at the positions is changed by Op, the others stay.
MapFields(fields, positions, Op(_)) ==
  [i \in DOMAIN fields |-> IF i \in positions THEN Op(fields[i]) ELSE fields[i]]

MapSubs(f, Op(_)) == [f EXCEPT !.subs = [i \in DOMAIN @ |-> Op(@[i])]]

DataFields(fields, tags) ==
  {i \in DOMAIN fields : ~fields[i].is_control /\ fields[i].tag \in tags}

\* The elements at the positions, in order.
ElementsAt(s, positions) ==
  LET upto[n \in 0..Len(s)] ==
        IF n = 0 THEN <<>>
        ELSE IF n \in positions THEN Append(upto[n - 1], s[n]) ELSE upto[n - 1]
  IN upto[Len(s)]

PositionsOf(fields, tags) == {i \in DOMAIN fields : fields[i].tag \in tags}
OfTag(fields, tag) == ElementsAt(fields, PositionsOf(fields, {tag}))
TagsOf(fields) == {fields[i].tag : i \in DOMAIN fields}

(***************************************************************************)
(* The edits.                                                              *)
(***************************************************************************)

AddField(fields, f, position) ==
  Insert(fields, IF position = "end" THEN Len(fields) ELSE TagOrderPosition(fields, f.tag), <<f>>)

\* Mutant: fields are erased one after the other at their old positions.
RemoveFieldsShifting(fields, sel) ==
  LET RemoveOne(out, i) == IF i \in DOMAIN out THEN RemoveAt(out, i) ELSE out
      positions == ElementsAt([i \in DOMAIN fields |-> i], SelectFields(fields, sel))
  IN FoldLeft(RemoveOne, fields, positions)

RemoveFields(fields, sel) ==
  ElementsAt(fields, DOMAIN fields \ SelectFields(fields, sel))

\* RemoveFields with remove_subfield_only: a field without subfields goes too.
RemoveSubfields(fields, sel) ==
  LET picked == SelectFields(fields, sel)
      Kept(f) == [f EXCEPT !.subs = ElementsAt(@, {k \in DOMAIN @ : ~SubfieldMatches(sel, @[k])})]
      emptied == {i \in picked : Kept(fields[i]).subs = <<>>}
  IN ElementsAt(MapFields(fields, picked, Kept), DOMAIN fields \ emptied)

SetSubfield(fields, sel, code, value, add_if_missing) ==
  LET Has(f) == \E i \in DOMAIN f.subs : f.subs[i].code = code
      Set(sf) == IF sf.code = code THEN Sub(code, value) ELSE sf
      SetIn(f) == IF Has(f) \/ ~add_if_missing THEN MapSubs(f, Set)
                  ELSE [f EXCEPT !.subs = Append(@, Sub(code, value))]
  IN MapFields(fields, {i \in SelectFields(fields, sel) : ~fields[i].is_control}, SetIn)

\* What a rule says of a value; the values that it does not change are not
\* in its domain.
Rewritten(rule, value) == IF value \in DOMAIN rule THEN rule[value] ELSE value

\* The values of both kinds of fields or of one, and only those of the
\* selector's code, when it has one.
ReplaceInValues(fields, sel, rule, kinds) ==
  LET Rewrite(sf) == IF sel.code \in {Unset, sf.code} THEN Sub(sf.code, Rewritten(rule, sf.value)) ELSE sf
      RewriteIn(f) == IF f.is_control THEN [f EXCEPT !.value = Rewritten(rule, @)]
                      ELSE MapSubs(f, Rewrite)
  IN MapFields(fields, {i \in SelectFields(fields, sel) : fields[i].is_control \in kinds},
               RewriteIn)

\* One pass after the other.
ApplyReplaceRules(fields, rules) ==
  FoldLeft(LAMBDA out, step : ReplaceInValues(out, step.sel, step.rule, BOOLEAN), fields, rules)

SetIndicators(fields, sel, ind1) ==
  LET SetIn(f) == [f EXCEPT !.ind1 = ind1]
  IN MapFields(fields, {i \in SelectFields(fields, sel) : ~fields[i].is_control}, SetIn)

\* Mutant: the boundary is not looked at.
CrossesBoundaryNever(fields, tags, to) == FALSE

\* A field that would have to change its kind with its tag.
CrossesBoundary(fields, tags, to) ==
  \E i \in DOMAIN fields :
    fields[i].tag \in tags /\ fields[i].is_control # TagIsControl(to)

MoveField(fields, tags, to) ==
  LET Retag(f) == [f EXCEPT !.tag = to]
  IN MapFields(fields, PositionsOf(fields, tags), Retag)

\* The copies are inserted one after the other.
CopyField(fields, tags, to) ==
  LET copies == ElementsAt(fields, PositionsOf(fields, tags))
      Copy(out, f) == Insert(out, TagOrderPosition(out, to), <<[f EXCEPT !.tag = to]>>)
  IN FoldLeft(Copy, fields, copies)

SwapThrows(fields, a, b) ==
  \/ TagIsControl(a) # TagIsControl(b)
  \/ CrossesBoundary(fields, {a}, b)
  \/ CrossesBoundary(fields, {b}, a)

SwapFields(fields, a, b) ==
  LET Retag(f) == [f EXCEPT !.tag = IF @ = a THEN b ELSE a]
  IN MapFields(fields, PositionsOf(fields, {a, b}), Retag)

\* A stable sort by tag.
SortFields(fields) ==
  FoldLeft(LAMBDA out, f : Insert(out, TagOrderPosition(out, f.tag), <<f>>), <<>>, fields)

RenameSubfield(fields, tags, from, to) ==
  LET Rename(sf) == IF sf.code = from THEN Sub(to, sf.value) ELSE sf
      RenameIn(f) == MapSubs(f, Rename)
  IN MapFields(fields, DataFields(fields, tags), RenameIn)

ChangeCase(fields, tags, code, mapping) ==
  LET Change(sf) == IF code \in {Unset, sf.code} THEN Sub(sf.code, Rewritten(mapping, sf.value)) ELSE sf
      ChangeIn(f) == MapSubs(f, Change)
  IN MapFields(fields, DataFields(fields, tags), ChangeIn)

\* In the breaker format a dollar sign is written {dollar}.
EscapeBreaker(value) == IF value = "$" THEN "{dollar}" ELSE value
Unescape(text) == IF text = "{dollar}" THEN "$" ELSE text

\* The value of a template's placeholder.
FirstSubfield(fields, tags, code) ==
  LET Hits(f) == ElementsAt(f.subs, {i \in DOMAIN f.subs : f.subs[i].code = code})
      all == FlattenSeq([k \in DOMAIN fields |->
               IF k \in DataFields(fields, tags) THEN Hits(fields[k]) ELSE <<>>])
  IN IF all = <<>> THEN "" ELSE all[1].value

\* The template, with its placeholder filled in, is parsed as breaker text.
\* (That brings values into NFC, and here they are.)
BuildField(fields, tmpl) ==
  LET value == EscapeBreaker(FirstSubfield(fields, tmpl.tags, tmpl.code))
      field == IF TagIsControl(tmpl.to) THEN Control(tmpl.to, Unescape(value))
               ELSE Data(tmpl.to, Blank, <<Sub("a", Unescape(value))>>)
  IN AddField(fields, field, "order")

(***************************************************************************)
(* MergeRecords.                                                           *)
(***************************************************************************)

ActionOf(profile, tag) ==
  CASE tag \in profile.protected -> "protected"
    [] tag \in profile.replace \ profile.protected -> "replace"
    [] tag \in profile.add \ (profile.protected \cup profile.replace) -> "add"
    [] OTHER -> profile.default

\* The first of the group's positions is where it was - unless nothing is
\* left behind it, which is taken for a group that was not there.
ReplaceGroup(fields, tag, group) ==
  LET old == PositionsOf(fields, {tag})
      rest == ElementsAt(fields, DOMAIN fields \ old)
      before == IF old = {} THEN Len(rest)
                ELSE (CHOOSE i \in old : \A j \in old : i <= j) - 1
      pos == IF before = Len(rest) THEN TagOrderPosition(rest, tag) ELSE before
  IN Insert(rest, pos, group)

AddGroup(fields, tag, group) ==
  LET old == PositionsOf(fields, {tag})
      pos == IF old = {} THEN TagOrderPosition(fields, tag)
             ELSE CHOOSE i \in old : \A j \in old : j <= i
  IN Insert(fields, pos, group)

\* Mutant: what the base has is not kept but added to.
KeepGroupAlways(fields, tag, group) ==
  Insert(fields, TagOrderPosition(fields, tag), group)

KeepGroup(fields, tag, group) ==
  IF PositionsOf(fields, {tag}) # {} THEN fields
  ELSE Insert(fields, TagOrderPosition(fields, tag), group)

\* The tags of a record in the order of their first appearance.
FirstAppearances(fields) ==
  LET tags == [k \in DOMAIN fields |-> fields[k].tag]
  IN ElementsAt(tags, {i \in DOMAIN tags : \A j \in 1..(i - 1) : tags[j] # tags[i]})

MergeFields(base, incoming, profile) ==
  LET MergeGroup(out, tag) ==
        LET group == OfTag(incoming, tag) IN
        CASE ActionOf(profile, tag) = "protected" -> out
          [] ActionOf(profile, tag) = "replace" -> ReplaceGroup(out, tag, group)
          [] ActionOf(profile, tag) = "add" -> AddGroup(out, tag, group)
          [] ActionOf(profile, tag) = "keep" -> KeepGroup(out, tag, group)
  IN FoldLeft(MergeGroup, base, FirstAppearances(incoming))

MergeRecords(base, incoming, profile) ==
  [leader |-> IF base.leader = "" THEN incoming.leader ELSE base.leader,
   fields |-> MergeFields(base.fields, incoming.fields, profile)]

(***************************************************************************)
(* DiffRecords.                                                            *)
(***************************************************************************)

\* The breaker form of a field, by which fields are compared: a blank
\* indicator is a backslash, a dollar sign is {dollar}.
RenderFieldBreaker(f) ==
  LET Escape(sf) == Sub(sf.code, EscapeBreaker(sf.value)) IN
  [MapSubs(f, Escape) EXCEPT
     !.value = EscapeBreaker(@), !.ind1 = IF @ = Blank THEN Backslash ELSE @]

\* Mutant: occurrences that only one of the records has are left out.
OccurrencesInBoth(in_a, in_b) == IF Len(in_a) < Len(in_b) THEN Len(in_a) ELSE Len(in_b)

Occurrences(in_a, in_b) == IF Len(in_a) < Len(in_b) THEN Len(in_b) ELSE Len(in_a)

\* A field is given by its position in its record, 0 for none.
Entry(kind, tag, i, j) == [kind |-> kind, tag |-> tag, field_no_a |-> i, field_no_b |-> j]

\* The leader's entry, which is not about a tag.
LDR == -1

\* The k-th occurrence of a tag in one record is compared with the k-th in
\* the other.
DiffEntries(a, b, tag) ==
  LET in_a == ElementsAt([i \in DOMAIN a |-> i], PositionsOf(a, {tag}))
      in_b == ElementsAt([j \in DOMAIN b |-> j], PositionsOf(b, {tag}))
      Compare(k) ==
        CASE k > Len(in_b) -> <<Entry("removed", tag, in_a[k], 0)>>
          [] k > Len(in_a) -> <<Entry("added", tag, 0, in_b[k])>>
          [] OTHER -> IF RenderFieldBreaker(a[in_a[k]]) = RenderFieldBreaker(b[in_b[k]])
                      THEN <<>> ELSE <<Entry("changed", tag, in_a[k], in_b[k])>>
  IN FlattenSeq([k \in 1..Occurrences(in_a, in_b) |-> Compare(k)])

DiffRecords(a, b) ==
  LET tags == FirstAppearances(SortFields(a.fields \o b.fields))
      leader == IF a.leader = b.leader THEN <<>> ELSE <<Entry("changed", LDR, 0, 0)>>
  IN leader \o FlattenSeq([n \in DOMAIN tags |-> DiffEntries(a.fields, b.fields, tags[n])])

-----------------------------------------------------------------------------
(***************************************************************************)
(* Chains of edits.                                                        *)
(***************************************************************************)

Init ==
  /\ original \in Records
  /\ rec = original
  /\ last = [edit |-> "none", tags |-> {}]
  /\ edits = 0

\* One edit of the chain; the input record itself is never changed.
Edit(name, tags, fields) ==
  /\ edits < MaxEdits
  /\ edits' = edits + 1
  /\ last' = [edit |-> name, tags |-> tags]
  /\ rec' = [rec EXCEPT !.fields = fields]
  /\ UNCHANGED original

\* The edit throws MarcError: there is no new record.
Throws(tags) == Edit("throws", tags, rec.fields)

Coded == {sel \in Selectors : sel.code # Unset}

Add == \E f \in NewFields, position \in {"order", "end"} :
  Edit(IF position = "end" THEN "append" ELSE "add", {f.tag}, AddField(rec.fields, f, position))

\* RemoveFieldsWhere is the case of a selector with a code and values.
RemoveSelected == \E sel \in Selectors : Edit("remove", sel.tags, RemoveFields(rec.fields, sel))

RemoveOnlySubfields == \E sel \in Coded :
  Edit("remove", sel.tags, RemoveSubfields(rec.fields, sel))

SetSubfields == \E sel \in Selectors, value \in Values, add_if_missing \in BOOLEAN :
  Edit("set", sel.tags, SetSubfield(rec.fields, sel, "b", value, add_if_missing))

Replace == \E sel \in Selectors, rule \in Rules, kinds \in {{TRUE}, {FALSE}, BOOLEAN} :
  Edit("replace", sel.tags, ReplaceInValues(rec.fields, sel, rule, kinds))

ReplaceEveryRule == \E rules \in RuleLists :
  Edit("replace", UNION {rules[i].sel.tags : i \in DOMAIN rules},
       ApplyReplaceRules(rec.fields, rules))

SetIndicator == \E sel \in Selectors :
  Edit("set", sel.tags, SetIndicators(rec.fields, sel, Backslash))

Move == \E m \in Moves :
  IF CrossesBoundary(rec.fields, m.tags, m.to) THEN Throws(m.tags)
  ELSE Edit("move", m.tags \cup {m.to}, MoveField(rec.fields, m.tags, m.to))

Copy == \E m \in Moves :
  IF CrossesBoundary(rec.fields, m.tags, m.to) THEN Throws(m.tags)
  ELSE Edit("copy", {m.to}, CopyField(rec.fields, m.tags, m.to))

Swap == \E a, b \in {m.to : m \in Moves} :
  IF SwapThrows(rec.fields, a, b) THEN Throws({a, b})
  ELSE Edit("swap", {a, b}, SwapFields(rec.fields, a, b))

Sort == Edit("sort", {}, SortFields(rec.fields))

Rename == \E m \in Moves : Edit("rename", m.tags, RenameSubfield(rec.fields, m.tags, "a", "b"))

Recase == \E sel \in Selectors, mapping \in Rules :
  Edit("case", sel.tags, ChangeCase(rec.fields, sel.tags, sel.code, mapping))

\* The text must be one field line.
Build == \E tmpl \in Templates :
  IF tmpl.lines # 1 THEN Throws({tmpl.to})
  ELSE Edit("build", {tmpl.to}, BuildField(rec.fields, tmpl))

\* marc_merge: the record is the base of the merge.
Merge == \E m \in Merges :
  /\ edits < MaxEdits
  /\ edits' = edits + 1
  /\ last' = [edit |-> "merge",
              tags |-> {tag \in TagsOf(m.incoming.fields) :
                          ActionOf(m.profile, tag) # "protected"}]
  /\ rec' = MergeRecords(rec, m.incoming, m.profile)
  /\ UNCHANGED original

Done == edits = MaxEdits /\ UNCHANGED vars

Next ==
  \/ Add \/ RemoveSelected \/ RemoveOnlySubfields \/ SetSubfields \/ Replace \/ ReplaceEveryRule
  \/ SetIndicator \/ Move \/ Copy \/ Swap \/ Sort \/ Rename \/ Recase
  \/ Build \/ Merge \/ Done

Spec == Init /\ [][Next]_vars

-----------------------------------------------------------------------------
(***************************************************************************)
(* Correctness.                                                            *)
(***************************************************************************)

\* However edits are chained, a field is of the kind its tag says, so that
\* the writers, which go by the kind, and the readers, which go by the tag,
\* agree on it (edit.hpp:105-110).
KindMatchesTag ==
  \A i \in DOMAIN rec.fields :
    rec.fields[i].is_control = TagIsControl(rec.fields[i].tag)

InTagOrder(fields) ==
  \A i, j \in DOMAIN fields : i < j => fields[i].tag <= fields[j].tag

\* "Keeping the ascending tag grouping catalogers expect": a record in tag
\* order stays so under every edit that does not retag or append, whatever
\* the order of the incoming record of a merge (edit.hpp:40-43).
TagOrderKept ==
  [][InTagOrder(rec.fields) /\ last'.edit \notin {"move", "swap", "append"}
       => InTagOrder(rec'.fields)]_vars

Without(fields, tags) == ElementsAt(fields, DOMAIN fields \ PositionsOf(fields, tags))

\* An edit is about some tags; the fields of all other tags stay as they are,
\* none lost, none repeated, in the same order, except that sorting puts
\* groups of them in order.
UntouchedFieldsStay ==
  [][LET before == Without(rec.fields, last'.tags)
         after == Without(rec'.fields, last'.tags) IN
     IF last'.edit = "sort"
     THEN InTagOrder(after) /\ \A tag \in TagsOf(before) \cup TagsOf(after) :
            OfTag(before, tag) = OfTag(after, tag)
     ELSE before = after]_vars

\* The fields the entries leave out, in breaker form.
Unlisted(fields, listed) ==
  LET out == ElementsAt(fields, DOMAIN fields \ listed)
  IN [k \in DOMAIN out |-> RenderFieldBreaker(out[k])]

\* What a diff does not list is the same in both records: fields of one tag in
\* the same order, those of different tags in any.  What it lists as changed
\* differs, and no field is listed twice.  So the diff is empty after a chain
\* of edits only if nothing but the order of tags has changed
\* (edit.hpp:191-196).
DiffExplains ==
  LET diff == DiffRecords(original, rec)
      listed_a == {diff[n].field_no_a : n \in DOMAIN diff}
      listed_b == {diff[n].field_no_b : n \in DOMAIN diff}
      Pairs(kind) == {n \in DOMAIN diff : diff[n].kind = kind /\ diff[n].tag # LDR} IN
  /\ \A tag \in TagsOf(original.fields) \cup TagsOf(rec.fields) :
       OfTag(Unlisted(original.fields, listed_a), tag) = OfTag(Unlisted(rec.fields, listed_b), tag)
  /\ \A n \in Pairs("changed") :
       RenderFieldBreaker(original.fields[diff[n].field_no_a])
         # RenderFieldBreaker(rec.fields[diff[n].field_no_b])
  /\ Cardinality(listed_a \ {0}) = Cardinality(Pairs("changed") \cup Pairs("removed"))
  /\ Cardinality(listed_b \ {0}) = Cardinality(Pairs("changed") \cup Pairs("added"))

NeverAdds(m) == \A tag \in TagsOf(m.incoming.fields) : ActionOf(m.profile, tag) # "add"

\* Loading the same record once more changes nothing, if no tag is to be
\* added to and the base is in tag order (edit.hpp:74-91).
MergeIsStable ==
  InTagOrder(rec.fields) =>
    \A m \in Merges : NeverAdds(m) =>
      LET once == MergeRecords(rec, m.incoming, m.profile)
      IN MergeRecords(once, m.incoming, m.profile) = once

\* "The incoming occurrences are inserted where the base group was"
\* (edit.hpp:81-83): the first of them stands behind the same fields as the
\* first one of the base group did.
ReplacedWhereItWas ==
  \A m \in Merges : \A tag \in TagsOf(m.incoming.fields) \cap TagsOf(rec.fields) :
    LET alone == [m.incoming EXCEPT !.fields = OfTag(@, tag)]
        merged == MergeRecords(rec, alone, m.profile).fields
        FirstOf(fields) == CHOOSE i \in PositionsOf(fields, {tag}) :
                             \A j \in PositionsOf(fields, {tag}) : i <= j IN
    ActionOf(m.profile, tag) = "replace" =>
      SubSeq(merged, 1, FirstOf(merged) - 1) = SubSeq(rec.fields, 1, FirstOf(rec.fields) - 1)
=============================================================================
