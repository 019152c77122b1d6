---------------------------- MODULE MCRecordEdit ----------------------------
(* Short chains of edits for TLC. *)
EXTENDS RecordEdit

AllStrings == STRING

Rec(leader, fields) == [leader |-> leader, fields |-> fields]

\* A record in tag order with a repeated tag; one out of order, with the
\* leader that SQL calls have; one with a field without subfields.
FewRecords ==
  { Rec("base", <<Control(1, "x"), Data(100, Blank, <<Sub("a", "x")>>),
                  Data(245, "1", <<Sub("a", "$"), Sub("b", "y")>>),
                  Data(245, Blank, <<Sub("b", "x")>>)>>),
    Rec("", <<Data(245, Blank, <<Sub("a", "x"), Sub("a", "{dollar}")>>),
              Control(8, "y"), Data(100, "1", <<>>)>>) }

FewFields == {Control(8, "x"), Data(100, Backslash, <<Sub("a", "$")>>)}

Selector(tags, code, values, occurrence) ==
  [tags |-> tags, ind1 |-> Unset, code |-> code, values |-> values, occurrence |-> occurrence]

FewValues == {"x", "$"}
\* The values that edits map, and those of cataloguing.
AllValues ==
  {"x", "y", "$", "{dollar}", "", "'x' y", "v. p.", "vp.", "volumes pages", "u", "v", "w",
   "blank 008", "program", "slide", "sound", "spw", "sti", "cop", "cod", "n", "nc", "g", "gs",
   "rdacontent", "rdamedia", "rdacarrier"}

AllTags == {1, 8, 100, 245}

\* Selectors by tag, by pattern, by code, by value, by occurrence and by
\* indicator.
FewSelectors ==
  { Selector({245}, Unset, AllValues, EveryOccurrence),
    Selector(AllTags, Unset, AllValues, 1),
    Selector({100, 245}, "a", AllValues, EveryOccurrence),
    Selector(AllTags, "b", {"x"}, EveryOccurrence),
    [Selector(AllTags, Unset, AllValues, EveryOccurrence) EXCEPT !.ind1 = Blank] }

FewRules == {"x" :> "y", "y" :> "$"}

\* The second rule sees what the first one wrote.
FewRuleLists ==
  {<<[sel |-> Selector(AllTags, Unset, AllValues, EveryOccurrence), rule |-> "x" :> "y"],
     [sel |-> Selector({100, 245}, "b", AllValues, EveryOccurrence), rule |-> "y" :> "$"]>>}

FewMoves ==
  { [tags |-> {1}, to |-> 8], [tags |-> {245}, to |-> 100], [tags |-> AllTags, to |-> 245] }

FewTemplates ==
  { [to |-> 100, tags |-> {245}, code |-> "a", lines |-> 1],
    [to |-> 8, tags |-> {100}, code |-> "b", lines |-> 1],
    [to |-> 245, tags |-> {100}, code |-> "a", lines |-> 2] }

Profile(protected, replace, add, default) ==
  [protected |-> protected, replace |-> replace, add |-> add, default |-> default]

\* An incoming record out of tag order with a repeated tag, under profiles
\* whose lists overlap.
Incoming == Rec("incoming", <<Data(245, Blank, <<Sub("a", "y")>>), Control(1, "y"),
                              Data(245, "1", <<>>), Data(100, Blank, <<Sub("b", "y")>>)>>)

FewMerges ==
  {[incoming |-> Incoming, profile |-> profile] :
     profile \in {Profile({1}, {1, 245}, {245}, "keep"), Profile({}, {}, {245}, "replace"),
                  Profile({245}, {}, {}, "replace"), Profile({}, {100}, {}, "add")}}
=============================================================================
