----------------------------- MODULE MCCatalog -----------------------------
(* Chains of edits and cataloguing operations for TLC. *)
EXTENDS MCRecordEdit, Catalog

FewPunctuation == {Period, "'", "$"}
FewMarks == {"acute"}
FewForeign == {"omega"}
FewFolded == ("x" :> "X") @@ ("y" :> "Y")

Blanks(length, codes) == [p \in 1..length |-> IF p - 1 \in DOMAIN codes THEN codes[p - 1] ELSE Blank]

\* Leaders of new records and of the others; coded values; values with an
\* abbreviation that is one, one that is part of a word, one behind a letter
\* that is not ASCII, and what becomes of them; values with marks and punctuation, which compare as "X Y".
FewSpelling ==
  ("" :> <<>>)
    @@ ("base" :> Blanks(24, 6 :> "g")) @@ ("incoming" :> Blanks(24, 6 :> "p"))
    @@ ("new authority" :> Blanks(24, (6 :> "z") @@ (17 :> "o")))
    @@ ("new electronic" :> Blanks(24, (6 :> "m") @@ (7 :> "m") @@ (17 :> "5")))
    @@ ("blank 008" :> Blanks(40, <<>>))
    @@ ("program" :> Blanks(40, (26 :> "b") @@ (35 :> "e")))
    @@ ("slide" :> <<"g", "s">>)
    @@ ("v. p." :> <<"v", Period, Blank, "p", Period>>)
    @@ ("volumes pages" :> <<"volumes", Blank, "pages">>)
    @@ ("vp." :> <<"v", "p", Period>>)
    @@ ("omega v." :> <<"omega", "v", Period>>)
    @@ ("omega volumes" :> <<"omega", "volumes">>)
    @@ ("'x' y" :> <<"'", "x", "acute", "'", Blank, "y", Period>>)

\* A picture with a slide, and a mixed record with an 006.
CatalogRecords ==
  { Rec("base", <<Control(7, "slide"), Control(8, "program"),
                  Data(100, Blank, <<Sub("0", "u"), Sub("a", "'x' y"), Sub("0", "v")>>),
                  Data(300, Blank, <<Sub("a", "v. p."), Sub("b", "vp."), Sub("c", "omega v.")>>)>>),
    Rec("incoming", <<Control(6, "i"), Data(100, Blank, <<Sub("a", "x"), Sub("b", "y")>>),
                      Data(250, Blank, <<Sub("b", "v. p."), Sub("a", "v. p.")>>)>>) }

AllRecords == FewRecords \cup CatalogRecords

\* The first and the last of few, and past the last.
FewPositions == {0, 1, 3}

FewMaterials == {"authority", "electronic"}

\* A heading that is there in several spellings, and one that is empty.
FewLinks ==
  {[tags |-> {100, 245}, heading |-> <<"X", Comma, "Y">>, uri |-> "u", code |-> "0"],
   [tags |-> {100, 245}, heading |-> <<Comma>>, uri |-> "w", code |-> "0"]}
=============================================================================
