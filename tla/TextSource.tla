----------------------------- MODULE TextSource -----------------------------
(***************************************************************************)
(* TextRecordSource and TextChunkReader of src/marc_extension.cpp: a       *)
(* breaker or MARCXML file is read in chunks and cut into slices, one      *)
(* record's worth of text each, and every slice is parsed on its own by    *)
(* the core library.  One step here is one turn of the loop in Next.       *)
(*                                                                         *)
(* The point is that a file means the same cut up as whole: the records of *)
(* the slices are those that ParseBreaker (src/core/breaker.cpp) or        *)
(* ParseMarcXml (src/core/marcxml.cpp) finds in the whole file.  So both   *)
(* formats are kept down to the marks the cutting looks for, of which a    *)
(* chunk may end in the middle:                                            *)
(*   breaker  "nl", "=", "LDR", "blank" (space, tab, CR), "text"           *)
(*   MARCXML  "<", "/", ":", "name" (a letter of a name), "record>",       *)
(*            "<!--", "-->", and two texts, "a" and "b"                    *)
(* Of what the parsers throw, only the comment without an end is left at   *)
(* this level: short lines and bad tags of the one format (breaker.cpp:    *)
(* 74-76, 88-92), tags without an end or a key attribute of the other      *)
(* (marcxml.cpp:179, 186, 253, 270, 280) make a query fail whichever slice *)
(* they are in.  Nor are there elements inside a record, so that none is   *)
(* left open at its end.                                                   *)
(***************************************************************************)
EXTENDS Integers, Sequences, SequencesExt

CONSTANTS
  READ_CHUNK,   \* marks asked for by one read
  Inputs        \* the files: records with their format and their text

Formats == {"breaker", "xml"}
Marks == {"nl", "=", "LDR", "blank", "text",
          "<", "/", ":", "name", "record>", "<!--", "-->", "a", "b"}
Files == [format : Formats, text : Seq(Marks)]

ASSUME SourceAssumption ==
  /\ READ_CHUNK \in Nat \ {0}
  /\ Inputs \subseteq Files

VARIABLES
  file,      \* the file
  pos,       \* how much of it has been read
  buf,       \* buf_
  drained,   \* drained_: the reader is at its end and the rest was handed out
  slices,    \* what Next has handed out
  ended      \* Next has returned false

vars == <<file, pos, buf, drained, slices, ended>>

Init ==
  /\ file \in Inputs
  /\ pos = 0
  /\ buf = <<>>
  /\ drained = FALSE
  /\ slices = <<>>
  /\ ended = FALSE

First(S) == CHOOSE i \in S : \A j \in S : i <= j

(***************************************************************************)
(* FindBoundary: where the first complete record of a buffer ends.         *)
(***************************************************************************)

\* A line of the breaker format begins behind a line feed.
LineStarts(s) == {i \in 1..Len(s) : i = 1 \/ s[i - 1] = "nl"}

\* Lines that begin with "=LDR".
LeaderLines(s) ==
  {i \in LineStarts(s) : i < Len(s) /\ s[i] = "=" /\ s[i + 1] = "LDR"}

\* A field line comes first before the limit, blank lines aside: a record
\* without a leader.
HasContentBefore(s, limit) ==
  LET decisive == {i \in LineStarts(s) : i < limit /\ s[i] \notin {"nl", "blank"}}
  IN decisive # {} /\ s[First(decisive)] = "="

\* A breaker record ends where the next "=LDR" line begins; the boundaries
\* are the candidates for the end of the first one.
BreakerBoundaries(s) ==
  LET leaders == LeaderLines(s)
      StartsRecord(i) == i = First(leaders) /\ ~HasContentBefore(s, i)
  IN {i - 1 : i \in {k \in leaders : ~StartsRecord(k)}}

\* The first mark of the name that ends at position i - 1.
NameStart(s, i) ==
  First({k \in 1..i : \A j \in k..(i - 1) : s[j] \in {"name", ":"}})

\* Mutant: the end tag of any element whose name ends in "record".
ClosesRecordOfAnyName(s, i) ==
  /\ s[i] = "record>"
  /\ NameStart(s, i) > 2
  /\ s[NameStart(s, i) - 2] = "<" /\ s[NameStart(s, i) - 1] = "/"

\* "</record>", with any namespace prefix, ends at position i.
ClosesRecord(s, i) ==
  /\ s[i] = "record>"
  /\ NameStart(s, i) > 2
  /\ s[NameStart(s, i) - 2] = "<" /\ s[NameStart(s, i) - 1] = "/"
  /\ NameStart(s, i) = i \/ s[i - 1] = ":"

Boundaries(s) ==
  IF file.format = "xml" THEN {i \in 1..Len(s) : ClosesRecord(s, i)}
  ELSE BreakerBoundaries(s)

(***************************************************************************)
(* Next.                                                                   *)
(***************************************************************************)

\* Mutant: the mark behind the boundary is taken for a separator.
TakeSliceSkips ==
  LET end == First(Boundaries(buf)) IN
  /\ ~ended
  /\ Boundaries(buf) # {}
  /\ slices' = Append(slices, SubSeq(buf, 1, end))
  /\ buf' = SubSeq(buf, end + 2, Len(buf))
  /\ UNCHANGED <<file, pos, drained, ended>>

TakeSlice ==
  LET end == First(Boundaries(buf)) IN
  /\ ~ended
  /\ Boundaries(buf) # {}
  /\ slices' = Append(slices, SubSeq(buf, 1, end))
  /\ buf' = SubSeq(buf, end + 1, Len(buf))
  /\ UNCHANGED <<file, pos, drained, ended>>

\* Mutant: the file is read to its end before it is cut.
FillWhenever ==
  /\ ~ended
  /\ \E n \in 1..READ_CHUNK :
       /\ n <= Len(file.text) - pos
       /\ buf' = buf \o SubSeq(file.text, pos + 1, pos + n)
       /\ pos' = pos + n
  /\ UNCHANGED <<file, drained, slices, ended>>

\* TextChunkReader::Fill appends what one read returns.
Fill ==
  /\ ~ended
  /\ Boundaries(buf) = {}
  /\ \E n \in 1..READ_CHUNK :
       /\ n <= Len(file.text) - pos
       /\ buf' = buf \o SubSeq(file.text, pos + 1, pos + n)
       /\ pos' = pos + n
  /\ UNCHANGED <<file, drained, slices, ended>>

AtEnd == ~ended /\ Boundaries(buf) = {} /\ pos = Len(file.text)

\* At the end of the file the rest of the buffer is handed out once.
Drain ==
  /\ AtEnd
  /\ ~drained
  /\ drained' = TRUE
  /\ IF buf = <<>>
     THEN ended' = TRUE /\ UNCHANGED <<buf, slices>>
     ELSE slices' = Append(slices, buf) /\ buf' = <<>> /\ UNCHANGED ended
  /\ UNCHANGED <<file, pos>>

ReturnFalse ==
  /\ AtEnd
  /\ drained
  /\ ended' = TRUE
  /\ UNCHANGED <<file, pos, buf, drained, slices>>

Ended == ended /\ UNCHANGED vars

Next == TakeSlice \/ Fill \/ Drain \/ ReturnFalse \/ Ended

Spec == Init /\ [][Next]_vars

(***************************************************************************)
(* The core parsers, down to which text belongs to which record.           *)
(***************************************************************************)

\* The line that begins at position i, without its line feed.
Line(s, i) ==
  LET ends == {k \in i..Len(s) : s[k] = "nl"}
  IN SubSeq(s, i, IF ends = {} THEN Len(s) ELSE First(ends) - 1)

\* A leader begins a record, and so does the first field line of the text.
AddLine(recs, line) ==
  IF SubSeq(line, 2, 2) = <<"LDR">> \/ recs = <<>>
  THEN Append(recs, <<line>>)
  ELSE [recs EXCEPT ![Len(recs)] = Append(@, line)]

\* ParseBreaker: the records behind every mark.
ParseBreaker(s) ==
  LET after[n \in 0..Len(s)] ==
        IF n = 0 THEN <<>>
        ELSE IF n \in LineStarts(s) /\ s[n] = "="
             THEN AddLine(after[n - 1], Line(s, n)) ELSE after[n - 1]
  IN [ok |-> TRUE, recs |-> after[Len(s)]]

\* An element's name loses its prefix.
NamesRecord(s, i) == s[i] = "record>" /\ (NameStart(s, i) = i \/ s[i - 1] = ":")
BehindMark(s, i, mark) == NameStart(s, i) > 1 /\ s[NameStart(s, i) - 1] = mark

\* One mark of a MARCXML text: comments are skipped; a record is the text
\* between a start tag and the next end tag.
XmlStep(s, i, state) ==
  IF state.comment THEN [state EXCEPT !.comment = s[i] # "-->"]
  ELSE CASE s[i] = "<!--" -> [state EXCEPT !.comment = TRUE]
         [] NamesRecord(s, i) /\ BehindMark(s, i, "<") ->
              [state EXCEPT !.inside = TRUE, !.rec = <<>>]
         [] NamesRecord(s, i) /\ BehindMark(s, i, "/") /\ state.inside ->
              [state EXCEPT !.inside = FALSE, !.recs = Append(@, state.rec)]
         [] s[i] \in {"a", "b"} -> [state EXCEPT !.rec = Append(@, s[i])]
         [] OTHER -> state

XmlStart == [comment |-> FALSE, inside |-> FALSE, rec |-> <<>>, recs |-> <<>>]

ParseMarcXml(s) ==
  LET after[n \in 0..Len(s)] == IF n = 0 THEN XmlStart ELSE XmlStep(s, n, after[n - 1])
  IN [ok |-> ~after[Len(s)].comment, recs |-> after[Len(s)].recs]

Parse(s) == IF file.format = "xml" THEN ParseMarcXml(s) ELSE ParseBreaker(s)

-----------------------------------------------------------------------------
(***************************************************************************)
(* Correctness.                                                            *)
(***************************************************************************)

SliceRecords == FlattenSeq([k \in DOMAIN slices |-> Parse(slices[k]).recs])

\* A comment was begun before position i, or there, and has not ended.
InComment(s, i) == \E k \in 1..i : s[k] = "<!--" /\ \A j \in k..i : s[j] # "-->"

\* No end tag of a record is commented out.
EndsShown(s) == \A i \in 1..Len(s) : ClosesRecord(s, i) => ~InComment(s, i)

\* Wherever the chunks end - in the middle of "=LDR", of "</record>" or of a
\* prefix - the slices give the records of the whole file, in order, so the
\* record numbers counted over them are right too.
SlicesParseLikeWhole ==
  /\ IsPrefix(SliceRecords, Parse(file.text).recs)
  /\ ended => SliceRecords = Parse(file.text).recs

\* No part of the file is lost, repeated or moved.
NothingLost ==
  FlattenSeq(slices) \o buf \o SubSeq(file.text, pos + 1, Len(file.text)) = file.text

\* The marks that tell records apart: "</record>" and "=LDR".
RecordMarks(s) ==
  IF file.format = "xml" THEN {i \in 1..Len(s) : ClosesRecord(s, i)} ELSE LeaderLines(s)

\* "=LDR to =LDR for breaker, <record> element for MARCXML": a slice holds
\* no more than one record's mark, and the buffer no more than that and one
\* chunk (marc_extension.cpp:738-741).
OneMarkPerSlice ==
  /\ \A k \in DOMAIN slices : \A i, j \in RecordMarks(slices[k]) : i = j
  /\ \A i, j \in RecordMarks(SubSeq(buf, 1, Len(buf) - READ_CHUNK)) : i = j

\* A file that ParseMarcXml accepts, "comments ... skipped" (marcxml.cpp:3-4),
\* is accepted slice by slice too.
CommentsSkipped ==
  Parse(file.text).ok => \A k \in DOMAIN slices : Parse(slices[k]).ok

(***************************************************************************)
(* The inductive invariant behind NothingLost and OneMarkPerSlice.         *)
(***************************************************************************)

\* Every variable holds a value of its kind.
TypeOK ==
  /\ file \in Files
  /\ pos \in 0..Len(file.text)
  /\ buf \in Seq(Marks)
  /\ drained \in BOOLEAN
  /\ slices \in Seq(Seq(Marks))
  /\ ended \in BOOLEAN

\* The first boundary came with the last read, which may have completed a
\* leader's "=LDR" that begins on the mark before it.
BoundariesAreNew ==
  LET completed == IF file.format = "xml" THEN 0 ELSE 2 IN
  \A i \in Boundaries(buf) : i + completed > Len(buf) - READ_CHUNK

SourceInv ==
  /\ TypeOK
  /\ NothingLost
  /\ BoundariesAreNew
  /\ \A k \in 1..Len(slices) : \A i, j \in RecordMarks(slices[k]) : i = j
=============================================================================
