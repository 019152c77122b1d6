---------------------------- MODULE MCTextSource ----------------------------
(* Small breaker and MARCXML files, for TLC. *)
EXTENDS TextSource

CONSTANTS MaxLines, MaxBlocks

SequencesOf(S, n) == UNION {[1..k -> S] : k \in 0..n}

\* A leader, a field, a field and a leader that begin no line, other text,
\* an empty line.
Lines == { <<"=", "LDR">>, <<"=", "text">>, <<"blank", "=", "text">>,
           <<"text", "=", "LDR">>, <<"text">>, <<>> }

\* Every breaker text of up to MaxLines lines; the last one may lack its line
\* feed.
Breakers ==
  LET whole == {FlattenSeq([k \in DOMAIN ls |-> ls[k] \o <<"nl">>]) :
                  ls \in SequencesOf(Lines, MaxLines)}
  IN whole \cup {SubSeq(s, 1, Len(s) - 1) : s \in whole \ {<<>>}}

Start == <<"<", "record>">>
End == <<"<", "/", "record>">>
PrefixedStart == <<"<", "name", ":", "record>">>
PrefixedEnd == <<"<", "/", "name", ":", "record>">>
OtherStart == <<"<", "name", "record>">>
OtherEnd == <<"<", "/", "name", "record>">>

Blocks == {Start, End, PrefixedStart, PrefixedEnd, OtherStart, OtherEnd,
           <<"a">>, <<"b">>}

\* Every MARCXML text of up to MaxBlocks tags and texts, well nested or not.
Xmls(blocks) == {FlattenSeq(bs) : bs \in SequencesOf(blocks, MaxBlocks)}

\* Comments, some of them not ended, that hold no end tag of a record.
Commented ==
  {s \in Xmls({Start, End, Start \o <<"a">> \o End, <<"b">>, <<"<!--">>, <<"-->">>}) : EndsShown(s)}

TextFiles ==
  {[format |-> "breaker", text |-> s] : s \in Breakers}
    \cup {[format |-> "xml", text |-> s] : s \in Xmls(Blocks) \cup Commented}

\* A record that is commented out, before or behind one that is not.
CommentFiles ==
  LET record == Start \o <<"a">> \o End
  IN {[format |-> "xml", text |-> s] :
        s \in Xmls({record, <<"<!--">> \o record \o <<"-->">>})}
=============================================================================
