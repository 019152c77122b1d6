----------------------------- MODULE MCTextScan -----------------------------
(* Small globs of text files for TLC. *)
EXTENDS TextScan, TLC

CONSTANTS t1, t2, t3

TwoThreads == {t1, t2}
ThreeThreads == {t1, t2, t3}
AllReaders == {"slices", "whole"}

Slice(recs) == [ok |-> TRUE, recs |-> recs]
Broken == [ok |-> FALSE, recs |-> <<>>]
File(slices) == [opens |-> TRUE, slices |-> slices]
Unreadable == [opens |-> FALSE, slices |-> <<>>]

\* A record wider than a chunk, a slice of two records, a closing slice
\* without any, files without rows between others; a slice that does not
\* parse behind one that does; a file that cannot be opened; no files.
FewGlobs ==
  { <<File(<<Slice(<<3>>), Slice(<<1, 0, 1>>), Slice(<<>>)>>), File(<<>>),
      File(<<Slice(<<0>>)>>), File(<<Slice(<<1>>), Slice(<<1>>)>>)>>,
    <<File(<<Slice(<<1>>), Broken, Slice(<<1>>)>>), File(<<Slice(<<2>>)>>)>>,
    <<File(<<Slice(<<2>>)>>), Unreadable, File(<<Slice(<<1>>)>>)>>,
    <<>> }
=============================================================================
