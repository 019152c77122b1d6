----------------------------- MODULE MCMarcScan -----------------------------
(* Small instances of MarcScan for TLC. *)
EXTENDS MarcScan, TLC

CONSTANTS t1, t2, t3

TwoThreads == {t1, t2}
ThreeThreads == {t1, t2, t3}
Symmetry == Permutations(Threads)

Utf8(n) == [ok |-> TRUE, leader9 |-> "a", rows |-> n]
UpperA(n) == [ok |-> TRUE, leader9 |-> "A", rows |-> n]
Marc8(n) == [ok |-> TRUE, leader9 |-> "blank", rows |-> n]
Malformed == [ok |-> FALSE, leader9 |-> "a", rows |-> 0]

File(recs) == [opens |-> TRUE, recs |-> recs]
Unreadable == [opens |-> FALSE, recs |-> <<>>]

Call(reader, ignore, encoding, external) ==
  [reader |-> reader, ignore_errors |-> ignore, encoding |-> encoding,
   external |-> external]

\* A record wider than a chunk, a malformed record, a record without rows, an
\* empty file between two others, a batch across a file boundary; and a file
\* that cannot be opened, which ends the scan while other threads wait.
BatchGlobs ==
  { <<File(<<Utf8(3), Malformed, Marc8(0)>>), File(<<>>),
      File(<<UpperA(1), Marc8(1)>>)>>,
    <<File(<<Utf8(1)>>), Unreadable>> }

\* Malformed records first, last and alone in a batch; a glob without files;
\* a file that cannot be opened between two that can.
FaultGlobs ==
  { <<File(<<Malformed, Malformed, Utf8(2)>>), File(<<Marc8(1), Malformed>>)>>,
    <<File(<<Malformed, Malformed>>)>>,
    <<>>,
    <<File(<<Utf8(1)>>), Unreadable, File(<<Marc8(1)>>)>> }

SubfieldsCalls ==
  {Call("subfields", TRUE, "auto", external) : external \in BOOLEAN}
RecordCalls ==
  {Call(reader, ignore, "auto", external) :
     reader \in {"nested", "raw"}, ignore \in BOOLEAN, external \in BOOLEAN}
=============================================================================
