---------------------------- MODULE RecordStream ----------------------------
(***************************************************************************)
(* RecordStream of src/marc_extension.cpp: one binary file, read in pieces *)
(* of at most READ_CHUNK octets and split into records at the record       *)
(* terminator.  The scan threads call NextRaw one at a time, under         *)
(* io_lock; one step here is one turn of NextRaw's loop.                   *)
(*                                                                         *)
(* What the stream promises is the splitter of the core library,           *)
(* RecordSplitter of src/core/iso2709.cpp, which sees the whole file at    *)
(* once: the records must not depend on where the reads happened to end.   *)
(***************************************************************************)
EXTENDS Integers, Sequences

CONSTANTS
  READ_CHUNK,   \* octets asked for by one read
  Contents      \* the contents a file may have: sequences of octets

\* An octet is a record terminator, one of the three octets that may stand
\* between records (LF, CR, space), or any other.  "nul" is the zero octet a
\* resized buffer is filled with.
RT == "rt"
Octets == {RT, "blank", "other", "nul"}

ASSUME StreamAssumption ==
  /\ READ_CHUNK \in Nat \ {0}
  /\ Contents \subseteq Seq(Octets)

VARIABLES
  file,      \* the octets of the file
  pos,       \* how many of them have been read
  buf,       \* buf_: octets read and not yet handed out
  eof,       \* eof_
  records,   \* what NextRaw has handed out
  ended,     \* NextRaw has returned false
  failed     \* a read has thrown: the query fails

vars == <<file, pos, buf, eof, records, ended, failed>>

Init ==
  /\ file \in Contents
  /\ pos = 0
  /\ buf = <<>>
  /\ eof = FALSE
  /\ records = <<>>
  /\ ended = FALSE
  /\ failed = FALSE

\* The least element of a set of positions.
First(S) == CHOOSE i \in S : \A j \in S : i <= j

From(s, i) == SubSeq(s, i, Len(s))

\* The positions of a buffer's octets that are not separators, and of its
\* record terminators.
Significant(s) == {i \in 1..Len(s) : s[i] # "blank"}
Terminators(s) == {i \in 1..Len(s) : s[i] = RT}

\* NextRaw drops the separators at the head of the buffer on every turn.
Skipped(s) == IF Significant(s) = {} THEN <<>> ELSE From(s, First(Significant(s)))

\* The buffer holds a terminator: hand out the record it ends.
TakeRecord ==
  LET b == Skipped(buf)
      rt == First(Terminators(b)) IN
  /\ ~ended
  /\ Terminators(b) # {}
  /\ records' = Append(records, SubSeq(b, 1, rt))
  /\ buf' = From(b, rt + 1)
  /\ UNCHANGED <<file, pos, eof, ended, failed>>

\* At the end of the file, octets without a terminator are handed out as
\* they are, so that their error is seen.
TakeTail ==
  /\ ~ended /\ eof
  /\ Terminators(Skipped(buf)) = {}
  /\ Skipped(buf) # <<>>
  /\ records' = Append(records, Skipped(buf))
  /\ buf' = <<>>
  /\ UNCHANGED <<file, pos, eof, ended, failed>>

ReturnFalse ==
  /\ ~ended /\ eof
  /\ Skipped(buf) = <<>>
  /\ buf' = <<>>
  /\ ended' = TRUE
  /\ UNCHANGED <<file, pos, eof, records, failed>>

\* Mutant: a terminator in the buffer is not looked for before the end of
\* the file.
ReadsWhenever == ~ended /\ ~eof

\* NextRaw reads only when the buffer holds no complete record.
Reads == ~ended /\ ~eof /\ Terminators(Skipped(buf)) = {}

\* The octets a read may return: as many as asked for or fewer, but none
\* only at the end of the file.
ReadSizes ==
  {n \in 0..READ_CHUNK : n <= Len(file) - pos /\ (n = 0 => pos = Len(file))}

\* Mutant: a short read is taken for the last one.
ReadShortIsLast ==
  /\ Reads
  /\ \E n \in ReadSizes :
       /\ buf' = Skipped(buf) \o SubSeq(file, pos + 1, pos + n)
       /\ pos' = pos + n
       /\ eof' = (n < READ_CHUNK)
  /\ UNCHANGED <<file, records, ended, failed>>

\* Mutant: the end of the file is not remembered.
ReadForgetsEnd ==
  /\ Reads
  /\ \E n \in ReadSizes :
       /\ buf' = Skipped(buf) \o SubSeq(file, pos + 1, pos + n)
       /\ pos' = pos + n
  /\ UNCHANGED <<file, eof, records, ended, failed>>

Read ==
  /\ Reads
  /\ \E n \in ReadSizes :
       /\ buf' = Skipped(buf) \o SubSeq(file, pos + 1, pos + n)
       /\ pos' = pos + n
       /\ eof' = (n = 0)
  /\ UNCHANGED <<file, records, ended, failed>>

\* A read throws after the buffer was grown for it.  The stream stays in the
\* shared state, and a thread that was waiting for io_lock goes on with it.
ReadThrows ==
  /\ Reads
  /\ ~failed
  /\ buf' = Skipped(buf) \o [i \in 1..READ_CHUNK |-> "nul"]
  /\ failed' = TRUE
  /\ UNCHANGED <<file, pos, eof, records, ended>>

Ended == ended /\ UNCHANGED vars

Next ==
  \/ TakeRecord \/ TakeTail \/ ReturnFalse \/ Read \/ ReadThrows \/ Ended

Spec == Init /\ [][Next]_vars

\* A scan that goes on calling NextRaw, with reads that return.
FairSpec == Spec /\ WF_vars(TakeRecord \/ TakeTail \/ ReturnFalse \/ Read)

-----------------------------------------------------------------------------
(***************************************************************************)
(* RecordSplitter::Next, on a whole file.                                  *)
(***************************************************************************)

\* The positions from p on at which a record may begin: no separators.
After(s, p) == {i \in p..Len(s) : s[i] # "blank"}

\* Where the record that begins at start ends: at its terminator, or with the
\* file.
EndOf(s, start) ==
  LET rts == {i \in start..Len(s) : s[i] = RT}
  IN IF rts = {} THEN Len(s) ELSE First(rts)

\* SplitFrom(s)[p] are the records that RecordSplitter finds from position p on.
SplitFrom(s) ==
  LET records_from[p \in 1..(Len(s) + 1)] ==
        IF After(s, p) = {} THEN <<>>
        ELSE LET start == First(After(s, p)) IN
             <<SubSeq(s, start, EndOf(s, start))>> \o records_from[EndOf(s, start) + 1]
  IN records_from

Split(s) == SplitFrom(s)[1]

(***************************************************************************)
(* Correctness.                                                            *)
(***************************************************************************)

IsPrefixOf(s, t) == Len(s) <= Len(t) /\ s = SubSeq(t, 1, Len(s))

\* A record with zero octets of a read that failed in it.
Spoiled(record) == \E i \in DOMAIN record : record[i] = "nul"
Intact(n) == \A i \in 1..n : ~Spoiled(records[i])

\* Wherever the reads end - inside a record, between a record and the line
\* feed behind it, right behind a terminator - the records handed out are
\* those of the splitter that sees the whole file (marc_extension.cpp:73-74).
\* The threads that find the stream after a read has failed still get the
\* file's records, up to the one with the zero octets of that read.
SplitsLikeWholeFile ==
  /\ ~failed =>
       /\ IsPrefixOf(records, Split(file))
       /\ ended => records = Split(file)
  /\ failed =>
       \A n \in DOMAIN records :
         Intact(n) => n \in DOMAIN Split(file) /\ records[n] = Split(file)[n]

\* The length of the file's longest record.
Lengths == {Len(Split(file)[i]) : i \in DOMAIN Split(file)} \cup {0}
Longest == CHOOSE n \in Lengths : \A m \in Lengths : m <= n

\* The file is streamed: the buffer never holds more than one record and one
\* read, however many records the file has.
BufferBounded == ~failed => Len(buf) <= Longest + READ_CHUNK

\* NextRaw comes to the end of every file, for all its short reads.
StreamEnds == <>ended

(***************************************************************************)
(* The inductive invariant behind these.                                   *)
(***************************************************************************)

\* Every variable holds a value of its kind.
TypeOK ==
  /\ file \in Contents
  /\ pos \in 0..Len(file)
  /\ buf \in Seq(Octets)
  /\ eof \in BOOLEAN
  /\ records \in Seq(Seq(Octets))
  /\ ended \in BOOLEAN
  /\ failed \in BOOLEAN

\* The position of the first octet of s, when s is what was read last.
Place(s) == pos - Len(s) + 1

\* s is what was read last.
ReadLast(s) ==
  /\ Len(s) <= pos
  /\ \A i \in 1..Len(s) : s[i] = file[Place(s) + i - 1]

\* Until a read fails, the buffer is the end of what was read, the records
\* handed out and those from the buffer's place on are all there are, and the
\* buffer is no longer than one record and one read.
StreamOK ==
  ~failed =>
    /\ ReadLast(buf)
    /\ records \o SplitFrom(file)[Place(buf)] = Split(file)
    /\ eof => pos = Len(file)
    /\ ended => SplitFrom(file)[Place(buf)] = <<>>
    /\ Len(buf) <= Longest + READ_CHUNK

IndInv == TypeOK /\ StreamOK

\* The next record to be taken from s is one that a failed read has spoiled.
NulFirst(s) ==
  \E k \in 1..Len(s) : s[k] = "nul" /\ \A j \in 1..k : s[j] # RT

\* What a failed read has left is in the next record, or in one handed out.
FailOK ==
  /\ \A n \in DOMAIN records :
       Intact(n) => n \in DOMAIN Split(file) /\ records[n] = Split(file)[n]
  /\ failed /\ Intact(Len(records)) => NulFirst(buf)
=============================================================================
