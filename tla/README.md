# A TLA+ model of duckdb-marc21

duckdb-marc21 is a DuckDB extension that reads and writes library catalogue
records (MARC 21): table functions that scan binary and text files in parallel, a
Z39.50 client, `COPY ... TO` writers, and a library of scalar functions that
edit, compare and normalise records. This directory holds TLA+ models of the
parts of it that have state and of the codecs through which every record goes,
their TLC configurations, and TLAPS proofs.

Paths are relative to the repository; `marc_extension.cpp` and its siblings are in
`src/`, the core library in `src/core/`. `PROJECT.json` names, for every
definition, the lines it was written from.

## 1. Inventory

| component | state | operations | hard because | correct when |
|---|---|---|---|---|
| **parallel binary scan** (`marc_extension.cpp:182-735`: `read_marc`, `read_marc_subfields`, `read_marc_raw`) | shared: `io_lock`, path index, open stream, next record number, `exhausted`, four atomic counters; per thread: batch, position in it, pending rows | `FillBatch`, `ClaimBatch`/`NextRaw`, the engine's `ScanClaimBatch`/`ScanFinishBatch`, the scan functions, `MarcScanGetMetrics` | any number of threads; a batch may span files; the engine (v2.0) or the thread (v1.5) claims batches; malformed records; files that cannot be opened | every row exactly once, under its own file and ordinal; order can be restored; counters add up; the scan ends |
| **record stream** (`marc_extension.cpp:75-129`; splitter `core/iso2709.cpp:27-45`) | buffer, end-of-file flag | `NextRaw` | reads end anywhere | same records as splitting the whole file; bounded buffer |
| **text record source** (`marc_extension.cpp:745-880`; parsers `core/breaker.cpp`, `core/marcxml.cpp`) | buffer, end-of-file and drained flags | `Fill`, `FindBoundary`, `Next` | chunks end inside a mark; two definitions of "record", one in the cutter and one in the parser | slices parse to the records of the whole file |
| **parallel text scan** (`marc_extension.cpp:882-989`) | atomic path counter; per thread: source, record number, pending rows | `NextRecordText`, `TextScan`, `WholeFileScan` | files without rows, slices with any number of records | every row exactly once, numbered within its file |
| **Z39.50 client** (`core/z3950.cpp`, `core/z3950_socket.cpp`, `marc_z3950.cpp`) | socket, receive buffer, hit count, fetched records, next position, next row | connect, Init, Search, Present loop, frame APDUs, scan | lost, late or cut answers; servers that misbehave | first records of the result set or an error; always ends |
| **COPY TO sink** (`marc_copy.cpp`) | shared file and lock; per call: buffer | initialise, sink, finalise | parallel sinks, rejected records, failing writes | chunks contiguous, finished files whole |
| **ISO 2709 codec** (`core/iso2709.cpp`, `core/writer.cpp`) | none | `ParseRecord`, `WriteRecord`, `WriteRecordMarc8` | length and directory arithmetic at fixed widths, damaged records | what is written reads back; what does not fit is refused; damage to a field stays in it |
| **record editing** (`core/edit.cpp`, 20 operations, `MergeRecords`, `DiffRecords`) | the record | add, remove, move, copy, swap, sort, merge, ... | long chains of edits | control and data fields kept apart, tag order of insertions, untouched fields untouched |
| **character decoding** (`core/marc8.cpp`, `core/unicode_nfc.cpp`, `core/writer.cpp`) | MARC-8: designated sets, pending and deferred marks | `Marc8Decode`, `EncodeMarc8`, NFD, NFC, UTF-8 | escape sequences, combining marks before and after their base, marks over two letters | equivalent texts have one normal form; no base or mark is lost |
| **text forms** (`core/breaker.cpp`, `marcxml.cpp`, `textwriters.cpp`, `marcjson.cpp`, `json.cpp`) | reader: current record, field and element | parse, write | escapes of several kinds, envelopes, other programs' layouts | what is written reads back, whoever wrote it |
| **MARCspec** (`core/marcspec.cpp`) | none | parse, evaluate | index ranges from both ends | the ranges of an expression take a record apart |
| **call numbers, identifiers, match keys** (`core/callnum.cpp`, `core/idnorm.cpp`, `core/cluster.cpp`) | none | sort keys, check digits, normal forms | order through strings | key order is shelf order |
| **Aleph and MicroLIF parsers** (`core/aleph.cpp`, `microlif.cpp`) | none | parse | — | not modelled |
| **authority links, cataloguing helpers** (`core/authlink.cpp`, `catalog.cpp`) | the record | set and clear links, new records, 33X generation, abbreviations, ranking | run again and again over the same records, in any order | a second run changes nothing |
| **Avram validation** (`core/avram.cpp`) | none | validate | table-driven | not modelled |
| **SQL glue, macros, XSLT** (`marc_*_scalars.cpp`, `marc_variant.cpp`, `marc_xslt.cpp`, `macros*`, `xslt/`) | none | — | — | not modelled |

How they interact: the engine calls a scan function on every thread; the threads of
a binary scan share one `ScanGlobalState` and through it one `RecordStream`, those
of a text scan share only the path counter, each with a `TextRecordSource` of its
own. Both hand text to the core parsers outside any lock. A Z39.50 scan runs on a
single thread and hands what it fetched to `ParseRecord`. `COPY` calls its sink on
many threads that share one file. Every record goes through the codecs: decoded on
its way in by `ParseRecord` or a text parser, which normalise to NFC, edited by the
scalar functions, and encoded on its way out by a writer that does not.

`PROJECT.json` lists the hazards of this code, each at its line with the properties
that would catch it.

## 2. Modules

| module | models | run |
|---|---|---|
| `RecordScan` | the promise of a scan: rows delivered in any order, each exactly once, all of them unless it fails, failing only on inputs that may not be skipped | (refined by `MarcScan` and `TextScan`) |
| `MarcScan` | the parallel binary scan, one action per step between two points where threads can interleave | `scan_subfields` (and below `ScanMetrics`) |
| `ScanMetrics` | `MarcScanGetMetrics`: `MarcScan` with a reader that loads its counters one by one | `scan_records` |
| `MarcScan_proofs` | theorems about `MarcScan` and `ScanMetrics`: types, ordinals, order, chunks and counters; every record accounted for, the report, and the refinement | TLAPS |
| `RecordStream` | `RecordStream::NextRaw`; `Split` is `RecordSplitter::Next` on the whole file | `record_stream` |
| `RecordStream_proofs` | theorems about `RecordStream` | TLAPS |
| `TextSource` | `TextRecordSource`; `ParseBreaker` and `ParseMarcXml` are the core parsers, kept down to record boundaries | `text_source`, `text_comments` |
| `TextSource_proofs` | theorems about `TextSource` | TLAPS |
| `TextScan` | `TextScan` and `WholeFileScan` | `text_scan` |
| `TextScan_proofs` | theorems about `TextScan`, and its refinement | TLAPS |
| `Z3950` | the session, its transport and the scan function; the server and the network are external | `z3950_session` |
| `Z3950_proofs` | theorems about `Z3950` | TLAPS |
| `MarcCopy` | the sink of `COPY ... TO` | `copy_sink` |
| `MarcCopy_proofs` | theorems about `MarcCopy` | TLAPS |
| `GeneralFacts` | lemmas the proofs share: induction over numbers for a set instead of a predicate, recursive functions, filtered, joined and growing sequences | TLAPS |
| `RecordEdit` | the edit operations, `MergeRecords` and `DiffRecords`, applied one after the other to a record | `merge_position` (and below `Catalog`) |
| `Catalog` | extends `RecordEdit` with new records, ranking, 33X fields, abbreviations, authority links, `NacoNormalize` and MARCspec evaluation, chained with the edits | `record_edit` |
| `Catalog_proofs` | theorems about `RecordEdit` and `Catalog` | TLAPS |
| `Unicode` | normal forms and UTF-8 | (used by the next) |
| `Marc8` | the MARC-8 encoder and decoder | (used by the next) |
| `Iso2709` | `WriteRecord` and `ParseRecord` | (used by the next) |
| `TextForms` | writers and readers of breaker, MARCXML and MARC-in-JSON | (used by the next) |
| `Exchange` | composes the four: a record's way from another program's text through a file, damaged or not, and back | `exchange`, `ansel_text` |

`MC*` modules extend these and give the constants their values for TLC. Operators
marked "Mutant" are deliberately wrong variants of the definition below them; no
specification uses them. Each shows that a property notices a plausible mistake.

### Correspondence with the code

*MarcScan.* `io_lock`, `current_path`, `stream`, `next_record_no`, `exhausted` and
the four counters are the members of `ScanGlobalState`; `stream` is the number of
records split off the open file. `batch`, `batch_pos` and `pending` are the
thread's local state. A record's bytes are its identity `<<file, ordinal>>`, so a
row can be compared with the record it was really made from; the number it is
given comes from `next_record_no`. A thread inside `FillBatch` holds `io_lock`, and
every step of the loop is an action: `FillExhausted`, `FillOpen` or
`FillOpenThrows`, `FillNextRaw` and `FillNumber` (splitting and numbering are
separate steps), `FillEndOfFile`, `FillReturn`. `NextRaw` is the loop head of the
three scan functions, `ParseAndCount`, `ClassifyAndPush` and `ParseThrows` their
bodies, with the two counter increments apart. `Emit` is `EmitSubfieldRows`, and
the end of `NestedScan` and `RawScan`, which produce at most one row per record
and so never have rows left over. `claims` and `claim_no` are the batch numbers
the engine gives; in v1.5 they only serve the properties.

*ScanMetrics.* `MarcScanGetMetrics` (DuckDB v2.0 only) takes no lock: `LoadMetric` is
one of its four loads, and any step of any thread may come between two of them. When
the engine asks is its own affair; here it may at any moment of the scan of a glob in
`Profiled`, and `at_end` says whether the scan was over. A load sees the counter as it
is. The code asks for relaxed order, under which another processor may show an older
value of one counter than of another; on x86, and once the threads have been joined,
it does not.

*RecordStream.* `buf` and `eof` are `buf_` and `eof_`. An octet is a terminator, a
separator or other. One step is one turn of `NextRaw`'s loop. A read may return any
number of octets up to what was asked for; it may also throw, which leaves the
buffer grown by zero octets in a stream that other threads still share. What they
get from it are the file's records up to the one with the zero octets in it; what
follows is of no file, and of a query that has failed.

*TextSource.* Text is a sequence of marks: what the cutter and the parsers look
for. `"=LDR"` is two marks and `</record>` two or more, so a chunk can end inside
them. Of what the parsers throw only the comment without an end is left. One step is
one turn of the loop in `Next`.

*TextScan.* `next_text_path` is the atomic counter. Between its `fetch_add`
(`NextPath`) and the opening of the file (`OpenSource`, `OpenThrows`, `ParseWhole`)
other threads run. Files are given as slices, slices as the rows of each record.

*Z3950.* A record is its position in the result set. An APDU is a header and a
body octet, so it can arrive in two receives and two APDUs in one. A conforming
server answers as Z39.50-1995 says (any positive number of records up to what was
asked for, in order); a faulty one answers with anything the client can parse or
reject, a wrong tag, a Close, octets that are no BER, counters that do not fit.
Either hangs up at any moment, cutting an answer short, or falls silent until the
receive times out. `Acceptable` collects what makes the client go on; anything else
throws.

*MarcCopy.* A row is two pieces in the file, so a half-written row is visible.
Which records cannot be serialised is part of the input. A write may throw after
any piece.

*RecordEdit.* `core/edit.cpp` as operators from field lists to field lists, one per
operation, and an action for each that applies it to the record a chain of SQL
calls has reached. Where the code throws, the record stays (`Throws`). Tags are
numbers, so that the code's string comparison is `<`; tag patterns and regular
expressions are the sets they match, replacements and case mappings functions. The
breaker form, by which diffs compare and through which `BuildField` goes, conflates
what it conflates in the code: a blank and a backslash indicator, `$` and a literal
`{dollar}`. Fields start with the kind their tag says, as every reader makes them;
`Strings`, all strings in the runs, is where their values come from.
The second indicator is treated like the first and left out.

*Catalog.* More actions on the same record, one per operation of `core/catalog.cpp`
and `core/authlink.cpp`. These look inside values, so `Spelling` gives the symbols of
a value, a symbol being a character or a few letters that no operation takes apart. A
program can write any text; an instance has the spellings it needs, and assumes, of
the texts that new records and expansions write, that it has them. Chains start from
records in the files' order, and from new ones as `NewRecord` makes them. Of leader
and 008 the positions are given that some operation reads again. MARCspec expressions
are their parsed form; `Resolve` is what a range means for a given length, counted
from either end.

*Unicode, Marc8.* A character is its code point, an octet its number. The generated
tables (`unicode_tables.hpp`, `marc8_tables.hpp`) are constants. `Marc8` keeps the
encoder's state in one record (octets so far, set designated as G0, second half
owed to a later letter, deferred marks) and `EncodeRound` is one turn of the loop
of `EncodeMarc8`, `DecodeAt` one turn of that of `Marc8Decode`. A numeric character
reference is one symbol beyond the code points, since the decoder passes its octets
through unless another set is designated, which is modelled.

*Iso2709.* `WriteRecord` and `ParseRecord` octet by octet. The radix of the numbers
and the widths of the directory and leader fields are constants, 10, 4, 5 and 5 in
the code; the runs take a radix of 15 with widths 1, 2 and 2, so that records of a
few fields reach every limit: the length of a field, its start and the total.

*TextForms.* Values, tags and codes are characters with every escape; a MARCXML tag
and a JSON bracket is one symbol or value. Where they end is read off the characters
nonetheless: a `<` in a text begins a tag that reaches to the next `>`
(`ReadXmlText`), a `>` in an attribute ends the tag it is in, which then lacks that
attribute and those behind it (`HasAttr`; without a tag or a code the reader throws),
a quotation mark ends an attribute or a JSON string. So an escape that a writer
leaves out shows. `WriteBreaker`, `WriteMarcXml` and
`WriteMarcJson` have an argument that says whether this program writes or another,
which escapes all it may (entities for quotes, references in both bases, UTF-16
units), ends lines with CR LF, writes empty elements and puts records into
envelopes. The readers are the ones of the code in either case.

*Exchange.* `Rewrite` replaces the text by a canonically equivalent one, by the
definition of equivalence and not by the normal forms of `Unicode`. `Write` and
`WriteText` put it into a record and the record into a file, `Damage` changes any
octet of it and `Cut` ends the file inside it; a second record stands behind the
first. `ReadBack` and `ReadText` are what the readers make of the file.

## 3. Runs

| run | asks | bounds |
|---|---|---|
| `scan_subfields` | Is every row delivered exactly once, exact, in restorable order, and does an engine-claimed batch stay whole? (refinement of `RecordScan`) | 3 threads, batches of 2, chunks of 2, 3 files with 5 records: a record wider than a chunk, a malformed one, one without rows, an empty file, a batch over a file boundary; and a glob whose second file cannot be opened; both ways of claiming; symmetric threads |
| `scan_records` | Does the scan end, fail or skip as it should and count every record, and do the counters that are reported fit together, whenever they are read? | 2 threads, 5 globs: malformed records first, last and alone, no file, a file that does not open, and one of more records than threads in both encodings, during whose scan the metrics are read; `read_marc` and `read_marc_raw`, with and without `ignore_errors` |
| `record_stream` | Are the records independent of where reads end, in bounded memory, and right as far as they can be after a read that failed? | every file of up to 6 octets, reads of 1 to 3 |
| `text_source` | Do the slices parse to the records of the whole file? | every breaker text of up to 4 of 6 kinds of lines, every MARCXML text of up to 4 of 8 kinds of tags and texts, well nested or not, or of tags, texts and comments that hide no end tag; chunks of 1 to 3 marks |
| `text_comments` | (violated) Does a file with comments parse slice by slice if it does as a whole? | up to 2 records, commented out or not |
| `text_scan` | Is every row delivered exactly once, numbered in its file, and each file read by one thread? (refinement of `RecordScan`) | 2 threads, chunks of 2 rows, 4 globs of up to 4 files |
| `z3950_session` | Complete or error, in order, ending, with any server? | result sets and answers of up to 3 records, Presents of 2, chunks of 2; max_records -1, 2 and 4 |
| `copy_sink` | Contiguous chunks, whole files, no trace of rejected chunks, an end? | 3 threads with up to 2 chunks of up to 2 rows; with and without a wrapper |
| `record_edit` | Do chains of edits keep kinds, tag order and untouched fields, do diffs account for everything, are a repeated merge and a repeated clean-up without effect, do MARCspec ranges take a record apart? | chains of 2 operations of every kind, on six records: in tag order and not, with repeated tags, a field without subfields, a leader and 006, 007 and 008 that 33X fields are generated from, abbreviations (also behind a letter that is not ASCII), a heading with links in several spellings, and two new records; ranges that begin and end at 0, 1 and 3; 4 merge profiles with overlapping lists and an incoming record out of order |
| `merge_position` | (violated) Does a replaced group go where the base's group was? | the records and edits of `RecordEdit` |
| `exchange` | Do equivalent texts have one normal form, does MARC-8 keep every letter and mark, does what is written read back in every form, does damage stay in its field? | every text of up to 3 of 17 characters, and chosen longer ones with up to 3 marks on a letter or marks over two letters; excerpts of the tables with 7 marks of 5 classes and 9 sets; ISO 2709 records of 2, 3 and 10 fields with texts of up to 2 characters; text forms of texts of one character or with characters special to a form, with indicators and codes that are special, too; every octet of the small records (up to 80 octets) replaced by each of 8 octets that mean something, and every cut |
| `ansel_text` | (violated) Does every character that ANSEL has an octet for survive MARC-8? | characters of the ANSEL excerpt, alone and with a mark |

Why the bounds are enough: the code distinguishes a batch (or chunk, or Present)
that is empty, short, full or overflowing, and two in a row; sizes of 2 with inputs
of up to 5 give all of these and their crossings with file boundaries. An edit sees
only the record before it, so chains of two put every operation behind every other.
An encoder looks at a letter, its marks, the next letter, and what set is
designated: texts of three characters have every neighbourhood of these, the longer
ones the second half of a mark over two letters behind a cluster of its own.
The reader of a record takes every field by itself, so a change of one octet
meets each of its checks. The loops
carry no state beyond what the models keep, so longer inputs repeat these cases.
Two threads suffice for a race between two accesses; the third lets one more
thread wait for the lock, or read ahead, meanwhile.

The three violated runs are disagreements in the code. `text_comments`: the cutter
looks for `</record>` in the text, the parser skips comments; a commented-out record
makes `read_marcxml` fail on a file that `ParseMarcXml` accepts. `merge_position`:
`MergeRecords` cannot tell a replaced group that stood last from one the base did not
have, so in a base that is not in tag order it moves to its tag-order position,
although `edit.hpp:81-83` says it is inserted where it was. `TagOrderKept` shows that
a base in tag order is not affected. `ansel_text`: `EncodeMarc8` decomposes before it
looks characters up, and ANSEL has four letters (O and U with horn) whose parts it
does not have; they are written as a letter and a reference, and come back as the
letter and the characters of the reference.

Three observations have no run of their own. `CountRecord` takes leader/09 `A` for
UTF-8 and `ParseRecord` does not (`marc_extension.cpp:214-219`, `iso2709.cpp:75`), so
the metric of records decoded from UTF-8 counts such a record wrongly. The breaker
form has no escape for line ends, although `textwriters.cpp:1-7` calls the writer the
exact inverse of the reader with the one exception of `{dollar}`: a value with a line
feed loses what follows it. Nor has it one for a backslash as an indicator or a
dollar sign as a code; `RoundTrips` leaves all three out (`Expressible`). And
`ParseMarcXml` opens a data field at a self-closing `<datafield/>` without ever
storing it (`marcxml.cpp:267-275`); MARCXML asks for a subfield in every data field,
so no valid file has one.

### Fairness

`MarcScan` (with its metrics read or not), `TextScan`, `MarcCopy`: weak fairness of
every thread's next step. The engine calls a scan function until it returns no rows
and a sink for every chunk, and threads that run are scheduled. A free lock is given
to one of the waiting threads; that each waiting thread gets it follows, since every
holder releases it after finitely many steps of its own and the input is finite. `RecordStream`: a
caller that goes on calling and reads that return; a read that throws is not
assumed to happen. `Z3950`: weak fairness of the client only. A receive returns,
reports the end or times out (`SO_RCVTIMEO`), and nothing is assumed of the server.

## 4. Proofs

TLAPS proves every safety property that the passing runs of `MarcScan`,
`RecordStream`, `TextSource`, `TextScan`, `Z3950` and `MarcCopy` check, and all that
the run `record_edit` checks of `RecordEdit` and `Catalog`, for all values of the
constants: any number of threads, sizes of batches, chunks, reads, receives and
Presents, any globs, files, result sets, records, edits, merges, links and spellings
(for one of them, `SlicesParseLikeWhole`, of MARCXML files whose comments hide no
record's end). Each of these modules states what is assumed of its constants
(`ScanAssumption`, `StreamAssumption`, `SourceAssumption`, `TextAssumption`,
`SessionAssumption`, `CopyAssumption`, `EditAssumption`): that they are of the right
kinds, that sizes are positive, and where a proof needs it that there is a thread.
`ScanMetrics` counts the threads, so they are finitely many (`FiniteThreads`). Of the
records that edits start from, add or merge in, `EditAssumption` says what every
reader sees to: their fields are of the kind their tag says. The assumptions of
`Catalog` are about its tables: no two values are spelled alike
(`SpellingAssumption`); new records and expansions are texts (`NewTextsAreSpelled`,
`TermsAreStrings`, `AbbreviationAssumption`, which also says that what an abbreviation
stands for is no abbreviation); materials and link codes are those the code accepts
(`MaterialsAreKnown`, `LinkAssumption`); positions are numbers
(`PositionsAssumption`). Nothing is assumed of which symbols are marks, punctuation or
foreign letters, but that the period is punctuation and abbreviations are words.

| module | theorems |
|---|---|
| `MarcScan_proofs` | `TypeCorrect`, `OrdinalsAreExact`, `OutputInOrder`, `OrderRestored`, `ChunksOfOneBatch` (an action property), `AllCounted`, `ReportAddsUp`; `Refinement`: `Spec => ExactlyOnce` |
| `RecordStream_proofs` | `SplitsAlike`, `Bounded` |
| `TextSource_proofs` | `Whole`, `OneRecord`, `Alike` |
| `TextScan_proofs` | `NumbersExact`, `Together`; `Refinement`: `Spec => ExactlyOnce` |
| `Z3950_proofs` | `InOrder`, `AllOrError`, `NeverRefused`, `RowPerRecord` |
| `MarcCopy_proofs` | `Contiguous`, `Complete`, `NoTrace` |
| `Catalog_proofs` | `KindMatches`, `TagOrder` and `Untouched` (action properties), `DiffTells`, `Stable`, each for `Spec` and for `CatalogSpec`; `Settles`, `RangesSplit` |

None of the properties is inductive: they speak of what was returned, written or
handed out at the end of a longer way. Each module therefore has an inductive
invariant, stated below the properties in the module of the model or at the head of
the proofs; TLC evaluated it on the runs' instances before it was proved. One lemma
per action says that the action preserves it; lemmas called frames or `Others...` say
that the part of one thread survives a step of another.

*MarcScan.* `IndInv` follows a row's way backwards: rows pending in a thread are
exact (`RowsExact`) because they are made from items of its batch, which are exact
(`BatchOK`), because an item is made from `item`, `current_path` and
`next_record_no` while these agree (`CursorOK`), which they do because only the
holder of the lock changes them (`LockHeld`). `OrderInv` adds the order: batches are
numbered as they are split off, what a thread returned, has pending and holds in
its batch follows the glob and carries batch numbers that grow with it, and no two
threads hold one number. Rows carry the number of their batch, since a thread of
v1.5 returns rows of one batch when it holds the next already.
`ScanInv` adds that every record split off is in one place: in a batch, in the
hands of one thread, or settled, that is skipped and counted or with all its rows
pending or returned; and that a thread that is done has left nothing. From it
follow both that the counters are complete and that the rows are all there when
the scan ends well.

That the report adds up (`ReportAddsUp`) rests on the order of the loads. The records
are loaded first, and the encodings only grow, so what they lag behind is at most
what they lagged then; and that is the number of threads between the two increments
of `CountRecord` (`SkewCounted`), which are no more than there are threads. When the
scan is over no thread is between them, and the counters do not change any more.

The refinement maps the rows returned by all threads to `delivered`. `Emit` is the
only step that is not a stutter while the scan runs: its rows are owed
(`IndInv`), distinct (`OrderInv`: a thread's rows are in a strict order, and two
threads never have rows of one record) and not delivered yet. The step by which
the last thread stops is the step to `complete`, and is allowed since then
`Delivered = OwedRows` (`Completed`). An error is a step to `failed`, allowed since
something in the glob may not be skipped (`FailsRightly`).

*RecordStream.* `IndInv` says that the buffer is the end of what was read, and that
the records handed out, followed by those `SplitFrom` finds from the buffer's place
on, are the records of the file. The lemmas on `SplitFrom` say what it gives at a
terminator, a blank and the end of the file. A read that throws leaves zero octets
in the buffer, so the first part holds only while none did. From then on `FailOK` says
where they are: in the record that comes next, or in one that was handed out
(`NulFirst`); the lemmas `HandsOut...` say what each turn of the loop makes of that. So
the records in front of the zero octets are the file's.

*TextSource.* What the cutter finds in a text - leaders, content before them, end
tags - it finds in every text that begins with it, and the other way round as
far as the shorter one goes; a leader is two marks, so one may lie half in the
shorter text. So a read can only add boundaries at the end (`BoundariesAreNew`),
which is why a slice, cut at the first of them, has one record's mark, and why the
buffer is not longer than one slice and one read.

That the slices parse like the whole file (`Alike`) is a second invariant,
`AlikeInv`: the records of the slices, followed by those of what is still to be handed
out, are the records of the file. A slice keeps it because each parser can be cut
where the cutter cuts. In front of a leader that follows a line (`LeaderCut`)
`ParseBreaker` begins a record whatever it knows, so what it finds in the whole is what
it finds in the two parts (`BreakerCut`). Behind an end tag (`EndTagCut`) `ParseMarcXml`
is in no record, and a name behind the cut cannot reach across it; whatever it
remembers of the first part is then reset before it is used (`CarriesOn`, `XmlCut`). It
must also be in no comment, which the cutter does not look for: hence the hypothesis
`EndsShown`, that no comment in the file holds a record's end tag. Without it the
property is false - of a record with a commented-out end tag in it the slices make no
record at all - for the reason that `text_comments` shows. Nothing is assumed of breaker
files, and nothing of how tags are nested.

*TextScan.* `TextInv` ties the place of a thread in its file to the rows it has
made: a thread that reads slice by slice has made exactly the rows of the records
in the slices behind it, numbered by their place in the file (`SourceOK`,
`RowsOK`); two threads have no file in common (`FilesApart`); and a file that was
handed out is held by a thread or wholly made into rows (`FilesHandled`), which is
what the end of the scan needs. How many slices a file has, and how many records a
slice, is unbounded: `RowsAre` and `RecordsGrow` say what the flattened sequences
hold.

*Z3950.* Nothing is assumed of the server in `AllOrError` and `RowPerRecord`. For
the other two `IndInv` says what may be under way between a conforming server and
the client: the client's last request, unanswered, or what is left of one answer
to it, received or not, and nothing else. The answers a conforming server gives are
exactly those the client accepts in that state.

*MarcCopy.* A thread in its critical section holds the lock, what it has written of
its chunk is the end of the file, and its buffer is the rest of the chunk
(`PartWritten`). A piece of a row is followed by the next one of its chunk, unless it
was the last, or its write was cut short or is going on (`PieceOK`).

*RecordEdit.* The invariant is that the record is one (`MarcRecords`): its fields are
of the kind of their tags, and their values are strings. `Keeps` adds that a list
in tag order stays in it, and there is one lemma per operation. Edits of single
fields are functions on fields that leave the tag alone (`OneByOne`); removals take
some of the fields in order (`PickKeeps`); insertions stand behind the last field
whose tag is not greater (`InsertKeeps`, `AtPosition`), and one of a merge where the
old group was: `Places` says where the fields that are left stood, so that those in
front of the group are those that were there before. A field changes its tag only
within its kind (`CrossesBoundary`, `SwapThrows`), or a step throws. Passes over a list -
sorting, copies, rules, the groups of a merge - are folds, and keep what each of
their steps keeps.

That untouched fields stay is a matter of selections: `Having(s, T)` is the fields of
the tags T, and every operation is shown to leave `Having` of the other tags alone.
The lemmas it rests on say that a selection from two lists, one behind the other, is
the two selections (`Apart`), and that a selection only depends on which elements are
selected (`SamePicks`). A merge settles a group when what it would do with it once
more is what is there (`Settled`), and the groups of other tags, merged later, leave
it settled (`SettledStays`): for a replaced group that is so because in a record in
tag order the group stands together and is put back where it was (`Grouped`,
`ReplaceSelf`). A diff is taken apart into its entries: each is of one pair of
occurrences that differ, each such pair has one (`Compares`), a field is one
occurrence of one tag (`OneOccurrence`); so what is not listed of a tag is, in both
records, the occurrences whose pairs are the same, in ascending order (`Listing`).
The proof showed an error in the model: the entry of the leader had the tag 0, which
is also that of a field 000, whose entries the property then took for the leader's;
it has a number that is no tag now.

*Catalog.* The operations of `Catalog` are edits of the same kinds: `CatalogNextGood`
adds them to the steps that keep what edits keep, so the five theorems above hold of
chains of both.

That a clean-up settles (`CleanupSettles`) is shown for every record, not only for one
that a chain has reached. What generated fields add is described by `Grows`: a record
that has all fields of another, in their places by an injection, scores no less in any
part of `Completeness`, each of which counts fields or asks for one; 33X fields are
only added, and so the rank does not fall. The terms are a function of leader, 006, 007
and 008, none of which is generated or expanded (`TermsSame`, `ExpandGenerated`). An
expansion leaves nothing to expand, because behind a word that was written out there
is no period, and the symbols next to every other one are of the kind they were
(`Neighbours`, `AbbrevsOnce`). A link is taken apart into what stands before and
behind it (`LinkStands`), both without links, from which follow all four of setting
it again, anew, clearing it, and the heading being the same.

The ranges of MARCspec are sets of positions, and what a range selects is what stands
at them. A selection of all that is up to n, followed by that of all that is behind
it, is the list (`PickSides`); the last n + 1 are a tail of it (`RangesAre`). The
values of fields, of subfields and the characters of a value are then pictures of what
was selected (`Mapped`), so that the same splits apply to all three.

*Induction.* The library states induction for an arbitrary predicate, which the
installed provers cannot instantiate. `GeneralFacts` states it for a set of numbers
(`Induct`: a set with 0 and with every successor is `Nat`) and proves it from
the least element of a set. With it, recursive functions are shown to have their
defining equation (`Recursion`, `BackwardRecursion`), so `SplitFrom`, `Parsed`,
`ElementsAt`, `FlattenSeq` and `FoldLeft` can be reasoned about for input of any
length. Of a fold, `FoldExists` says that the function behind it exists, and `FoldIn`
that it stays in a set which its operation does not leave.

What stays with TLC:

- liveness (`ScanTerminates` and its like), which needs fairness and `ENABLED`;
- the codecs (`Exchange` and the modules below it): encoders and decoders fold over
  their input, and whether what is written reads back depends on generated tables
  that are constants here, of which the runs have excerpts. `TextForms` has a
  recursive operator besides.

## 5. Not modelled

Reading errors in the middle of a file appear in `RecordStream` only; `MarcScan` and
`TextScan` have files that do not open. Projection push-down (which columns are
decoded), column values, the planner's cardinality estimate, gzip, and the
multi-file framework of DuckDB v2.0 (it expands the glob and calls the reader file
by file) are left out of the scans. Behind the text source, `MarcByteSource` may fall
back from one way of opening a file to another; the models begin with the open file.
A read that throws inside a text file is not modelled, nor is what a failed `COPY`
leaves on the disk when `Sync` throws after the footer was written
(`marc_copy.cpp:253-256`): the code makes no promise about it.

`TextSource` keeps of the two parsers which text belongs to which record. What they
throw besides for a comment without an end is left out: for short lines and bad tags
(`breaker.cpp:74-76`, `88-92`), for tags without an end and without their key attribute
(`marcxml.cpp:179`, `186`, `253`, `270`, `280`). So is what `ParseMarcXml` remembers of an
element that a record leaves open (`collecting_elem`, `in_datafield`): parsed as a whole,
a file that is not well nested could carry it over into the next record, in slices
it cannot. `BuildField` takes its values to be in NFC, as every reader leaves them,
and of a template how many field lines it has.

In Z39.50: the query language, the contents of BER elements, and a limit for the whole
session, of which the code has none. In the text forms: the syntax of XML and JSON but
for where tags and strings end (single quotes, comments, numbers, malformed markup of
other programs), and the codes and indicators that are not one character. In MARCspec,
the text of an expression and the second indicator.

Check digits, sort keys, match keys and clustering keys (`core/callnum.cpp`,
`idnorm.cpp` except `NacoNormalize`, `cluster.cpp`) are functions of one string with
no state and no inverse to check them against; a model would repeat their tables.
The Aleph and MicroLIF readers and Avram validation are of the same kind. SQL
registration, vectors, function documentation, macros and XSLT are glue and texts
that DuckDB or the XSLT processor evaluates.

## 6. Plan

1. *Done*: scans, stream, text source, session, sink; record edits and merges;
   first theorems.
2. *Done*: authority links, cataloguing helpers and MARCspec as operations on the
   edited record; the codecs and text forms, composed along a record's way through
   a file.
3. *Done*: the parallel scans, the stream, the text source, the Z39.50 session and
   the sink proved: every safety property their runs check, and both
   refinements of `RecordScan`; for `RecordEdit` that no edit mixes up control and
   data fields and that edits keep tag order.
4. *Done*: for `RecordEdit` that the fields an edit is not about stay as they are,
   that a diff explains the difference and that merging once more changes nothing;
   the same of chains with the operations of `Catalog`, that these settle after one
   pass, and that MARCspec ranges take a record apart.
5. *Done*: for `TextSource` that the parsers can be cut at the boundaries; how the
   counters of a scan are reported; the stream after a read that failed. Liveness and
   the codecs stay with the runs.
