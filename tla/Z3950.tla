------------------------------- MODULE Z3950 -------------------------------
(***************************************************************************)
(* read_z3950: one Z39.50 session (src/core/z3950.cpp) over a TCP socket   *)
(* (src/core/z3950_socket.cpp), run once from the first call of the table  *)
(* function (src/marc_z3950.cpp): Init, Search, then Present requests      *)
(* until enough records have come.  The server and the network are         *)
(* external: a conforming server follows Z39.50-1995, a faulty one answers *)
(* anything the client can parse; either may hang up at any time.          *)
(*                                                                         *)
(* A record is its position in the server's result set.  An APDU is a      *)
(* header and a body octet, so that it can arrive in two receives, and two *)
(* APDUs in one.                                                           *)
(***************************************************************************)
EXTENDS Integers, Sequences

CONSTANTS
  PRESENT_CHUNK,   \* records asked for by one Present (10)
  VECTOR_SIZE,     \* rows of one output chunk (2048)
  MaxHits,         \* bound: the largest result set, and the largest answer
  MaxRecords,      \* the values given for max_records
  Servers          \* {"conforming", "faulty"} or one of them

ASSUME SessionAssumption ==
  /\ PRESENT_CHUNK \in Nat \ {0}
  /\ VECTOR_SIZE \in Nat \ {0}
  /\ MaxHits \in Nat
  /\ MaxRecords \subseteq Int
  /\ Servers \subseteq {"conforming", "faulty"}

VARIABLES
  max_records, ignore_errors,            \* the call
  server, hits, malformed,               \* the server and its result set
  pc, fetched, next_row, rows,           \* the scan
  buf, hit_count, raw_records, next,     \* the client
  records,                               \* the records that parsed
  requests, wire, peer                   \* the connection

call == <<max_records, ignore_errors, server, hits, malformed>>
scan == <<fetched, next_row, rows>>
client == <<buf, hit_count, raw_records, next, records>>
network == <<requests, wire, peer>>
vars == <<call, pc, scan, client, network>>

Init ==
  /\ max_records \in MaxRecords
  /\ ignore_errors \in BOOLEAN
  /\ server \in Servers
  /\ hits \in 0..MaxHits
  /\ malformed \in {{}, {2}}
  /\ pc = "idle"
  /\ fetched = FALSE
  /\ next_row = 0
  /\ rows = <<>>
  /\ buf = <<>>
  /\ hit_count = 0
  /\ raw_records = <<>>
  /\ next = 0
  /\ records = <<>>
  /\ requests = <<>>
  /\ wire = <<>>
  /\ peer = "none"

Min2(a, b) == IF a < b THEN a ELSE b
Max2(a, b) == IF a > b THEN a ELSE b

Prefix(s, n) == SubSeq(s, 1, Min2(n, Len(s)))

(***************************************************************************)
(* The client's requests and the server's answers.                         *)
(***************************************************************************)

InitRequest == [tag |-> "init", start |-> 0, count |-> 0]
SearchRequest == [tag |-> "search", start |-> 0, count |-> 0]
PresentRequest(start, count) ==
  [tag |-> "present", start |-> start, count |-> count]

\* `ok`: the result flag of Init, searchStatus, and no diagnostic anywhere.
\* `position`: nextResultSetPosition.
Apdu(tag, ok, count, position, returned, recs) ==
  [tag |-> tag, ok |-> ok, count |-> count, position |-> position,
   returned |-> returned, recs |-> recs]

Octets(apdu) == [part \in 1..2 |-> [part |-> part, apdu |-> apdu]]

\* FrameTlv: the buffer begins with a whole APDU.
Framed == Len(buf) >= 2
Frame == buf[1].apdu

\* The Search asks for no records in its response.  A Present is answered
\* with at least one record, all of which follow the asked start point, and
\* with the position behind them (zero when they are the last), or with a
\* diagnostic when it asks for a position outside the result set.
ConformingAnswers(r) ==
  CASE r.tag = "init" -> {Apdu("init", TRUE, 0, 0, 0, <<>>)}
    [] r.tag = "search" ->
         {Apdu("search", TRUE, hits, position, 0, <<>>) : position \in {0, 1}}
    [] OTHER ->
         IF r.start \in 1..hits /\ r.start + r.count - 1 <= hits
         THEN UNION
           {{Apdu("present", TRUE, 0, position, k, [i \in 1..k |-> r.start + i - 1]) :
               position \in IF r.start + k - 1 = hits THEN {0, hits + 1}
                            ELSE {r.start + k}} : k \in 1..r.count}
         ELSE {Apdu("present", FALSE, 0, 0, 0, <<>>)}

\* An answer with the wrong tag, a refusal, a close, octets that are no BER,
\* records nobody asked for, none at all, counters that do not fit them.
FaultyAnswers ==
  {Apdu(tag, ok, 0, 0, 0, <<>>) : tag \in {"init", "close", "garbled"}, ok \in BOOLEAN}
    \cup {Apdu("search", ok, count, position, 0, recs) :
            ok \in BOOLEAN, count \in {-1, MaxHits}, position \in {0, 2},
            recs \in {<<>>, <<1>>}}
    \cup {Apdu("present", ok, 0, position, returned, recs) :
            ok \in BOOLEAN, position \in {0, 2, MaxHits + 1}, returned \in {0, 1},
            recs \in {<<>>, <<1>>, <<1, 1>>}}

(***************************************************************************)
(* The connection.                                                         *)
(***************************************************************************)

\* The server reads the oldest request and answers it.
Answer ==
  /\ peer = "open"
  /\ requests # <<>>
  /\ \E apdu \in IF server = "conforming" THEN ConformingAnswers(Head(requests))
                 ELSE FaultyAnswers :
       wire' = wire \o Octets(apdu)
  /\ requests' = Tail(requests)
  /\ UNCHANGED <<call, pc, scan, client, peer>>

\* The peer hangs up; an answer on its way may be cut short.
HangUp ==
  /\ peer = "open"
  /\ peer' = "closed"
  /\ \/ UNCHANGED wire
     \/ wire # <<>> /\ wire' = SubSeq(wire, 1, Len(wire) - 1)
  /\ UNCHANGED <<call, pc, scan, client, requests>>

Awaiting == {"init", "search", "present"}

\* The socket is closed when Z3950Fetch leaves its try block.
CloseSocket == requests' = <<>> /\ wire' = <<>> /\ peer' = "none"

\* Any failure is an exception that ends the query.
Throw == pc' = "failed" /\ CloseSocket /\ UNCHANGED <<call, scan, client>>

\* SocketTransport::Recv returns what has arrived, at most as much as fits.
Recv ==
  /\ pc \in Awaiting
  /\ ~Framed
  /\ wire # <<>>
  /\ \E n \in 1..Len(wire) :
       /\ buf' = buf \o SubSeq(wire, 1, n)
       /\ wire' = SubSeq(wire, n + 1, Len(wire))
  /\ UNCHANGED <<call, pc, scan, hit_count, raw_records, next, records,
                 requests, peer>>

\* Nothing more will come, or nothing has come yet.
Starved(state) == pc \in Awaiting /\ ~Framed /\ wire = <<>> /\ peer = state

\* Mutant: an empty receive is tried again.
RecvClosedRetried == Starved("closed") /\ UNCHANGED vars

\* Mutant: an empty receive ends the fetch with what has come so far.
RecvClosedEndsFetch ==
  /\ Starved("closed")
  /\ pc' = "parse"
  /\ UNCHANGED <<call, scan, client, network>>

\* ReadApdu: an empty receive means that the peer has closed.
RecvClosed == Starved("closed") /\ Throw

\* SO_RCVTIMEO expires.
RecvTimesOut == Starved("open") /\ Throw

(***************************************************************************)
(* The client.                                                             *)
(***************************************************************************)

\* Mutant: a later call of the scan function fetches again.
FirstScanForgets ==
  /\ pc = "idle"
  /\ ~fetched
  /\ pc' = "connect"
  /\ UNCHANGED <<call, scan, client, network>>

\* The first call of the scan function; `fetched` is set before anything is
\* sent.
FirstScan ==
  /\ pc = "idle"
  /\ ~fetched
  /\ fetched' = TRUE
  /\ pc' = "connect"
  /\ UNCHANGED <<call, next_row, rows, client, network>>

\* Z3950Search starts with an empty buffer and sends Init.
Connect ==
  /\ pc = "connect"
  /\ peer' = "open"
  /\ requests' = <<InitRequest>>
  /\ buf' = <<>>
  /\ raw_records' = <<>>
  /\ pc' = "init"
  /\ UNCHANGED <<call, scan, hit_count, next, records, wire>>

ConnectFails == pc = "connect" /\ Throw

\* Once the peer has closed, a request is lost or sending it throws.
Send(request, label) ==
  \/ /\ requests' = Append(requests, request)
     /\ pc' = label
     /\ UNCHANGED <<wire, peer>>
  \/ /\ peer = "closed"
     /\ pc' = "failed"
     /\ CloseSocket

\* Mutant: the last chunk is asked for in full.
PresentCountUnclipped(missing) == PRESENT_CHUNK

PresentCount(missing) == Min2(missing, PRESENT_CHUNK)

\* How many records to fetch of a result set of that size.
Want(count) == Min2(Max2(max_records, 0), count)

\* The head of the Present loop.
PresentOrParse(raw, position, count) ==
  IF Len(raw) < Want(count)
  THEN Send(PresentRequest(position, PresentCount(Want(count) - Len(raw))), "present")
  ELSE pc' = "parse" /\ UNCHANGED network

\* Mutant: the position moves by what was asked for.
AdvancedByChunk == next + PresentCount(Want(hit_count) - Len(raw_records))

\* Where the records behind those of this PresentResponse begin.
Advanced ==
  IF Frame.position >= 1 THEN Frame.position ELSE next + Frame.returned

\* What the client takes for an answer; anything else throws.
Acceptable ==
  /\ Frame.tag = pc
  /\ Frame.ok
  /\ pc = "search" => Frame.count >= 0
  /\ pc = "present" => Frame.recs # <<>> /\ Advanced > next

\* ExpectApdu takes one APDU off the buffer, and no more.
Take(tag) ==
  /\ pc = tag
  /\ Framed
  /\ Acceptable
  /\ buf' = SubSeq(buf, 3, Len(buf))
  /\ UNCHANGED <<call, scan, records>>

TakeInitResponse ==
  /\ Take("init")
  /\ Send(SearchRequest, "search")
  /\ UNCHANGED <<hit_count, raw_records, next>>

TakeSearchResponse ==
  /\ Take("search")
  /\ hit_count' = Frame.count
  /\ raw_records' = Prefix(Frame.recs, Want(Frame.count))
  /\ next' = IF Frame.position >= 1 THEN Frame.position ELSE 1
  /\ PresentOrParse(raw_records', next', Frame.count)

TakePresentResponse ==
  /\ Take("present")
  /\ raw_records' = Prefix(raw_records \o Frame.recs, Want(hit_count))
  /\ next' = Advanced
  /\ PresentOrParse(raw_records', next', hit_count)
  /\ UNCHANGED hit_count

Refuse == pc \in Awaiting /\ Framed /\ ~Acceptable /\ Throw

Parses(position) == position \notin malformed

\* The records among these that parse, in their order.
Parsed(raw) ==
  LET upto[n \in 0..Len(raw)] ==
        IF n = 0 THEN <<>>
        ELSE IF Parses(raw[n]) THEN Append(upto[n - 1], raw[n]) ELSE upto[n - 1]
  IN upto[Len(raw)]

\* Z3950Fetch parses what was fetched.
ParseRecords ==
  /\ pc = "parse"
  /\ ignore_errors \/ \A i \in DOMAIN raw_records : Parses(raw_records[i])
  /\ records' = records \o Parsed(raw_records)
  /\ pc' = "emit"
  /\ CloseSocket
  /\ UNCHANGED <<call, scan, buf, hit_count, raw_records, next>>

ParseFails ==
  /\ pc = "parse"
  /\ ~ignore_errors
  /\ \E i \in DOMAIN raw_records : ~Parses(raw_records[i])
  /\ Throw

\* The rest of Z3950Scan, in the first call and in the later ones.  The
\* engine stops calling at an empty chunk.
EmitRows ==
  LET n == Min2(VECTOR_SIZE, Len(records) - next_row) IN
  /\ pc = "emit" \/ (pc = "idle" /\ fetched)
  /\ rows' = rows \o [i \in 1..n |->
       [record_no |-> next_row + i, hits |-> hit_count, raw |-> records[next_row + i]]]
  /\ next_row' = next_row + n
  /\ pc' = IF n = 0 THEN "done" ELSE "idle"
  /\ UNCHANGED <<call, fetched, client, network>>

Client ==
  \/ FirstScan \/ Connect \/ ConnectFails
  \/ Recv \/ RecvClosed \/ RecvTimesOut
  \/ TakeInitResponse \/ TakeSearchResponse \/ TakePresentResponse \/ Refuse
  \/ ParseRecords \/ ParseFails \/ EmitRows

Over == pc \in {"done", "failed"}

Terminated == Over /\ UNCHANGED vars

Next == Client \/ Answer \/ HangUp \/ Terminated

Spec == Init /\ [][Next]_vars

\* The engine runs the scan, and a receive returns or times out.  Nothing is
\* assumed of the server.
FairSpec == Spec /\ WF_vars(Client)

-----------------------------------------------------------------------------
(***************************************************************************)
(* Correctness.                                                            *)
(***************************************************************************)

\* From a conforming server the client gets the first records of the result
\* set, in order, none left out and none twice, however the server cuts the
\* answers and the network cuts the APDUs.
FetchesInOrder ==
  server = "conforming" => raw_records = [i \in 1..Len(raw_records) |-> i]

\* Rows are returned only when everything asked for has come, "until
\* max_records or hit_count is reached"; whatever the server or the network
\* does, a part of it never passes for the result (z3950.hpp:143-148).
CompleteOrError ==
  (pc \in {"emit", "done"} \/ rows # <<>>) => Len(raw_records) = Want(hit_count)

\* The client never asks a conforming server for what it must refuse, and
\* never refuses what a conforming server answers.
ConformingNeverRefused ==
  server = "conforming" /\ pc \in Awaiting /\ Framed => Acceptable

\* One row per returned record that parsed, numbered from 1, over all the
\* calls of the scan function.
RowsMatchRecords ==
  LET parsed == Parsed(raw_records) IN
  /\ \A i \in DOMAIN rows :
       /\ rows[i].record_no = i
       /\ i \in DOMAIN parsed
       /\ rows[i].raw = parsed[i]
  /\ pc = "done" => Len(rows) = Len(parsed)

\* The session ends, even with a server that never answers, hangs up, or
\* answers with too little again and again.
SessionEnds == <>Over

(***************************************************************************)
(* The inductive invariant behind these.                                   *)
(***************************************************************************)

Tags == {"init", "search", "present", "close", "garbled"}
Apdus == [tag : Tags, ok : BOOLEAN, count : Int, position : Nat, returned : Nat,
          recs : Seq(Nat)]
OctetsOnWire == [part : 1..2, apdu : Apdus]
Requests == [tag : {"init", "search", "present"}, start : Nat, count : Nat]
ResultRows == [record_no : Nat, hits : Nat, raw : Nat]

\* Every variable holds a value of its kind.
TypeOK ==
  /\ max_records \in MaxRecords /\ ignore_errors \in BOOLEAN
  /\ server \in Servers /\ hits \in 0..MaxHits /\ malformed \in {{}, {2}}
  /\ pc \in Awaiting \cup {"idle", "connect", "parse", "emit", "done", "failed"}
  /\ fetched \in BOOLEAN /\ next_row \in Nat /\ rows \in Seq(ResultRows)
  /\ buf \in Seq(OctetsOnWire) /\ wire \in Seq(OctetsOnWire)
  /\ hit_count \in Nat /\ next \in Nat
  /\ raw_records \in Seq(Nat) /\ records \in Seq(Nat)
  /\ requests \in Seq(Requests)
  /\ peer \in {"none", "open", "closed"}

\* Nothing is parsed or returned before the fetch is over, and the fetch is
\* over only with as many records as it was to get.
PhaseOK ==
  /\ ~fetched => pc = "idle"
  /\ ~fetched \/ pc \in Awaiting \cup {"connect", "parse", "failed"} =>
       rows = <<>> /\ records = <<>> /\ next_row = 0
  /\ pc = "present" => Len(raw_records) < Want(hit_count)
  /\ fetched /\ pc \in {"parse", "emit", "idle", "done"} =>
       Len(raw_records) = Want(hit_count)

\* The rows returned so far are the first of the records that parsed.
RowsOK ==
  fetched /\ pc \in {"emit", "idle", "done"} =>
    /\ records = Parsed(raw_records)
    /\ Len(rows) = next_row
    /\ next_row <= Len(records)
    /\ \A i \in 1..Len(rows) : rows[i].record_no = i /\ rows[i].raw = records[i]
    /\ pc = "done" => next_row = Len(records)

\* The request whose answer the client awaits.
Current ==
  CASE pc = "init" -> InitRequest
    [] pc = "search" -> SearchRequest
    [] OTHER -> PresentRequest(next, PresentCount(Want(hit_count) - Len(raw_records)))

\* With a conforming server all that is under way is the current request, or
\* what is left of one answer to it, and the client has counted right.
ConformingOK ==
  server = "conforming" =>
    /\ raw_records = [i \in 1..Len(raw_records) |-> i]
    /\ pc = "init" => raw_records = <<>>
    /\ pc = "present" => hit_count = hits /\ next = Len(raw_records) + 1
    /\ pc \in Awaiting =>
         /\ requests # <<>> => requests = <<Current>> /\ buf = <<>> /\ wire = <<>>
         /\ Len(buf) + Len(wire) <= 2
         /\ \A i \in 1..Len(buf) : buf[i].apdu \in ConformingAnswers(Current)
         /\ \A i \in 1..Len(wire) : wire[i].apdu \in ConformingAnswers(Current)
    /\ pc \notin Awaiting => wire = <<>> /\ requests = <<>>

IndInv == TypeOK /\ PhaseOK /\ RowsOK /\ ConformingOK
=============================================================================
