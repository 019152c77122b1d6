---------------------------- MODULE Z3950_proofs ----------------------------
(***************************************************************************)
(* Proofs about Z3950, for every result set, every answer of a conforming  *)
(* or faulty server and every way the network cuts the APDUs.              *)
(***************************************************************************)
EXTENDS Z3950, GeneralFacts

-----------------------------------------------------------------------------
(* Operators.                                                              *)

\* Parsed returns a sequence of the records it was given, no longer than it.
LEMMA ParsedType ==
  ASSUME NEW raw \in Seq(Nat)
  PROVE  /\ Parsed(raw) \in Seq(Nat)
         /\ Len(Parsed(raw)) \in 0..Len(raw)
<1> DEFINE upto == CHOOSE f : f = FilterRule(f, raw, malformed)
<1>1. upto = FilterRule(upto, raw, malformed)
  BY FilterExists
<1>2. Parsed(raw) = upto[Len(raw)]
  BY DEF Parsed, Parses, FilterRule
<1> HIDE DEF upto
<1>3. Len(raw) \in 0..Len(raw)
  OBVIOUS
<1> QED
  BY <1>1, <1>2, <1>3, Filtering

\* How many records to get and to ask for.
LEMMA WantType ==
  ASSUME TypeOK, NEW count \in Nat
  PROVE  /\ Want(count) \in Nat
         /\ Want(count) <= count
BY SessionAssumption DEF TypeOK, Want, Min2, Max2

\* A Present asks for at least one record and no more than are missing.
LEMMA PresentCountType ==
  ASSUME NEW missing \in Nat \ {0}
  PROVE  PresentCount(missing) \in 1..missing
BY SessionAssumption DEF PresentCount, Min2

\* The first n elements of s.
LEMMA PrefixType ==
  ASSUME NEW S, NEW s \in Seq(S), NEW n \in Nat
  PROVE  /\ Prefix(s, n) \in Seq(S)
         /\ Len(Prefix(s, n)) = Min2(n, Len(s))
         /\ \A i \in 1..Len(Prefix(s, n)) : Prefix(s, n)[i] = s[i]
<1> DEFINE m == Min2(n, Len(s))
<1>1. m \in 0..Len(s) /\ Len(s) \in Nat
  BY DEF Min2
<1> HIDE DEF m
<1>2. \A i \in 1..m : s[i] \in S
  BY <1>1
<1>3. /\ SubSeq(s, 1, m) \in Seq(S)
      /\ Len(SubSeq(s, 1, m)) = IF 1 <= m THEN m - 1 + 1 ELSE 0
      /\ \A i \in 1..(m - 1 + 1) : SubSeq(s, 1, m)[i] = s[1 + i - 1]
  BY <1>1, <1>2, SubSeqProperties
<1>4. Len(SubSeq(s, 1, m)) = m
  BY <1>1, <1>3
<1>5. \A i \in 1..m : SubSeq(s, 1, m)[i] = s[i]
  BY <1>1, <1>3
<1>6. Prefix(s, n) = SubSeq(s, 1, m)
  BY DEF Prefix, m
<1> QED
  BY <1>3, <1>4, <1>5, <1>6 DEF m

\* A part of a sequence.
LEMMA PartType ==
  ASSUME NEW S, NEW s \in Seq(S), NEW m \in 1..(Len(s) + 1), NEW n \in Nat,
         n <= Len(s), m <= n + 1
  PROVE  /\ SubSeq(s, m, n) \in Seq(S)
         /\ Len(SubSeq(s, m, n)) = n - m + 1
         /\ \A i \in 1..Len(SubSeq(s, m, n)) :
              \E j \in 1..Len(s) : SubSeq(s, m, n)[i] = s[j]
<1>1. Len(s) \in Nat /\ m \in Int /\ n \in Int /\ \A i \in m..n : s[i] \in S
  OBVIOUS
<1>2. /\ SubSeq(s, m, n) \in Seq(S)
      /\ Len(SubSeq(s, m, n)) = IF m <= n THEN n - m + 1 ELSE 0
      /\ \A i \in 1..(n - m + 1) : SubSeq(s, m, n)[i] = s[m + i - 1]
  BY <1>1, SubSeqProperties
<1>3. Len(SubSeq(s, m, n)) = n - m + 1
  BY <1>1, <1>2
<1>4. \A i \in 1..(n - m + 1) : m + i - 1 \in 1..Len(s)
  BY <1>1
<1> QED
  BY <1>2, <1>3, <1>4

\* What a conforming server answers to the current request is an APDU, and a
\* faulty server answers APDUs, too.
LEMMA AnswersType ==
  ASSUME TypeOK, NEW r \in Requests
  PROVE  ConformingAnswers(r) \subseteq Apdus /\ FaultyAnswers \subseteq Apdus
<1>1. hits \in Nat /\ MaxHits \in Nat
  BY SessionAssumption DEF TypeOK
<1>2. /\ <<>> \in Seq(Nat) /\ <<1>> \in Seq(Nat) /\ <<1, 1>> \in Seq(Nat)
      /\ {"init", "close", "garbled", "search", "present"} \subseteq Tags
      /\ 0 \in Int /\ 0 \in Nat /\ 1 \in Nat /\ -1 \in Int /\ TRUE \in BOOLEAN /\ FALSE \in BOOLEAN
  BY DEF Tags
<1>3. ASSUME NEW tag \in Tags, NEW ok \in BOOLEAN, NEW count \in Int,
             NEW position \in Nat, NEW returned \in Nat, NEW recs \in Seq(Nat)
      PROVE  Apdu(tag, ok, count, position, returned, recs) \in Apdus
  BY DEF Apdu, Apdus
<1>e. ASSUME NEW tag \in Tags, NEW ok \in BOOLEAN
      PROVE  Apdu(tag, ok, 0, 0, 0, <<>>) \in Apdus
  BY DEF Apdu, Apdus
<1>4. FaultyAnswers \subseteq Apdus
  <2> DEFINE others == {Apdu(tag, ok, 0, 0, 0, <<>>) :
                          tag \in {"init", "close", "garbled"}, ok \in BOOLEAN}
             found == {Apdu("search", ok, count, position, 0, recs) :
                         ok \in BOOLEAN, count \in {-1, MaxHits}, position \in {0, 2},
                         recs \in {<<>>, <<1>>}}
             sent == {Apdu("present", ok, 0, position, returned, recs) :
                        ok \in BOOLEAN, position \in {0, 2, MaxHits + 1}, returned \in {0, 1},
                        recs \in {<<>>, <<1>>, <<1, 1>>}}
  <2>1. FaultyAnswers = others \cup found \cup sent
    BY DEF FaultyAnswers
  <2> HIDE DEF others, found, sent
  <2>2. ASSUME NEW a \in others PROVE a \in Apdus
    BY <1>2, <1>e DEF others
  <2>3. ASSUME NEW a \in found PROVE a \in Apdus
    <3>1. PICK ok \in BOOLEAN, count \in {-1, MaxHits}, position \in {0, 2},
               recs \in {<<>>, <<1>>} : a = Apdu("search", ok, count, position, 0, recs)
      BY DEF found
    <3>2. count \in Int /\ position \in Nat
      BY <1>1
    <3>3. recs \in Seq(Nat)
      BY <1>2
    <3> QED
      BY <3>1, <3>2, <3>3, <1>2, <1>3
  <2>4. ASSUME NEW a \in sent PROVE a \in Apdus
    <3>1. PICK ok \in BOOLEAN, position \in {0, 2, MaxHits + 1}, returned \in {0, 1},
               recs \in {<<>>, <<1>>, <<1, 1>>} :
                 a = Apdu("present", ok, 0, position, returned, recs)
      BY DEF sent
    <3>2. returned \in Nat /\ position \in Nat
      BY <1>1
    <3>3. recs \in Seq(Nat)
      BY <1>2
    <3> QED
      BY <3>1, <3>2, <3>3, <1>2, <1>3
  <2> QED
    BY <2>1, <2>2, <2>3, <2>4
<1>5. ConformingAnswers(r) \subseteq Apdus
  <2> SUFFICES ASSUME NEW a \in ConformingAnswers(r) PROVE a \in Apdus
    OBVIOUS
  <2>1. r.tag \in {"init", "search", "present"} /\ r.start \in Nat /\ r.count \in Nat
    BY DEF Requests
  <2>2. CASE r.tag = "init"
    <3>1. a = Apdu("init", TRUE, 0, 0, 0, <<>>)
      BY <2>2 DEF ConformingAnswers
    <3> QED
      <4>1. \E ok \in BOOLEAN : a = Apdu("init", ok, 0, 0, 0, <<>>)
        BY <3>1, Zenon
      <4> QED
        BY <4>1, <1>2, <1>e
  <2>3. CASE r.tag = "search"
    <3>1. PICK position \in {0, 1} : a = Apdu("search", TRUE, hits, position, 0, <<>>)
      BY <2>3 DEF ConformingAnswers
    <3>2. position \in Nat
      OBVIOUS
    <3>3. \E ok \in BOOLEAN : a = Apdu("search", ok, hits, position, 0, <<>>)
      BY <3>1, Zenon
    <3>4. ASSUME NEW ok \in BOOLEAN
          PROVE  Apdu("search", ok, hits, position, 0, <<>>) \in Apdus
      BY <3>2, <1>1 DEF Apdu, Apdus, Tags
    <3> QED
      BY <3>3, <3>4
  <2>4. CASE r.tag = "present"
    <3>1. CASE r.start \in 1..hits /\ r.start + r.count - 1 <= hits
      <4>1. PICK k \in 1..r.count :
              \E position \in IF r.start + k - 1 = hits THEN {0, hits + 1} ELSE {r.start + k} :
                a = Apdu("present", TRUE, 0, position, k, [i \in 1..k |-> r.start + i - 1])
        BY <2>4, <3>1 DEF ConformingAnswers
      <4>2. PICK position \in IF r.start + k - 1 = hits THEN {0, hits + 1} ELSE {r.start + k} :
              a = Apdu("present", TRUE, 0, position, k, [i \in 1..k |-> r.start + i - 1])
        BY <4>1
      <4>3. k \in Nat /\ position \in Nat
        BY <2>1, <1>1
      <4>4. [i \in 1..k |-> r.start + i - 1] \in Seq(Nat)
        BY <2>1, <4>3
      <4> QED
        BY <4>2, <4>3, <4>4, <1>2, <1>3
    <3>2. CASE ~(r.start \in 1..hits /\ r.start + r.count - 1 <= hits)
      <4>1. a = Apdu("present", FALSE, 0, 0, 0, <<>>)
        BY <2>4, <3>2 DEF ConformingAnswers
      <4> QED
        <5>1. \E ok \in BOOLEAN : a = Apdu("present", ok, 0, 0, 0, <<>>)
          BY <4>1, Zenon
        <5> QED
          BY <5>1, <1>2, <1>e
    <3> QED
      BY <3>1, <3>2
  <2> QED
    BY <2>1, <2>2, <2>3, <2>4
<1> QED
  BY <1>4, <1>5

\* The current request of a client that has counted right asks for records a
\* conforming server has, and is answered with at least one.
LEMMA CurrentType ==
  ASSUME IndInv, pc \in Awaiting
  PROVE  /\ Current \in Requests
         /\ Current.tag = pc
         /\ pc = "present" =>
              /\ Current.start = next
              /\ Current.count \in 1..(Want(hit_count) - Len(raw_records))
<1> USE DEF IndInv
<1>1. pc = "present" => Want(hit_count) - Len(raw_records) \in Nat \ {0}
  <2>1. hit_count \in Nat /\ Len(raw_records) \in Nat
    BY DEF TypeOK
  <2>2. Want(hit_count) \in Nat
    BY <2>1, WantType
  <2>3. pc = "present" => Len(raw_records) < Want(hit_count)
    BY DEF PhaseOK
  <2> QED
    BY <2>1, <2>2, <2>3
<1>2. next \in Nat
  BY DEF TypeOK
<1> QED
  BY <1>1, <1>2, PresentCountType
     DEF Current, Requests, InitRequest, SearchRequest, PresentRequest, Awaiting

-----------------------------------------------------------------------------
(* IndInv is inductive: one lemma per action or group of actions.          *)

\* Parsed and Want depend on nothing but what stays.
LEMMA OperatorsStay ==
  ASSUME UNCHANGED call
  PROVE  /\ \A raw : Parsed(raw)' = Parsed(raw')
         /\ \A count : Want(count)' = Want(count')
BY DEF call, Parsed, Parses, Want

\* Before the first call of the scan function.
LEMMA InitIndInv == Init => IndInv
<1> SUFFICES ASSUME Init PROVE IndInv
  OBVIOUS
<1> USE DEF Init
<1>1. TypeOK
  <2>1. /\ <<>> \in Seq(OctetsOnWire) /\ <<>> \in Seq(Nat)
        /\ <<>> \in Seq(Requests) /\ <<>> \in Seq(ResultRows)
    OBVIOUS
  <2>2. rows \in Seq(ResultRows) /\ buf \in Seq(OctetsOnWire) /\ wire \in Seq(OctetsOnWire)
        /\ raw_records \in Seq(Nat) /\ records \in Seq(Nat) /\ requests \in Seq(Requests)
    BY <2>1
  <2>3. fetched \in BOOLEAN /\ next_row \in Nat /\ hit_count \in Nat /\ next \in Nat
    OBVIOUS
  <2> QED
    BY <2>2, <2>3 DEF TypeOK
<1>2. PhaseOK /\ RowsOK
  BY DEF PhaseOK, RowsOK, Awaiting
<1>3. ConformingOK
  BY DEF ConformingOK, Awaiting
<1> QED
  BY <1>1, <1>2, <1>3 DEF IndInv

\* An exception on the way leaves no row, and what was fetched as it was.
LEMMA ThrowStep ==
  ASSUME IndInv, fetched, pc \in Awaiting \cup {"connect", "parse"}, Throw
  PROVE  IndInv'
<1> USE DEF IndInv, Throw, CloseSocket
<1>1. TypeOK'
  <2>1. <<>> \in Seq(OctetsOnWire) /\ <<>> \in Seq(Requests)
    OBVIOUS
  <2> QED
    BY <2>1 DEF TypeOK, call, scan, client
<1>2. PhaseOK' /\ RowsOK'
  BY DEF PhaseOK, RowsOK, Awaiting, call, scan, client
<1>3. ConformingOK'
  BY DEF ConformingOK, Awaiting, call, scan, client
<1> QED
  BY <1>1, <1>2, <1>3

\* The first call.
LEMMA FirstScanStep == IndInv /\ FirstScan => IndInv'
<1> SUFFICES ASSUME IndInv, FirstScan PROVE IndInv'
  OBVIOUS
<1> USE DEF IndInv, FirstScan, call, client, network
<1>1. TypeOK'
  BY DEF TypeOK
<1>2. PhaseOK' /\ RowsOK'
  BY DEF PhaseOK, RowsOK, Awaiting
<1>3. ConformingOK'
  BY DEF ConformingOK, Awaiting
<1> QED
  BY <1>1, <1>2, <1>3

\* The connection is open, and Init is the one request under way.
LEMMA ConnectStep == IndInv /\ Connect => IndInv'
<1> SUFFICES ASSUME IndInv, Connect PROVE IndInv'
  OBVIOUS
<1> USE DEF IndInv, Connect, call, scan
<1>1. TypeOK'
  <2>1. InitRequest \in Requests
    BY DEF InitRequest, Requests
  <2>2. /\ <<InitRequest>> \in Seq(Requests)
        /\ <<>> \in Seq(OctetsOnWire) /\ <<>> \in Seq(Nat)
    BY <2>1
  <2> QED
    BY <2>2 DEF TypeOK, Awaiting
<1>2. PhaseOK' /\ RowsOK'
  BY DEF PhaseOK, RowsOK, Awaiting
<1>3. ConformingOK'
  <2>1. pc' = "init" /\ Current' = InitRequest /\ raw_records' = <<>> /\ buf' = <<>>
        /\ requests' = <<InitRequest>>
    BY DEF Current
  <2>2. server = "conforming" => wire' = <<>>
    BY DEF ConformingOK, Awaiting
  <2>3. <<>> = [i \in 1..0 |-> i] /\ Len(<<>>) = 0 /\ 1..0 = {}
    OBVIOUS
  <2> HIDE DEF IndInv, Connect
  <2>4. Len(buf') + Len(wire') <= 2 \/ server # "conforming"
    BY <2>1, <2>2, <2>3
  <2> QED
    BY <2>1, <2>2, <2>3, <2>4 DEF ConformingOK, Connect, Awaiting
<1> QED
  BY <1>1, <1>2, <1>3

\* Octets move from the wire to the buffer.
LEMMA RecvStep == IndInv /\ Recv => IndInv'
<1> SUFFICES ASSUME IndInv, Recv PROVE IndInv'
  OBVIOUS
<1> USE DEF call, scan
<1>1. PICK n \in 1..Len(wire) :
        /\ buf' = buf \o SubSeq(wire, 1, n)
        /\ wire' = SubSeq(wire, n + 1, Len(wire))
  BY DEF Recv
<1>2. /\ UNCHANGED <<call, pc, scan, hit_count, raw_records, next, records, requests, peer>>
      /\ pc \in Awaiting /\ wire # <<>>
  BY DEF Recv
<1>3. buf \in Seq(OctetsOnWire) /\ wire \in Seq(OctetsOnWire)
      /\ Len(wire) \in Nat /\ Len(buf) \in Nat /\ n \in Nat
  BY DEF IndInv, TypeOK
<1>4. /\ SubSeq(wire, 1, n) \in Seq(OctetsOnWire)
      /\ Len(SubSeq(wire, 1, n)) = n - 1 + 1
      /\ \A i \in 1..Len(SubSeq(wire, 1, n)) : \E j \in 1..Len(wire) : SubSeq(wire, 1, n)[i] = wire[j]
  <2>1. 1 \in 1..(Len(wire) + 1) /\ n <= Len(wire) /\ 1 <= n + 1
    BY <1>3
  <2> QED
    BY <2>1, <1>3, PartType
<1>5. /\ wire' \in Seq(OctetsOnWire)
      /\ Len(wire') = Len(wire) - (n + 1) + 1
      /\ \A i \in 1..Len(wire') : \E j \in 1..Len(wire) : wire'[i] = wire[j]
  <2>1. n + 1 \in 1..(Len(wire) + 1) /\ n + 1 <= Len(wire) + 1 /\ Len(wire) <= Len(wire)
    BY <1>3
  <2> QED
    BY <2>1, <1>1, <1>3, PartType
<1>6. /\ buf' \in Seq(OctetsOnWire)
      /\ Len(buf') = Len(buf) + Len(SubSeq(wire, 1, n))
      /\ \A i \in 1..(Len(buf) + Len(SubSeq(wire, 1, n))) :
           buf'[i] = IF i <= Len(buf) THEN buf[i] ELSE SubSeq(wire, 1, n)[i - Len(buf)]
  BY <1>1, <1>3, <1>4, ConcatProperties
<1>7. Len(buf') + Len(wire') = Len(buf) + Len(wire)
  BY <1>3, <1>4, <1>5, <1>6
<1>8. ASSUME NEW i \in 1..Len(buf')
      PROVE  (i \in 1..Len(buf) /\ buf'[i] = buf[i]) \/ \E j \in 1..Len(wire) : buf'[i] = wire[j]
  <2>1. CASE i <= Len(buf)
    BY <2>1, <1>3, <1>4, <1>6
  <2>2. CASE i > Len(buf)
    <3>1. i - Len(buf) \in 1..Len(SubSeq(wire, 1, n))
      BY <2>2, <1>3, <1>4, <1>6
    <3>2. buf'[i] = SubSeq(wire, 1, n)[i - Len(buf)]
      BY <2>2, <1>3, <1>4, <1>6
    <3> QED
      BY <3>1, <3>2, <1>4
  <2> QED
    BY <2>1, <2>2, <1>3, <1>4, <1>6
<1>9. TypeOK'
  BY <1>2, <1>5, <1>6 DEF IndInv, TypeOK
<1>10. PhaseOK' /\ RowsOK'
  BY <1>2 DEF IndInv, PhaseOK, RowsOK, Awaiting, Want, Parsed, Parses
<1>11. ConformingOK'
  <2>1. Current' = Current /\ \A r : ConformingAnswers(r)' = ConformingAnswers(r')
    BY <1>2 DEF Current, Want, ConformingAnswers
  <2>2. ASSUME server = "conforming"
        PROVE  /\ \A i \in 1..Len(buf') : buf'[i].apdu \in ConformingAnswers(Current)
               /\ \A i \in 1..Len(wire') : wire'[i].apdu \in ConformingAnswers(Current)
               /\ Len(buf') + Len(wire') <= 2
               /\ requests = <<>>
    <3>1. /\ \A i \in 1..Len(buf) : buf[i].apdu \in ConformingAnswers(Current)
          /\ \A i \in 1..Len(wire) : wire[i].apdu \in ConformingAnswers(Current)
          /\ Len(buf) + Len(wire) <= 2
          /\ requests = <<>>
      BY <2>2, <1>2 DEF IndInv, ConformingOK
    <3> QED
      BY <3>1, <1>5, <1>7, <1>8
  <2>3. ConformingAnswers(Current)' = ConformingAnswers(Current)
    BY <2>1
  <2> QED
    BY <1>2, <2>2, <2>3 DEF IndInv, ConformingOK
<1> QED
  BY <1>9, <1>10, <1>11 DEF IndInv

\* The server answers; a conforming one the current request.
LEMMA AnswerStep == IndInv /\ Answer => IndInv'
<1> SUFFICES ASSUME IndInv, Answer PROVE IndInv'
  OBVIOUS
<1>1. /\ UNCHANGED <<call, pc, scan, client, peer>>
      /\ requests # <<>> /\ requests' = Tail(requests)
  BY DEF Answer
<1> USE DEF call, scan, client
<1>2. PICK apdu \in IF server = "conforming" THEN ConformingAnswers(Head(requests))
                    ELSE FaultyAnswers :
        wire' = wire \o Octets(apdu)
  BY DEF Answer
<1>3. /\ requests \in Seq(Requests) /\ wire \in Seq(OctetsOnWire) /\ Len(wire) \in Nat
      /\ Head(requests) \in Requests /\ requests' \in Seq(Requests)
  BY <1>1 DEF IndInv, TypeOK
<1>4. apdu \in Apdus
  BY <1>2, <1>3, AnswersType DEF IndInv
<1>5. /\ Octets(apdu) \in Seq(OctetsOnWire)
      /\ Len(Octets(apdu)) = 2
      /\ \A i \in 1..2 : Octets(apdu)[i].apdu = apdu
  BY <1>4 DEF Octets, OctetsOnWire
<1>6. wire' \in Seq(OctetsOnWire)
  BY <1>2, <1>3, <1>5, ConcatProperties
<1>7. TypeOK'
  BY <1>1, <1>3, <1>6 DEF IndInv, TypeOK
<1>8. PhaseOK' /\ RowsOK'
  BY <1>1 DEF IndInv, PhaseOK, RowsOK, Awaiting, Want, Parsed, Parses
<1>9. ConformingOK'
  <2> SUFFICES ASSUME server = "conforming" PROVE ConformingOK'
    BY <1>1 DEF ConformingOK
  <2>1. pc \in Awaiting /\ requests = <<Current>> /\ buf = <<>> /\ wire = <<>>
    BY <1>1 DEF IndInv, ConformingOK
  <2>2. ConformingAnswers(Current)' = ConformingAnswers(Current)
    BY <1>1 DEF Current, Want, ConformingAnswers
  <2>3. requests' = <<>> /\ Head(requests) = Current
    BY <1>1, <2>1
  <2>4. wire' = Octets(apdu) /\ apdu \in ConformingAnswers(Current)
    BY <1>2, <1>5, <2>1, <2>3, ConcatEmptySeq
  <2>5. /\ Len(wire') = 2 /\ Len(buf') = 0
        /\ \A i \in 1..Len(wire') : wire'[i].apdu \in ConformingAnswers(Current)
    BY <1>1, <1>5, <2>1, <2>4
  <2> QED
    BY <1>1, <2>1, <2>2, <2>3, <2>5 DEF IndInv, ConformingOK
<1> QED
  BY <1>7, <1>8, <1>9 DEF IndInv

\* The end of what is on the wire is lost.
LEMMA HangUpStep == IndInv /\ HangUp => IndInv'
<1> SUFFICES ASSUME IndInv, HangUp PROVE IndInv'
  OBVIOUS
<1>1. /\ UNCHANGED <<call, pc, scan, client, requests>>
      /\ peer' = "closed"
      /\ wire' = wire \/ (wire # <<>> /\ wire' = SubSeq(wire, 1, Len(wire) - 1))
  BY DEF HangUp
<1> USE DEF call, scan, client
<1>2. wire \in Seq(OctetsOnWire) /\ Len(wire) \in Nat /\ buf \in Seq(OctetsOnWire) /\ Len(buf) \in Nat
  BY DEF IndInv, TypeOK
<1>3. /\ wire' \in Seq(OctetsOnWire)
      /\ Len(wire') <= Len(wire) /\ Len(wire') \in Nat
      /\ wire = <<>> => wire' = <<>>
      /\ \A i \in 1..Len(wire') : \E j \in 1..Len(wire) : wire'[i] = wire[j]
  <2>1. CASE wire' = wire
    BY <2>1, <1>2
  <2>2. CASE wire # <<>> /\ wire' = SubSeq(wire, 1, Len(wire) - 1)
    <3> DEFINE n == Len(wire) - 1
    <3>1. 1 \in 1..(Len(wire) + 1) /\ n \in Nat /\ n <= Len(wire) /\ 1 <= n + 1
          /\ wire' = SubSeq(wire, 1, n)
      BY <2>2, <1>2
    <3> HIDE DEF n
    <3>3. /\ wire \in Seq(OctetsOnWire) /\ 1 \in 1..(Len(wire) + 1)
          /\ n \in Nat /\ n <= Len(wire) /\ 1 <= n + 1
      BY <3>1, <1>2
    <3>2. /\ SubSeq(wire, 1, n) \in Seq(OctetsOnWire)
          /\ Len(SubSeq(wire, 1, n)) = n - 1 + 1
          /\ \A i \in 1..Len(SubSeq(wire, 1, n)) : \E j \in 1..Len(wire) : SubSeq(wire, 1, n)[i] = wire[j]
      BY ONLY <3>3, PartType
    <3> QED
      BY <2>2, <3>1, <3>2, <1>2
  <2> QED
    BY <1>1, <2>1, <2>2
<1>4. TypeOK'
  BY <1>1, <1>3 DEF IndInv, TypeOK
<1>5. PhaseOK' /\ RowsOK'
  BY <1>1 DEF IndInv, PhaseOK, RowsOK, Awaiting, Want, Parsed, Parses
<1>6. ConformingOK'
  <2> SUFFICES ASSUME server = "conforming" PROVE ConformingOK'
    BY <1>1 DEF ConformingOK
  <2>1. ConformingAnswers(Current)' = ConformingAnswers(Current) /\ Current' = Current
    BY <1>1 DEF Current, Want, ConformingAnswers
  <2>2. pc \in Awaiting =>
          /\ Len(buf) + Len(wire') <= 2
          /\ \A i \in 1..Len(wire') : wire'[i].apdu \in ConformingAnswers(Current)
    BY <1>2, <1>3 DEF IndInv, ConformingOK
  <2> QED
    BY <1>1, <1>3, <2>1, <2>2 DEF IndInv, ConformingOK
<1> QED
  BY <1>4, <1>5, <1>6 DEF IndInv

\* What the client takes off its buffer, and what is left.
LEMMA TakeFrame ==
  ASSUME IndInv, NEW tag \in Awaiting, Take(tag)
  PROVE  /\ pc = tag /\ Framed /\ Acceptable
         /\ UNCHANGED <<call, scan, records>> /\ fetched
         /\ rows = <<>> /\ records = <<>> /\ next_row = 0
         /\ Frame \in Apdus
         /\ buf' \in Seq(OctetsOnWire)
         /\ server = "conforming" =>
              /\ requests = <<>> /\ wire = <<>> /\ buf' = <<>>
              /\ Frame \in ConformingAnswers(Current)
<1>1. /\ pc = tag /\ Framed /\ Acceptable /\ UNCHANGED <<call, scan, records>>
      /\ buf' = SubSeq(buf, 3, Len(buf))
  BY DEF Take
<1>2. fetched /\ rows = <<>> /\ records = <<>> /\ next_row = 0
  BY <1>1 DEF IndInv, PhaseOK, Awaiting
<1>3. buf \in Seq(OctetsOnWire) /\ Len(buf) \in Nat /\ Len(buf) >= 2
      /\ wire \in Seq(OctetsOnWire) /\ Len(wire) \in Nat
  BY <1>1 DEF IndInv, TypeOK, Framed
<1>4. Frame \in Apdus /\ 1 \in 1..Len(buf)
  <2>1. 1 \in 1..Len(buf)
    BY <1>3
  <2>2. buf[1] \in OctetsOnWire
    BY <1>3, <2>1
  <2> QED
    BY <2>1, <2>2 DEF Frame, OctetsOnWire
<1>5. buf' \in Seq(OctetsOnWire) /\ Len(buf') = Len(buf) - 3 + 1
  <2> DEFINE n == Len(buf)
  <2>1. 3 \in 1..(Len(buf) + 1) /\ n <= Len(buf) /\ 3 <= n + 1 /\ n \in Nat
    BY <1>3
  <2> HIDE DEF n
  <2>2. SubSeq(buf, 3, n) \in Seq(OctetsOnWire) /\ Len(SubSeq(buf, 3, n)) = n - 3 + 1
    BY <1>3, <2>1, PartType
  <2> QED
    BY <1>1, <2>2 DEF n
<1>6. ASSUME server = "conforming"
      PROVE  /\ requests = <<>> /\ wire = <<>> /\ buf' = <<>>
             /\ Frame \in ConformingAnswers(Current)
  <2>1. /\ requests # <<>> => buf = <<>>
        /\ Len(buf) + Len(wire) <= 2
        /\ \A i \in 1..Len(buf) : buf[i].apdu \in ConformingAnswers(Current)
    BY <1>1, <1>6 DEF IndInv, ConformingOK
  <2>2. Len(wire) = 0 /\ Len(buf) = 2
    <3>1. Len(buf) + Len(wire) <= 2
      BY <2>1
    <3>2. Len(wire) \in Nat /\ Len(buf) \in Nat /\ Len(buf) >= 2
      BY <1>3
    <3>3. \A a, b \in Nat : b >= 2 /\ b + a <= 2 => a = 0 /\ b = 2
      OBVIOUS
    <3> QED
      BY <3>1, <3>2, <3>3
  <2>3. requests = <<>>
    BY <1>3, <2>1
  <2> QED
    BY <1>3, <1>4, <1>5, <2>1, <2>2, <2>3 DEF Frame
<1> QED
  BY <1>1, <1>2, <1>4, <1>5, <1>6

\* Sending puts the request on the connection, or fails.
LEMMA SendType ==
  ASSUME TypeOK, NEW request \in Requests, NEW label \in Awaiting, Send(request, label)
  PROVE  /\ requests' \in Seq(Requests)
         /\ wire' \in Seq(OctetsOnWire)
         /\ peer' \in {"none", "open", "closed"}
         /\ \/ pc' = label /\ requests' = Append(requests, request) /\ wire' = wire
            \/ pc' = "failed" /\ requests' = <<>> /\ wire' = <<>>
<1>1. <<>> \in Seq(OctetsOnWire) /\ <<>> \in Seq(Requests)
  OBVIOUS
<1>2. CASE requests' = Append(requests, request) /\ pc' = label /\ UNCHANGED <<wire, peer>>
  BY <1>2 DEF TypeOK
<1>3. CASE peer = "closed" /\ pc' = "failed" /\ CloseSocket
  BY <1>1, <1>3 DEF CloseSocket
<1> QED
  BY <1>2, <1>3 DEF Send

\* The answer to Init makes room for Search.
LEMMA TakeInitStep == IndInv /\ TakeInitResponse => IndInv'
<1> SUFFICES ASSUME IndInv, TakeInitResponse PROVE IndInv'
  OBVIOUS
<1>1. Take("init") /\ Send(SearchRequest, "search") /\ UNCHANGED <<hit_count, raw_records, next>>
  BY DEF TakeInitResponse
<1>2. /\ pc = "init" /\ UNCHANGED <<call, scan, records>> /\ fetched
      /\ rows = <<>> /\ records = <<>> /\ next_row = 0
      /\ buf' \in Seq(OctetsOnWire)
      /\ server = "conforming" =>
           requests = <<>> /\ wire = <<>> /\ buf' = <<>>
  BY <1>1, TakeFrame DEF Awaiting
<1>3. /\ requests' \in Seq(Requests)
      /\ wire' \in Seq(OctetsOnWire)
      /\ peer' \in {"none", "open", "closed"}
      /\ \/ pc' = "search" /\ requests' = Append(requests, SearchRequest) /\ wire' = wire
         \/ pc' = "failed" /\ requests' = <<>> /\ wire' = <<>>
  <2>1. SearchRequest \in Requests /\ "search" \in Awaiting
    BY DEF SearchRequest, Requests, Awaiting
  <2> QED
    BY <1>1, <2>1, SendType DEF IndInv
<1>4. TypeOK'
  BY <1>1, <1>2, <1>3 DEF IndInv, TypeOK, Awaiting, call, scan
<1>5. PhaseOK' /\ RowsOK'
  BY <1>2, <1>3 DEF PhaseOK, RowsOK, Awaiting, call, scan
<1>6. ConformingOK'
  <2> SUFFICES ASSUME server = "conforming" PROVE ConformingOK'
    BY <1>2 DEF ConformingOK, call
  <2>1. raw_records = [i \in 1..Len(raw_records) |-> i]
    BY DEF IndInv, ConformingOK
  <2>2. CASE pc' = "search"
    <3>1. requests' = <<SearchRequest>> /\ wire' = <<>> /\ buf' = <<>> /\ Current' = SearchRequest
      BY <1>2, <1>3, <2>2 DEF Current
    <3>2. Len(buf') + Len(wire') <= 2 /\ 1..Len(buf') = {} /\ 1..Len(wire') = {}
      BY <3>1
    <3> QED
      BY <1>1, <2>1, <2>2, <3>1, <3>2 DEF ConformingOK, Awaiting
  <2>3. CASE pc' = "failed"
    BY <1>1, <1>3, <2>1, <2>3 DEF ConformingOK, Awaiting
  <2> QED
    BY <1>3, <2>2, <2>3
<1> QED
  BY <1>4, <1>5, <1>6 DEF IndInv

\* The head of the Present loop, with the records that have come so far.
LEMMA LoopHead ==
  ASSUME IndInv, UNCHANGED <<call, scan, records>>, fetched, pc \in Awaiting,
         rows = <<>>, records = <<>>, next_row = 0,
         buf' \in Seq(OctetsOnWire), raw_records' \in Seq(Nat),
         next' \in Nat, hit_count' \in Nat,
         Len(raw_records') <= Want(hit_count'),
         PresentOrParse(raw_records', next', hit_count'),
         server = "conforming" =>
           /\ requests = <<>> /\ wire = <<>> /\ buf' = <<>>
           /\ raw_records' = [i \in 1..Len(raw_records') |-> i]
           /\ hit_count' = hits /\ next' = Len(raw_records') + 1
  PROVE  IndInv'
<1> DEFINE n == Want(hit_count')
           k == Len(raw_records')
           r == PresentRequest(next', PresentCount(n - k))
<1>1. n \in Nat /\ k \in Nat /\ k <= n /\ Want(hit_count)' = n
  BY WantType DEF IndInv, call, Want
<1>2. CASE k < n
  <2>1. n - k \in Nat \ {0}
    BY <1>1, <1>2
  <2>2. r \in Requests /\ "present" \in Awaiting
    BY <2>1, PresentCountType DEF PresentRequest, Requests, Awaiting
  <2>3. Send(r, "present")
    BY <1>2 DEF PresentOrParse
  <2> HIDE DEF r
  <2>4. /\ requests' \in Seq(Requests)
        /\ wire' \in Seq(OctetsOnWire)
        /\ peer' \in {"none", "open", "closed"}
        /\ \/ pc' = "present" /\ requests' = Append(requests, r) /\ wire' = wire
           \/ pc' = "failed" /\ requests' = <<>> /\ wire' = <<>>
    BY <2>2, <2>3, SendType DEF IndInv
  <2>5. TypeOK'
    BY <2>4 DEF IndInv, TypeOK, Awaiting, call, scan
  <2>6. PhaseOK' /\ RowsOK'
    BY <2>4, <1>1, <1>2 DEF PhaseOK, RowsOK, Awaiting, call, scan
  <2>7. ConformingOK'
    <3> SUFFICES ASSUME server = "conforming" PROVE ConformingOK'
      BY DEF ConformingOK, call
    <3>1. CASE pc' = "present"
      <4>1. requests' = <<r>> /\ wire' = <<>> /\ buf' = <<>>
        BY <2>4, <3>1
      <4>2. Current' = r
        BY <3>1, <1>1 DEF Current, r
      <4>3. Len(buf') + Len(wire') <= 2 /\ 1..Len(buf') = {} /\ 1..Len(wire') = {}
        BY <4>1
      <4> QED
        BY <3>1, <4>1, <4>2, <4>3 DEF ConformingOK, Awaiting, call
    <3>2. CASE pc' = "failed"
      BY <2>4, <3>2 DEF ConformingOK, Awaiting, call
    <3> QED
      BY <2>4, <3>1, <3>2
  <2> QED
    BY <2>5, <2>6, <2>7 DEF IndInv
<1>3. CASE ~(k < n)
  <2>1. pc' = "parse" /\ UNCHANGED network /\ k = n
    BY <1>1, <1>3 DEF PresentOrParse
  <2>2. TypeOK'
    BY <2>1 DEF IndInv, TypeOK, Awaiting, call, scan, network
  <2>3. PhaseOK' /\ RowsOK'
    BY <2>1, <1>1 DEF PhaseOK, RowsOK, Awaiting, call, scan
  <2>4. ConformingOK'
    BY <2>1 DEF ConformingOK, Awaiting, call, network
  <2> QED
    BY <2>2, <2>3, <2>4 DEF IndInv
<1> QED
  BY <1>2, <1>3

\* The answer to Search tells how many records to fetch.
LEMMA TakeSearchStep == IndInv /\ TakeSearchResponse => IndInv'
<1> SUFFICES ASSUME IndInv, TakeSearchResponse PROVE IndInv'
  OBVIOUS
<1>1. /\ Take("search")
      /\ hit_count' = Frame.count
      /\ raw_records' = Prefix(Frame.recs, Want(Frame.count))
      /\ next' = IF Frame.position >= 1 THEN Frame.position ELSE 1
      /\ PresentOrParse(raw_records', next', Frame.count)
  BY DEF TakeSearchResponse
<1>2. /\ pc = "search" /\ Acceptable
      /\ UNCHANGED <<call, scan, records>> /\ fetched
      /\ rows = <<>> /\ records = <<>> /\ next_row = 0
      /\ Frame \in Apdus
      /\ buf' \in Seq(OctetsOnWire)
      /\ server = "conforming" =>
           /\ requests = <<>> /\ wire = <<>> /\ buf' = <<>>
           /\ Frame \in ConformingAnswers(Current)
  BY <1>1, TakeFrame DEF Awaiting
<1>3. Frame.count \in Nat /\ Frame.position \in Nat /\ Frame.recs \in Seq(Nat)
  BY <1>2 DEF Acceptable, Apdus
<1>4. Want(Frame.count) \in Nat
  BY <1>3, WantType DEF IndInv
<1>5. raw_records' \in Seq(Nat) /\ Len(raw_records') <= Want(Frame.count)
  BY <1>1, <1>3, <1>4, PrefixType DEF Min2
<1>6. next' \in Nat
  BY <1>1, <1>3
<1>7. ASSUME server = "conforming"
      PROVE  /\ raw_records' = [i \in 1..Len(raw_records') |-> i]
             /\ hit_count' = hits /\ next' = Len(raw_records') + 1
  <2>1. Frame \in ConformingAnswers(SearchRequest)
    BY <1>2, <1>7 DEF Current
  <2>2. PICK position \in {0, 1} : Frame = Apdu("search", TRUE, hits, position, 0, <<>>)
    BY <2>1 DEF ConformingAnswers, SearchRequest
  <2>3. Frame.recs = <<>> /\ Frame.count = hits /\ Frame.position \in {0, 1}
    BY <2>2 DEF Apdu
  <2>4. Len(Frame.recs) = 0
    BY <2>3
  <2>5. Len(raw_records') = 0 /\ raw_records' \in Seq(Nat)
    BY <1>1, <1>3, <1>4, <2>4, PrefixType DEF Min2
  <2>6. raw_records' = <<>> /\ 1..0 = {}
    BY <2>5
  <2>7. raw_records' = [i \in 1..Len(raw_records') |-> i]
    BY <2>5, <2>6
  <2> QED
    BY <1>1, <2>3, <2>5, <2>7
<1>8. pc \in Awaiting /\ PresentOrParse(raw_records', next', hit_count')
  BY <1>1, <1>2 DEF Awaiting
<1>9. hit_count' \in Nat /\ Len(raw_records') <= Want(hit_count')
  BY <1>1, <1>3, <1>5
<1> QED
  BY <1>2, <1>5, <1>6, <1>7, <1>8, <1>9, LoopHead

\* What a conforming server answers to a Present: the records behind those
\* that have come, and the position behind its own.
LEMMA ConformingPresent ==
  ASSUME IndInv, server = "conforming", pc = "present", Frame \in ConformingAnswers(Current)
  PROVE  \E k \in Nat \ {0} :
           /\ Frame.tag = "present" /\ Frame.ok
           /\ Frame.recs \in Seq(Nat) /\ Len(Frame.recs) = k
           /\ \A i \in 1..k : Frame.recs[i] = Len(raw_records) + i
           /\ Len(raw_records) + k <= Want(hit_count)
           /\ Advanced = Len(raw_records) + k + 1
           /\ next = Len(raw_records) + 1 /\ hit_count = hits
<1> DEFINE len == Len(raw_records)
           count == Current.count
<1>1. hit_count = hits /\ next = len + 1
  BY DEF IndInv, ConformingOK
<1>2. Want(hit_count) \in Nat /\ Want(hit_count) <= hits /\ hits \in Nat /\ len \in Nat
  <2>1. hits \in Nat /\ len \in Nat
    BY SessionAssumption DEF IndInv, TypeOK
  <2>2. Want(hits) \in Nat /\ Want(hits) <= hits
    BY <2>1, WantType DEF IndInv
  <2> QED
    BY <1>1, <2>1, <2>2
<1>3. /\ Current.tag = "present" /\ Current.start = next
      /\ count \in 1..(Want(hit_count) - len)
  BY CurrentType DEF Awaiting
<1> HIDE DEF len, count
<1>4. next \in 1..hits /\ next + count - 1 <= hits /\ count \in Nat
  BY <1>1, <1>2, <1>3
<1>5. PICK k \in 1..count :
        \E position \in IF next + k - 1 = hits THEN {0, hits + 1} ELSE {next + k} :
          Frame = Apdu("present", TRUE, 0, position, k, [i \in 1..k |-> next + i - 1])
  <2>1. Current.start \in 1..hits /\ Current.start + Current.count - 1 <= hits
    BY <1>3, <1>4 DEF count
  <2>2. ConformingAnswers(Current) = UNION
           {{Apdu("present", TRUE, 0, position, k, [i \in 1..k |-> Current.start + i - 1]) :
               position \in IF Current.start + k - 1 = hits THEN {0, hits + 1}
                            ELSE {Current.start + k}} : k \in 1..Current.count}
    BY <1>3, <2>1 DEF ConformingAnswers
  <2>3. PICK k \in 1..Current.count :
          Frame \in {Apdu("present", TRUE, 0, position, k, [i \in 1..k |-> Current.start + i - 1]) :
                       position \in IF Current.start + k - 1 = hits THEN {0, hits + 1}
                                    ELSE {Current.start + k}}
    BY <2>2
  <2> QED
    BY <2>3, <1>3 DEF count
<1>6. PICK position \in IF next + k - 1 = hits THEN {0, hits + 1} ELSE {next + k} :
        Frame = Apdu("present", TRUE, 0, position, k, [i \in 1..k |-> next + i - 1])
  BY <1>5
<1>7. /\ Frame.tag = "present" /\ Frame.ok /\ Frame.position = position
      /\ Frame.returned = k /\ Frame.recs = [i \in 1..k |-> next + i - 1]
  BY <1>6 DEF Apdu
<1>8. k \in Nat \ {0} /\ len + k <= Want(hit_count)
  BY <1>2, <1>3, <1>4
<1>9. /\ Frame.recs \in Seq(Nat) /\ Len(Frame.recs) = k
      /\ \A i \in 1..k : Frame.recs[i] = len + i
  BY <1>1, <1>2, <1>7, <1>8
<1>10. Advanced = len + k + 1
  <2>1. CASE position = 0
    BY <2>1, <1>1, <1>2, <1>7, <1>8 DEF Advanced
  <2>2. CASE position # 0
    <3>1. position = next + k
      BY <2>2, <1>1, <1>2, <1>8
    <3> QED
      BY <3>1, <1>1, <1>2, <1>7, <1>8 DEF Advanced
  <2> QED
    BY <2>1, <2>2
<1> QED
  BY <1>1, <1>7, <1>8, <1>9, <1>10 DEF len

\* The answer to a Present continues the records fetched.
LEMMA TakePresentStep == IndInv /\ TakePresentResponse => IndInv'
<1> SUFFICES ASSUME IndInv, TakePresentResponse PROVE IndInv'
  OBVIOUS
<1>1. /\ Take("present")
      /\ raw_records' = Prefix(raw_records \o Frame.recs, Want(hit_count))
      /\ next' = Advanced
      /\ PresentOrParse(raw_records', next', hit_count)
      /\ hit_count' = hit_count
  BY DEF TakePresentResponse
<1>2. /\ pc = "present" /\ UNCHANGED <<call, scan, records>> /\ fetched
      /\ rows = <<>> /\ records = <<>> /\ next_row = 0
      /\ Frame \in Apdus
      /\ buf' \in Seq(OctetsOnWire)
      /\ server = "conforming" =>
           /\ requests = <<>> /\ wire = <<>> /\ buf' = <<>>
           /\ Frame \in ConformingAnswers(Current)
  BY <1>1, TakeFrame DEF Awaiting
<1>3. /\ Frame.position \in Nat /\ Frame.returned \in Nat /\ Frame.recs \in Seq(Nat)
      /\ hit_count \in Nat /\ next \in Nat
      /\ raw_records \in Seq(Nat) /\ Len(raw_records) \in Nat
  BY <1>2 DEF Apdus, IndInv, TypeOK
<1> DEFINE all == raw_records \o Frame.recs
<1>4. /\ all \in Seq(Nat) /\ Len(all) = Len(raw_records) + Len(Frame.recs)
      /\ \A i \in 1..Len(raw_records) + Len(Frame.recs) :
           all[i] = IF i <= Len(raw_records) THEN raw_records[i]
                    ELSE Frame.recs[i - Len(raw_records)]
  BY <1>3, ConcatProperties
<1> HIDE DEF all
<1>5. Want(hit_count) \in Nat
  BY <1>3, WantType DEF IndInv
<1>6. /\ raw_records' \in Seq(Nat)
      /\ Len(raw_records') = Min2(Want(hit_count), Len(all))
      /\ \A i \in 1..Len(raw_records') : raw_records'[i] = all[i]
  BY <1>1, <1>4, <1>5, PrefixType DEF all
<1>7. Len(raw_records') <= Want(hit_count)
  BY <1>4, <1>5, <1>6 DEF Min2
<1>8. next' \in Nat
  BY <1>1, <1>3 DEF Advanced
<1>9. ASSUME server = "conforming"
      PROVE  /\ raw_records' = [i \in 1..Len(raw_records') |-> i]
             /\ hit_count = hits /\ next' = Len(raw_records') + 1
  <2> DEFINE len == Len(raw_records)
  <2>1. PICK k \in Nat \ {0} :
           /\ Len(Frame.recs) = k
           /\ \A i \in 1..k : Frame.recs[i] = len + i
           /\ len + k <= Want(hit_count)
           /\ Advanced = len + k + 1 /\ hit_count = hits
    BY <1>2, <1>9, ConformingPresent
  <2>2. raw_records = [i \in 1..len |-> i]
    BY <1>9 DEF IndInv, ConformingOK
  <2>3. len \in Nat
    BY <1>3
  <2>4. \A i \in 1..len : raw_records[i] = i
    BY <2>2
  <2> HIDE DEF len
  <2>5. ASSUME NEW i \in 1..(len + k) PROVE all[i] = i
    <3>1. all[i] = IF i <= len THEN raw_records[i] ELSE Frame.recs[i - len]
      BY <1>4, <2>1 DEF len
    <3>2. CASE i <= len
      BY <3>1, <3>2, <2>1, <2>3, <2>4
    <3>3. CASE i > len
      <4>1. i - len \in 1..k /\ len + (i - len) = i
        BY <3>3, <2>1, <2>3
      <4>2. Frame.recs[i - len] = len + (i - len)
        BY <4>1, <2>1
      <4> QED
        BY <3>1, <3>3, <4>1, <4>2, <2>3
    <3> QED
      BY <3>2, <3>3, <2>1, <2>3
  <2>6. Len(raw_records') = len + k
    BY <1>4, <1>5, <1>6, <2>1, <2>3 DEF len, Min2
  <2>7. \A i \in 1..Len(raw_records') : raw_records'[i] = i
    BY <1>6, <2>5, <2>6
  <2> QED
    BY <1>1, <1>6, <2>1, <2>6, <2>7
<1>10. pc \in Awaiting /\ PresentOrParse(raw_records', next', hit_count')
  BY <1>1, <1>2 DEF Awaiting
<1>11. hit_count' \in Nat /\ Len(raw_records') <= Want(hit_count')
  BY <1>1, <1>3, <1>7
<1> QED
  BY <1>1, <1>2, <1>6, <1>8, <1>9, <1>10, <1>11, LoopHead

\* The fetch is over, with as many records as it was to get.
LEMMA ParseRecordsStep == IndInv /\ ParseRecords => IndInv'
<1> SUFFICES ASSUME IndInv, ParseRecords PROVE IndInv'
  OBVIOUS
<1>1. /\ pc = "parse" /\ pc' = "emit"
      /\ records' = records \o Parsed(raw_records)
      /\ requests' = <<>> /\ wire' = <<>> /\ peer' = "none"
      /\ UNCHANGED <<call, scan, buf, hit_count, raw_records, next>>
  BY DEF ParseRecords, CloseSocket
<1>2. /\ fetched /\ rows = <<>> /\ records = <<>> /\ next_row = 0
      /\ Len(raw_records) = Want(hit_count)
  BY <1>1 DEF IndInv, PhaseOK
<1>3. raw_records \in Seq(Nat)
  BY DEF IndInv, TypeOK
<1>4. Parsed(raw_records) \in Seq(Nat) /\ Len(Parsed(raw_records)) \in Nat
  BY <1>3, ParsedType
<1>5. records' = Parsed(raw_records)
  BY <1>1, <1>2, <1>4, ConcatEmptySeq
<1>6. TypeOK'
  <2>1. requests' \in Seq(Requests) /\ wire' \in Seq(OctetsOnWire)
    BY <1>1
  <2> QED
    BY <1>1, <1>4, <1>5, <2>1 DEF IndInv, TypeOK, call, scan
<1>7. PhaseOK'
  BY <1>1, <1>2 DEF PhaseOK, Awaiting, Want, call, scan
<1>8. RowsOK'
  <2>1. Parsed(raw_records)' = Parsed(raw_records)
    BY <1>1 DEF Parsed, Parses, call
  <2>2. Len(rows') = 0 /\ next_row' = 0 /\ Len(records') \in Nat /\ 1..0 = {}
    BY <1>1, <1>2, <1>4, <1>5 DEF scan
  <2> QED
    BY <1>1, <1>5, <2>1, <2>2 DEF RowsOK
<1>9. ConformingOK'
  BY <1>1 DEF IndInv, ConformingOK, Awaiting, call
<1> QED
  BY <1>6, <1>7, <1>8, <1>9 DEF IndInv

\* A chunk of rows is returned.
LEMMA EmitRowsStep == IndInv /\ EmitRows => IndInv'
<1> SUFFICES ASSUME IndInv, EmitRows PROVE IndInv'
  OBVIOUS
<1> DEFINE n == Min2(VECTOR_SIZE, Len(records) - next_row)
           chunk == [i \in 1..n |->
             [record_no |-> next_row + i, hits |-> hit_count, raw |-> records[next_row + i]]]
<1>1. /\ pc = "emit" \/ (pc = "idle" /\ fetched)
      /\ rows' = rows \o chunk
      /\ next_row' = next_row + n
      /\ pc' = IF n = 0 THEN "done" ELSE "idle"
      /\ UNCHANGED <<call, fetched, client, network>>
  BY DEF EmitRows
<1>2. /\ fetched /\ Len(raw_records) = Want(hit_count)
      /\ records = Parsed(raw_records)
      /\ Len(rows) = next_row
      /\ next_row <= Len(records)
      /\ \A i \in 1..Len(rows) : rows[i].record_no = i /\ rows[i].raw = records[i]
  BY <1>1 DEF IndInv, PhaseOK, RowsOK
<1>3. /\ rows \in Seq(ResultRows) /\ records \in Seq(Nat) /\ Len(records) \in Nat
      /\ next_row \in Nat /\ hit_count \in Nat
  BY DEF IndInv, TypeOK
<1>4. /\ n \in Nat /\ next_row + n <= Len(records)
      /\ n = 0 => next_row = Len(records)
  BY <1>2, <1>3, SessionAssumption DEF Min2
<1> HIDE DEF n
<1>5. ASSUME NEW i \in 1..n
      PROVE  next_row + i \in 1..Len(records) /\ chunk[i] \in ResultRows
             /\ chunk[i].record_no = next_row + i /\ chunk[i].raw = records[next_row + i]
  <2>1. next_row + i \in 1..Len(records) /\ next_row + i \in Nat
    BY <1>3, <1>4
  <2>2. records[next_row + i] \in Nat
    BY <2>1, <1>3
  <2> QED
    BY <2>1, <2>2, <1>3 DEF ResultRows
<1>6. chunk \in Seq(ResultRows) /\ Len(chunk) = n
  BY <1>4, <1>5
<1> HIDE DEF chunk
<1>7. /\ rows' \in Seq(ResultRows) /\ Len(rows') = Len(rows) + n
      /\ \A i \in 1..(Len(rows) + n) :
           rows'[i] = IF i <= Len(rows) THEN rows[i] ELSE chunk[i - Len(rows)]
  BY <1>1, <1>3, <1>6, ConcatProperties
<1>8. TypeOK'
  <2>1. next_row' \in Nat
    BY <1>1, <1>3, <1>4
  <2> QED
    BY <1>1, <1>7, <2>1 DEF IndInv, TypeOK, call, client, network, Awaiting
<1>9. PhaseOK'
  BY <1>1, <1>2 DEF PhaseOK, Awaiting, Want, call, client
<1>10. RowsOK'
  <2>1. Parsed(raw_records)' = Parsed(raw_records)
    BY <1>1 DEF Parsed, Parses, call, client
  <2>2. ASSUME NEW i \in 1..Len(rows')
        PROVE  rows'[i].record_no = i /\ rows'[i].raw = records[i]
    <3>1. CASE i <= Len(rows)
      BY <3>1, <1>2, <1>3, <1>4, <1>7
    <3>2. CASE i > Len(rows)
      <4>1. i - Len(rows) \in 1..n /\ next_row + (i - Len(rows)) = i
        BY <3>2, <1>2, <1>3, <1>4, <1>7
      <4>2. rows'[i] = chunk[i - Len(rows)]
        BY <3>2, <1>3, <1>4, <1>7
      <4> QED
        BY <4>1, <4>2, <1>5
    <3> QED
      BY <3>1, <3>2, <1>2, <1>3, <1>4, <1>7
  <2>3. Len(rows') = next_row' /\ next_row' <= Len(records)
    BY <1>1, <1>2, <1>4, <1>7
  <2>4. pc' = "done" => next_row' = Len(records)
    BY <1>1, <1>3, <1>4
  <2> QED
    BY <1>1, <1>2, <2>1, <2>2, <2>3, <2>4 DEF RowsOK, client
<1>11. ConformingOK'
  BY <1>1 DEF IndInv, ConformingOK, Awaiting, call, client, network
<1> QED
  BY <1>8, <1>9, <1>10, <1>11 DEF IndInv

-----------------------------------------------------------------------------
(* The theorems.                                                           *)

\* IndInv holds in every reachable state of every session.
THEOREM Inductive == Spec => []IndInv
<1>1. IndInv /\ [Next]_vars => IndInv'
  <2> SUFFICES ASSUME IndInv, [Next]_vars PROVE IndInv'
    OBVIOUS
  <2>1. CASE FirstScan \/ Connect \/ Recv \/ Answer \/ HangUp
    BY <2>1, FirstScanStep, ConnectStep, RecvStep, AnswerStep, HangUpStep
  <2>2. CASE TakeInitResponse \/ TakeSearchResponse \/ TakePresentResponse
    BY <2>2, TakeInitStep, TakeSearchStep, TakePresentStep
  <2>3. CASE ParseRecords \/ EmitRows
    BY <2>3, ParseRecordsStep, EmitRowsStep
  <2>4. CASE ConnectFails \/ RecvClosed \/ RecvTimesOut \/ Refuse \/ ParseFails
    <3>1. pc \in Awaiting \cup {"connect", "parse"} /\ Throw
      BY <2>4 DEF ConnectFails, RecvClosed, RecvTimesOut, Starved, Refuse, ParseFails
    <3>2. fetched
      BY <3>1 DEF IndInv, PhaseOK, Awaiting
    <3> QED
      BY <3>1, <3>2, ThrowStep
  <2>5. CASE UNCHANGED vars
    <3> USE <2>5 DEF vars, call, scan, client, network
    <3>1. TypeOK'
      BY DEF IndInv, TypeOK
    <3>2. PhaseOK' /\ RowsOK'
      BY DEF IndInv, PhaseOK, RowsOK, Want, Parsed, Parses
    <3>3. ConformingOK'
      <4>1. Current' = Current /\ ConformingAnswers(Current)' = ConformingAnswers(Current)
        BY DEF Current, Want, ConformingAnswers
      <4> QED
        BY <4>1 DEF IndInv, ConformingOK
    <3> QED
      BY <3>1, <3>2, <3>3 DEF IndInv
  <2> QED
    BY <2>1, <2>2, <2>3, <2>4, <2>5 DEF Next, Client, Terminated
<1> QED
  BY <1>1, InitIndInv, PTL DEF Spec

\* From a conforming server the client gets the first records of the result
\* set in order, however answers are cut into records and APDUs into receives.
THEOREM InOrder == Spec => []FetchesInOrder
<1>1. IndInv => FetchesInOrder
  BY DEF IndInv, ConformingOK, FetchesInOrder
<1> QED
  BY <1>1, Inductive, PTL

\* Whatever the server or the network does, rows are returned only when as
\* many records have come as were asked for.
THEOREM AllOrError == Spec => []CompleteOrError
<1>1. IndInv => CompleteOrError
  BY DEF IndInv, TypeOK, PhaseOK, CompleteOrError, Awaiting
<1> QED
  BY <1>1, Inductive, PTL

\* The client asks a conforming server only for what it has, and takes every
\* answer it gives.
THEOREM NeverRefused == Spec => []ConformingNeverRefused
<1>1. IndInv => ConformingNeverRefused
  <2> SUFFICES ASSUME IndInv, server = "conforming", pc \in Awaiting, Framed
               PROVE  Acceptable
    BY DEF ConformingNeverRefused
  <2>1. Frame \in ConformingAnswers(Current)
    <3>1. 1 \in 1..Len(buf)
      BY DEF Framed, IndInv, TypeOK
    <3> QED
      BY <3>1 DEF IndInv, ConformingOK, Frame
  <2>2. CASE pc = "init"
    <3>1. Frame = Apdu("init", TRUE, 0, 0, 0, <<>>)
      BY <2>1, <2>2 DEF Current, InitRequest, ConformingAnswers
    <3> QED
      BY <3>1, <2>2 DEF Acceptable, Apdu
  <2>3. CASE pc = "search"
    <3>1. Frame \in {Apdu("search", TRUE, hits, position, 0, <<>>) : position \in {0, 1}}
      BY <2>1, <2>3 DEF Current, SearchRequest, ConformingAnswers
    <3>2. hits \in Nat
      BY SessionAssumption DEF IndInv, TypeOK
    <3> QED
      BY <3>1, <3>2, <2>3 DEF Acceptable, Apdu
  <2>4. CASE pc = "present"
    <3>1. PICK k \in Nat \ {0} :
            /\ Frame.tag = "present" /\ Frame.ok
            /\ Frame.recs \in Seq(Nat) /\ Len(Frame.recs) = k
            /\ Advanced = Len(raw_records) + k + 1
            /\ next = Len(raw_records) + 1
      BY <2>1, <2>4, ConformingPresent
    <3>2. Len(raw_records) \in Nat
      BY DEF IndInv, TypeOK
    <3>3. Frame.recs # <<>> /\ Advanced > next
      BY <3>1, <3>2
    <3> QED
      BY <3>1, <3>3, <2>4 DEF Acceptable
  <2> QED
    BY <2>2, <2>3, <2>4 DEF Awaiting
<1> QED
  BY <1>1, Inductive, PTL

\* The rows are the records that parsed, in order, numbered from 1 over all
\* calls of the scan function, and all of them when the scan is done.
THEOREM RowPerRecord == Spec => []RowsMatchRecords
<1>1. IndInv => RowsMatchRecords
  <2> SUFFICES ASSUME IndInv PROVE RowsMatchRecords
    OBVIOUS
  <2>1. DOMAIN rows = 1..Len(rows) /\ Len(rows) \in Nat
    BY DEF IndInv, TypeOK
  <2>2. CASE rows = <<>> /\ pc # "done"
    BY <2>2, <2>1 DEF RowsMatchRecords
  <2>3. CASE rows # <<>> \/ pc = "done"
    <3>1. fetched /\ pc \in {"emit", "idle", "done"}
      BY <2>3 DEF IndInv, PhaseOK, TypeOK, Awaiting
    <3>2. /\ records = Parsed(raw_records)
          /\ Len(rows) <= Len(records)
          /\ \A i \in 1..Len(rows) : rows[i].record_no = i /\ rows[i].raw = records[i]
          /\ pc = "done" => Len(rows) = Len(records)
      BY <3>1 DEF IndInv, RowsOK
    <3>3. DOMAIN records = 1..Len(records) /\ Len(records) \in Nat
      BY DEF IndInv, TypeOK
    <3>4. ASSUME NEW i \in DOMAIN rows
          PROVE  rows[i].record_no = i /\ i \in DOMAIN records /\ rows[i].raw = records[i]
      <4>1. i \in 1..Len(rows)
        BY <2>1
      <4>2. i \in 1..Len(records)
        <5>1. Len(rows) <= Len(records)
          BY <3>2
        <5> QED
          BY <4>1, <5>1, <3>3, <2>1
      <4> QED
        BY <4>1, <4>2, <3>2, <3>3
    <3> QED
      BY <3>2, <3>4 DEF RowsMatchRecords
  <2> QED
    BY <2>2, <2>3
<1> QED
  BY <1>1, Inductive, PTL

=============================================================================
