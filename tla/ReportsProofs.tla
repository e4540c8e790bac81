---------------------------- MODULE ReportsProofs ----------------------------
(***************************************************************************)
(* Reports: for any report size, packets and bytes, a batch that is packed *)
(* and split again is the batch that was sent, and split_report accounts   *)
(* for all bytes it does not refuse.                                       *)
(***************************************************************************)
EXTENDS Reports, SelectionProofs, TLAPS

\* A packet as protocol.py makes them: its type, its length, its data.
Whole(packet) ==
  packet \in Bytes /\ Len(packet) >= 2 /\ packet[1] # 0 /\ Len(packet) = packet[2] + 2

LEMMA ByteAt ==
  ASSUME NEW report \in Bytes
  PROVE  Len(report) \in Nat /\ \A i \in 1..Len(report) : report[i] \in Byte
BY DEF Bytes

LEMMA CreatedWhole ==
  ASSUME NEW type \in PacketType, NEW data \in Data, CreatePacket(type, data).ok
  PROVE  Whole(CreatePacket(type, data).value)
<1>1. type \in 1..255 /\ data \in Seq(Byte)
  BY BytesAssumption DEF Bytes
<1>2. PICK n \in Nat : n = Len(data)
  BY <1>1
<1>3. n <= 255
  BY <1>2 DEF CreatePacket, ProtocolError
<1>4. CreatePacket(type, data).value = <<type, n>> \o data
  BY <1>2, <1>3 DEF CreatePacket, Ok
<1>5. type \in Byte /\ n \in Byte
  <2>1. type \in 1..255
    BY <1>1
  <2> QED  BY <1>3, <2>1 DEF Byte
<1> DEFINE head == <<type, n>>
<1>6. head \in Seq(Byte) /\ Len(head) = 2 /\ head[1] = type /\ head[2] = n
  BY <1>5
<1> HIDE DEF head
<1>7. /\ head \o data \in Seq(Byte)
      /\ Len(head \o data) = 2 + n
      /\ (head \o data)[1] = head[1] /\ (head \o data)[2] = head[2]
  <2>1. /\ head \o data \in Seq(Byte)
        /\ Len(head \o data) = 2 + n
        /\ \A i \in 1..2 + n : (head \o data)[i] = IF i <= 2 THEN head[i] ELSE data[i - 2]
    <3>1. /\ head \o data \in Seq(Byte)
          /\ Len(head \o data) = Len(head) + Len(data)
          /\ \A i \in 1..Len(head) + Len(data) :
               (head \o data)[i] = IF i <= Len(head) THEN head[i] ELSE data[i - Len(head)]
      BY <1>1, <1>6, ConcatProperties
    <3> QED  BY <1>2, <1>6, <3>1
  <2>2. 1 \in 1..2 + n /\ 2 \in 1..2 + n
    BY <1>2
  <2> QED  BY <2>1, <2>2
<1>8. CreatePacket(type, data).value = head \o data
  BY <1>4 DEF head
<1>9. type # 0 /\ 2 + n >= 2 /\ 2 + n = n + 2
  BY <1>1, <1>2
<1> QED  BY <1>6, <1>7, <1>8, <1>9 DEF Whole, Bytes

LEMMA PacketWhole == \A packet \in Packet : Whole(packet)
<1> SUFFICES ASSUME NEW packet \in Packet PROVE Whole(packet)
  OBVIOUS
<1>1. PICK type \in PacketType, data \in Data :
        CreatePacket(type, data).ok /\ packet = CreatePacket(type, data).value
  BY DEF Packet
<1> QED  BY <1>1, CreatedWhole

-----------------------------------------------------------------------------
(* Splitting *)

Scan == [packets : Seq(Bytes), start : Nat \ {0}, ok : BOOLEAN]

LEMMA FirstScan == [packets |-> << >>, start |-> 1, ok |-> TRUE] \in Scan
BY DEF Scan

LEMMA SplitType ==
  ASSUME NEW report \in Bytes, NEW scan \in Scan
  PROVE  Split(report, scan) \in Scan
<1>1. CASE Over(report, scan)
  BY <1>1 DEF Split
<1>2. CASE ~Over(report, scan) /\ HeaderMissing(report, scan.start)
  BY <1>2 DEF Split, Scan
<1>3. CASE ~Over(report, scan) /\ ~HeaderMissing(report, scan.start)
  <2> DEFINE end == PacketEnd(report, scan.start)
  <2>1. Len(report) \in Nat /\ scan.start \in 1..Len(report) /\ scan.start + 1 \in 1..Len(report)
    BY <1>3 DEF HeaderMissing, Scan, Bytes
  <2>2. end \in Nat
    <3>1. PICK byte \in Byte : byte = report[scan.start + 1]
      BY <2>1, ByteAt
    <3>2. end = scan.start + byte + 1
      BY <3>1 DEF PacketEnd
    <3>3. byte \in Nat /\ scan.start \in Nat
      BY <2>1 DEF Byte
    <3> HIDE DEF end
    <3> QED  BY <3>2, <3>3
  <2>3. CASE end > Len(report)
    BY <1>3, <2>3 DEF Split, Scan
  <2>4. CASE ~(end > Len(report))
    <3> HIDE DEF end
    <3>1. \A i \in scan.start..end : report[i] \in Byte
      BY <2>1, <2>2, <2>4, ByteAt
    <3>2. SubSeq(report, scan.start, end) \in Bytes
      BY <2>1, <2>2, <3>1, SubSeqProperties DEF Bytes
    <3>3. Append(scan.packets, SubSeq(report, scan.start, end)) \in Seq(Bytes)
      BY <3>2 DEF Scan
    <3>4. Split(report, scan) =
            [scan EXCEPT !.packets = Append(@, SubSeq(report, scan.start, end)),
                         !.start = end + 1]
      BY <1>3, <2>4, Zenon DEF Split, end
    <3>5. Split(report, scan) =
            [packets |-> Append(scan.packets, SubSeq(report, scan.start, end)),
             start |-> end + 1, ok |-> scan.ok]
      BY <3>4 DEF Scan
    <3>6. end + 1 \in Nat \ {0} /\ scan.ok \in BOOLEAN
      BY <2>2 DEF Scan
    <3> QED  BY <3>3, <3>5, <3>6 DEF Scan
  <2> QED  BY <2>3, <2>4
<1> QED  BY <1>1, <1>2, <1>3

\* The rounds of the loop, and what they come to.
Rounds(report, scan) ==
  /\ scan \in [0..Len(report) -> Scan]
  /\ scan[0] = [packets |-> << >>, start |-> 1, ok |-> TRUE]
  /\ \A n \in 1..Len(report) : scan[n] = Split(report, scan[n - 1])

LEMMA RoundsExist ==
  ASSUME NEW report \in Bytes
  PROVE  \E scan : Rounds(report, scan)
<1> DEFINE first == [packets |-> << >>, start |-> 1, ok |-> TRUE]
           N == Len(report)
           step == [n \in 1..N |-> [scan \in Scan |-> Split(report, scan)]]
<1>1. first \in Scan
  BY FirstScan
<1>2. N \in Nat
  BY DEF Bytes
<1>3. step \in [1..N -> [Scan -> Scan]]
  BY SplitType
<1>4. \A n \in 1..N, scan \in Scan : step[n][scan] = Split(report, scan)
  OBVIOUS
<1> HIDE DEF first, N, step
<1>5. PICK scan \in [0..N -> Scan] :
        scan[0] = first /\ \A n \in 1..N : scan[n] = step[n][scan[n - 1]]
  BY <1>1, <1>2, <1>3, Iteration
<1>6. \A n \in 1..N : scan[n] = Split(report, scan[n - 1])
  <2> SUFFICES ASSUME NEW n \in 1..N PROVE scan[n] = Split(report, scan[n - 1])
    OBVIOUS
  <2>1. n - 1 \in 0..N
    BY <1>2
  <2> QED  BY <1>4, <1>5, <2>1
<1> QED  BY <1>5, <1>6 DEF Rounds, first, N

LEMMA SplitRounds ==
  ASSUME NEW report \in Bytes
  PROVE  \E scan :
           /\ Rounds(report, scan)
           /\ SplitReport(report) = IF scan[Len(report)].ok THEN Ok(scan[Len(report)].packets)
                                    ELSE ProtocolError
<1> DEFINE Solves(f) == f = [n \in 0..Len(report) |->
                               IF n = 0 THEN [packets |-> << >>, start |-> 1, ok |-> TRUE]
                               ELSE Split(report, f[n - 1])]
           scan == CHOOSE f : Solves(f)
<1>1. PICK f : Rounds(report, f)
  BY RoundsExist
<1>2. Solves(f)
  <2>1. \A n \in 0..Len(report) :
          f[n] = IF n = 0 THEN [packets |-> << >>, start |-> 1, ok |-> TRUE]
                 ELSE Split(report, f[n - 1])
    <3>1. Len(report) \in Nat
      BY DEF Bytes
    <3> QED  BY <1>1, <3>1 DEF Rounds
  <2> QED  BY <1>1, <2>1 DEF Rounds
<1>3. Solves(scan)
  <2> HIDE DEF Solves
  <2> QED  BY <1>2
<1>4. SplitReport(report) = IF scan[Len(report)].ok THEN Ok(scan[Len(report)].packets)
                            ELSE ProtocolError
  BY Zenon DEF SplitReport
<1> HIDE DEF scan
<1>5. \A n \in 0..Len(report) :
        scan[n] = IF n = 0 THEN [packets |-> << >>, start |-> 1, ok |-> TRUE]
                  ELSE Split(report, scan[n - 1])
  BY <1>3
<1>6. PICK N \in Nat : N = Len(report)
  BY DEF Bytes
<1>7. \A n \in 1..N : scan[n] = Split(report, scan[n - 1])
  BY <1>5, <1>6
<1>8. scan[0] = [packets |-> << >>, start |-> 1, ok |-> TRUE]
  BY <1>5, <1>6
<1>9. DOMAIN scan = 0..N
  BY <1>3, <1>6
<1>10. \A n \in 0..N : scan[n] \in Scan
  <2> DEFINE T == {n \in Nat : n <= N => scan[n] \in Scan}
  <2>1. 0 \in T
    BY <1>8, FirstScan
  <2>2. ASSUME NEW n \in Nat, n \in T PROVE n + 1 \in T
    <3> SUFFICES ASSUME n + 1 <= N PROVE scan[n + 1] \in Scan
      OBVIOUS
    <3>1. n + 1 \in 1..N /\ (n + 1) - 1 = n /\ scan[n] \in Scan
      BY <1>6, <2>2
    <3>2. scan[n + 1] = Split(report, scan[n])
      BY <1>7, <3>1
    <3> QED  BY <3>1, <3>2, SplitType
  <2>3. Nat \subseteq T
    <3> HIDE DEF T
    <3> QED  BY <2>1, <2>2, NatInduct
  <2> QED  BY <1>6, <2>3
<1>11. scan = [n \in 0..N |-> scan[n]]
  BY <1>3, <1>6
<1>12. Rounds(report, scan)
  BY <1>6, <1>7, <1>8, <1>9, <1>10, <1>11 DEF Rounds
<1> QED  BY <1>4, <1>12

\* A round splits off the packet that starts where the last one ended.
Takes(report, scan, end) ==
  /\ scan.ok /\ scan.start + 1 \in 1..Len(report) /\ report[scan.start] # 0
  /\ end = scan.start + report[scan.start + 1] + 1 /\ end <= Len(report)
  /\ Split(report, scan) =
       [packets |-> Append(scan.packets, SubSeq(report, scan.start, end)),
        start |-> end + 1, ok |-> TRUE]

LEMMA SplitCases ==
  ASSUME NEW report \in Bytes, NEW scan \in Scan
  PROVE  \/ /\ Over(report, Split(report, scan))
            /\ Split(report, scan).packets = scan.packets
            /\ Split(report, scan).start = scan.start
         \/ \E end \in Nat : Takes(report, scan, end)
<1>1. CASE Over(report, scan)
  BY <1>1 DEF Split
<1>2. CASE ~Over(report, scan) /\ HeaderMissing(report, scan.start)
  BY <1>2 DEF Split, Scan, Over
<1>3. CASE ~Over(report, scan) /\ ~HeaderMissing(report, scan.start)
  <2> DEFINE end == PacketEnd(report, scan.start)
  <2>1. scan.start + 1 \in 1..Len(report) /\ scan.ok /\ report[scan.start] # 0
    BY <1>3, ByteAt DEF HeaderMissing, Over, Scan
  <2>2. PICK byte \in Byte : byte = report[scan.start + 1]
    BY <2>1, ByteAt
  <2>3. end = scan.start + report[scan.start + 1] + 1 /\ end = scan.start + byte + 1
    BY <2>2 DEF PacketEnd
  <2>4. byte \in Nat /\ scan.start \in Nat /\ Len(report) \in Nat
    BY ByteAt DEF Byte, Scan
  <2>5. CASE end > Len(report)
    BY <1>3, <2>5 DEF Split, Scan, Over
  <2>6. CASE ~(end > Len(report))
    <3>1. Split(report, scan) =
            [scan EXCEPT !.packets = Append(@, SubSeq(report, scan.start, end)),
                         !.start = end + 1]
      BY <1>3, <2>6, Zenon DEF Split
    <3> HIDE DEF end
    <3>2. Split(report, scan) =
            [packets |-> Append(scan.packets, SubSeq(report, scan.start, end)),
             start |-> end + 1, ok |-> scan.ok]
      BY <3>1 DEF Scan
    <3>3. scan.ok = TRUE
      BY <2>1 DEF Scan
    <3>4. end \in Nat /\ end <= Len(report)
      BY <2>3, <2>4, <2>6
    <3>5. Takes(report, scan, end)
      BY <2>1, <2>3, <3>2, <3>3, <3>4 DEF Takes
    <3> QED  BY <3>4, <3>5
  <2> QED  BY <2>5, <2>6
<1> QED  BY <1>1, <1>2, <1>3

\* The packet it splits off is as long as it says.
LEMMA TakenWhole ==
  ASSUME NEW report \in Bytes, NEW scan \in Scan, NEW end \in Nat, Takes(report, scan, end)
  PROVE  LET packet == SubSeq(report, scan.start, end)
         IN  /\ scan.start + 1 <= end
             /\ packet \in Bytes /\ Len(packet) = end - scan.start + 1
             /\ packet[1] # 0 /\ Len(packet) = packet[2] + 2
<1> DEFINE packet == SubSeq(report, scan.start, end)
<1>1. PICK n \in Nat : n = Len(report)
  BY ByteAt
<1>2. PICK start \in Nat \ {0} : start = scan.start
  BY DEF Scan
<1>3. start + 1 \in 1..n /\ report[start] # 0 /\ end <= n
  BY <1>1, <1>2 DEF Takes
<1>4. PICK byte \in Byte : byte = report[start + 1]
  BY <1>1, <1>3, ByteAt
<1>5. end = start + byte + 1
  BY <1>2, <1>4 DEF Takes
<1>6. byte \in Nat
  BY DEF Byte
<1>7. start + 1 <= end /\ end - start + 1 = byte + 2
  BY <1>5, <1>6
<1>8. \A i \in start..end : report[i] \in Byte
  BY <1>1, <1>3, ByteAt
<1>9. /\ SubSeq(report, start, end) \in Bytes
      /\ Len(SubSeq(report, start, end)) = end - start + 1
      /\ \A i \in 1..end - start + 1 : SubSeq(report, start, end)[i] = report[start + i - 1]
  BY <1>7, <1>8, SubSeqProperties DEF Bytes
<1>10. packet[1] = report[start] /\ packet[2] = byte
  BY <1>2, <1>4, <1>7, <1>9
<1> QED  BY <1>2, <1>3, <1>7, <1>9, <1>10

\* Where the packets split so far end in the report.
Ends(report, scan, end) ==
  /\ end \in [0..Len(scan.packets) -> 0..Len(report)]
  /\ end[0] = 0 /\ end[Len(scan.packets)] = scan.start - 1
  /\ \A i \in 1..Len(scan.packets) :
       /\ scan.packets[i] = SubSeq(report, end[i - 1] + 1, end[i])
       /\ scan.packets[i][1] # 0 /\ Len(scan.packets[i]) = scan.packets[i][2] + 2

LEMMA SplitEnds ==
  ASSUME NEW report \in Bytes, NEW scan \in Scan, NEW end, Ends(report, scan, end)
  PROVE  /\ \E e : Ends(report, Split(report, scan), e)
         /\ \/ Over(report, Split(report, scan))
            \/ Split(report, scan).start >= scan.start + 2
<1> DEFINE next == Split(report, scan)
<1>1. CASE Over(report, next) /\ next.packets = scan.packets /\ next.start = scan.start
  <2>1. Ends(report, next, end)
    BY <1>1 DEF Ends
  <2> QED  BY <1>1, <2>1
<1>2. CASE \E last \in Nat : Takes(report, scan, last)
  <2>1. PICK last \in Nat : Takes(report, scan, last)
    BY <1>2
  <2> DEFINE packet == SubSeq(report, scan.start, last)
  <2>2. /\ scan.start + 1 <= last /\ packet \in Bytes
        /\ packet[1] # 0 /\ Len(packet) = packet[2] + 2
    BY <2>1, TakenWhole
  <2>3. next = [packets |-> Append(scan.packets, packet), start |-> last + 1, ok |-> TRUE]
        /\ last <= Len(report)
    BY <2>1 DEF Takes
  <2>4. PICK L \in Nat : L = Len(scan.packets) /\ scan.packets \in Seq(Bytes)
    BY DEF Scan
  <2>5. scan.start \in Nat \ {0} /\ Len(report) \in Nat
    BY ByteAt DEF Scan
  <2>6. packet = SubSeq(report, (scan.start - 1) + 1, last)
    <3>1. (scan.start - 1) + 1 = scan.start
      BY <2>5
    <3> QED  BY <3>1
  <2> HIDE DEF packet, next
  <2>7. /\ next.packets = Append(scan.packets, packet) /\ next.start = last + 1
    BY <2>3
  <2>8. /\ Len(next.packets) = L + 1 /\ next.packets[L + 1] = packet
        /\ \A i \in 1..L : next.packets[i] = scan.packets[i]
    BY <2>2, <2>4, <2>7
  <2> DEFINE e == [i \in 0..L + 1 |-> IF i = L + 1 THEN last ELSE end[i]]
  <2>9. end \in [0..L -> 0..Len(report)] /\ end[0] = 0 /\ end[L] = scan.start - 1
    BY <2>4 DEF Ends
  <2>10. e \in [0..L + 1 -> 0..Len(report)] /\ e[0] = 0 /\ e[L + 1] = (last + 1) - 1
    BY <2>3, <2>4, <2>5, <2>9
  <2>11. ASSUME NEW i \in 1..L + 1
         PROVE  /\ next.packets[i] = SubSeq(report, e[i - 1] + 1, e[i])
                /\ next.packets[i][1] # 0 /\ Len(next.packets[i]) = next.packets[i][2] + 2
    <3>1. CASE i = L + 1
      <4>1. e[i] = last /\ e[i - 1] = end[L]
        BY <2>4, <3>1
      <4> QED  BY <2>2, <2>6, <2>8, <2>9, <3>1, <4>1
    <3>2. CASE i # L + 1
      <4>1. i \in 1..L /\ e[i] = end[i] /\ e[i - 1] = end[i - 1]
        BY <2>4, <3>2
      <4> QED  BY <2>4, <2>8, <4>1 DEF Ends
    <3> QED  BY <3>1, <3>2
  <2> HIDE DEF e
  <2>12. Ends(report, next, e)
    BY <2>7, <2>8, <2>10, <2>11 DEF Ends
  <2>13. next.start >= scan.start + 2
    BY <2>2, <2>5, <2>7
  <2> QED  BY <2>12, <2>13 DEF next
<1> QED  BY <1>1, <1>2, SplitCases

\* Bytes that split_report does not refuse are packets, each as long as it
\* says, and then nothing or a zero byte.
LEMMA SplitExact ==
  ASSUME NEW report \in Bytes, SplitReport(report).ok
  PROVE  LET packets == SplitReport(report).value
         IN  \E end \in [0..Len(packets) -> 0..Len(report)] :
               /\ end[0] = 0
               /\ \A i \in DOMAIN packets :
                    /\ packets[i] = SubSeq(report, end[i - 1] + 1, end[i])
                    /\ packets[i][1] # 0 /\ Len(packets[i]) = packets[i][2] + 2
               /\ end[Len(packets)] < Len(report) => report[end[Len(packets)] + 1] = 0
<1>1. PICK N \in Nat : N = Len(report)
  BY ByteAt
<1>2. PICK scan : /\ Rounds(report, scan)
                  /\ SplitReport(report) = IF scan[Len(report)].ok
                                             THEN Ok(scan[Len(report)].packets)
                                             ELSE ProtocolError
  BY SplitRounds
<1>3. /\ scan \in [0..N -> Scan]
      /\ scan[0] = [packets |-> << >>, start |-> 1, ok |-> TRUE]
      /\ \A n \in 1..N : scan[n] = Split(report, scan[n - 1])
  BY <1>1, <1>2 DEF Rounds
<1> DEFINE Good(n) == /\ \E end : Ends(report, scan[n], end)
                      /\ Over(report, scan[n]) \/ scan[n].start >= 2 * n + 1
           T == {n \in Nat : n <= N => Good(n)}
<1>4. 0 \in T
  <2>1. scan[0].packets = << >> /\ scan[0].start = 1 /\ Len(scan[0].packets) = 0
    BY <1>3
  <2>2. Ends(report, scan[0], [i \in 0..0 |-> 0])
    BY <1>1, <2>1 DEF Ends
  <2> QED  BY <2>1, <2>2
<1>5. ASSUME NEW n \in Nat, n \in T PROVE n + 1 \in T
  <2> SUFFICES ASSUME n + 1 <= N PROVE Good(n + 1)
    OBVIOUS
  <2>1. Good(n) /\ n \in 0..N /\ n + 1 \in 1..N /\ (n + 1) - 1 = n
    BY <1>1, <1>5
  <2>2. scan[n] \in Scan /\ scan[n + 1] = Split(report, scan[n])
    BY <1>3, <2>1
  <2>3. PICK end : Ends(report, scan[n], end)
    BY <2>1
  <2>4. /\ \E e : Ends(report, scan[n + 1], e)
        /\ Over(report, scan[n + 1]) \/ scan[n + 1].start >= scan[n].start + 2
    BY <2>2, <2>3, SplitEnds
  <2>5. CASE Over(report, scan[n])
    <3>1. scan[n + 1] = scan[n]
      BY <2>2, <2>5 DEF Split
    <3> QED  BY <2>4, <2>5, <3>1
  <2>6. CASE scan[n].start >= 2 * n + 1
    <3>1. scan[n].start \in Nat
      BY <2>2 DEF Scan
    <3>2. ASSUME scan[n + 1].start >= scan[n].start + 2
          PROVE  scan[n + 1].start >= 2 * (n + 1) + 1
      <4>1. scan[n + 1].start \in Nat
        BY <1>3, <2>1 DEF Scan
      <4> QED  BY <2>6, <3>1, <3>2, <4>1
    <3> QED  BY <2>4, <3>2
  <2> QED  BY <2>1, <2>5, <2>6
<1>6. Good(N)
  <2>1. Nat \subseteq T
    <3> HIDE DEF T
    <3> QED  BY <1>4, <1>5, NatInduct
  <2> QED  BY <2>1
<1> DEFINE last == scan[N]
<1>7. last \in Scan
  BY <1>3
<1>8. last.ok /\ SplitReport(report).value = last.packets
  BY <1>1, <1>2 DEF Ok, ProtocolError
<1>9. PICK end : Ends(report, last, end)
  BY <1>6
<1> HIDE DEF last
<1>10. last.start \in Nat /\ (last.start > N \/ report[last.start] = 0)
  <2>1. last.start \in Nat
    BY <1>7 DEF Scan
  <2>2. CASE Over(report, last)
    BY <1>1, <1>8, <2>1, <2>2 DEF Over
  <2>3. CASE last.start >= 2 * N + 1
    BY <1>1, <2>1, <2>3
  <2> QED  BY <1>6, <2>2, <2>3 DEF last
<1>11. PICK L \in Nat : L = Len(last.packets) /\ DOMAIN last.packets = 1..L
  BY <1>7 DEF Scan
<1>12. /\ end \in [0..L -> 0..N] /\ end[0] = 0 /\ end[L] = last.start - 1
       /\ \A i \in 1..L : /\ last.packets[i] = SubSeq(report, end[i - 1] + 1, end[i])
                          /\ last.packets[i][1] # 0
                          /\ Len(last.packets[i]) = last.packets[i][2] + 2
  BY <1>1, <1>9, <1>11 DEF Ends
<1>13. end[L] < N => report[end[L] + 1] = 0
  <2>1. end[L] + 1 = last.start
    BY <1>10, <1>12
  <2>2. end[L] < N => ~(last.start > N)
    BY <1>10, <1>12
  <2> QED  BY <1>10, <2>1, <2>2
<1> DEFINE packets == SplitReport(report).value
<1>14. /\ end \in [0..Len(packets) -> 0..Len(report)] /\ end[0] = 0
       /\ \A i \in DOMAIN packets :
            /\ packets[i] = SubSeq(report, end[i - 1] + 1, end[i])
            /\ packets[i][1] # 0 /\ Len(packets[i]) = packets[i][2] + 2
       /\ end[Len(packets)] < Len(report) => report[end[Len(packets)] + 1] = 0
  <2>1. packets = last.packets
    BY <1>8
  <2> HIDE DEF packets
  <2> QED  BY <1>1, <1>11, <1>12, <1>13, <2>1
<1> HIDE DEF packets
<1>15. \E e \in [0..Len(packets) -> 0..Len(report)] :
         /\ e[0] = 0
         /\ \A i \in DOMAIN packets :
              /\ packets[i] = SubSeq(report, e[i - 1] + 1, e[i])
              /\ packets[i][1] # 0 /\ Len(packets[i]) = packets[i][2] + 2
         /\ e[Len(packets)] < Len(report) => report[e[Len(packets)] + 1] = 0
  BY <1>14, Zenon
<1> QED  BY <1>15 DEF packets

-----------------------------------------------------------------------------
(* A report of whole packets *)

\* The report is the packets a + 1 to b, one behind the other; pos[i] is where
\* packet i ends in it.
Holds(report, packets, a, b, pos) ==
  /\ pos \in [a..b -> 0..Len(report)]
  /\ pos[a] = 0 /\ pos[b] = Len(report)
  /\ \A i \in a + 1..b :
       /\ pos[i] = pos[i - 1] + Len(packets[i])
       /\ \A j \in 1..Len(packets[i]) : report[pos[i - 1] + j] = packets[i][j]

LEMMA PaddedReport ==
  ASSUME NEW report \in Bytes, Len(report) <= ReportSize
  PROVE  /\ Padded(report) \in Bytes /\ Len(Padded(report)) = ReportSize
         /\ \A i \in 1..Len(report) : Padded(report)[i] = report[i]
         /\ \A i \in Len(report) + 1..ReportSize : Padded(report)[i] = 0
<1>1. PICK n \in Nat : n = Len(report)
  BY ByteAt
<1>2. ReportSize \in Nat /\ ReportSize - n \in Nat
  BY <1>1, SizeAssumption
<1> DEFINE zeros == [i \in 1..ReportSize - n |-> 0]
<1>3. zeros \in Seq(Byte)
  <2>1. \A i \in 1..ReportSize - n : 0 \in Byte
    BY DEF Byte
  <2> QED  BY <1>2, <2>1, IsASeq
<1>4. Len(zeros) = ReportSize - n /\ \A i \in 1..ReportSize - n : zeros[i] = 0
  BY <1>2, <1>3
<1>5. report \in Seq(Byte) /\ Padded(report) = report \o zeros
  BY <1>1 DEF Padded, Bytes
<1> HIDE DEF zeros
<1>6. /\ Padded(report) \in Seq(Byte)
      /\ Len(Padded(report)) = n + (ReportSize - n)
      /\ \A i \in 1..n + (ReportSize - n) :
           Padded(report)[i] = IF i <= n THEN report[i] ELSE zeros[i - n]
  <2>1. /\ report \o zeros \in Seq(Byte)
        /\ Len(report \o zeros) = Len(report) + Len(zeros)
        /\ \A i \in 1..Len(report) + Len(zeros) :
             (report \o zeros)[i] = IF i <= Len(report) THEN report[i] ELSE zeros[i - Len(report)]
    BY <1>3, <1>5, ConcatProperties
  <2> QED  BY <1>1, <1>4, <1>5, <2>1
<1>7. n + (ReportSize - n) = ReportSize
  BY <1>2
<1>8. \A i \in 1..n : Padded(report)[i] = report[i]
  BY <1>2, <1>6, <1>7
<1>9. ASSUME NEW i \in n + 1..ReportSize PROVE Padded(report)[i] = 0
  <2>1. i \in 1..ReportSize /\ ~(i <= n) /\ i - n \in 1..ReportSize - n
    BY <1>2
  <2> QED  BY <1>4, <1>6, <1>7, <2>1
<1> QED  BY <1>1, <1>6, <1>7, <1>8, <1>9 DEF Bytes

\* One more packet of the batch.
LEMMA SubSeqGrows ==
  ASSUME NEW V, NEW items \in Seq(V), NEW a \in Nat, NEW n \in Nat, a + n + 1 <= Len(items)
  PROVE  Append(SubSeq(items, a + 1, a + n), items[a + n + 1]) = SubSeq(items, a + 1, a + n + 1)
<1>1. PICK L \in Nat : L = Len(items)
  BY LenProperties
<1>2. \A i \in 1..L : items[i] \in V
  BY <1>1, ElementOfSeq
<1>3. \A i \in a + 1..a + n + 1 : items[i] \in V
  BY <1>1, <1>2
<1> DEFINE short == SubSeq(items, a + 1, a + n)
           long == SubSeq(items, a + 1, a + n + 1)
<1>4. short \in Seq(V) /\ Len(short) = n /\ \A i \in 1..n : short[i] = items[a + i]
  <2>1. \A i \in a + 1..a + n : items[i] \in V
    BY <1>3
  <2>2. /\ short \in Seq(V)
        /\ Len(short) = IF a + 1 <= a + n THEN (a + n) - (a + 1) + 1 ELSE 0
        /\ \A i \in 1..(a + n) - (a + 1) + 1 : short[i] = items[(a + 1) + i - 1]
    BY <2>1, SubSeqProperties
  <2>3. (a + n) - (a + 1) + 1 = n /\ \A i \in 1..n : (a + 1) + i - 1 = a + i
    OBVIOUS
  <2> HIDE DEF short
  <2> QED  BY <2>2, <2>3
<1>5. long \in Seq(V) /\ Len(long) = n + 1 /\ \A i \in 1..n + 1 : long[i] = items[a + i]
  <2>1. /\ long \in Seq(V)
        /\ Len(long) = IF a + 1 <= a + n + 1 THEN (a + n + 1) - (a + 1) + 1 ELSE 0
        /\ \A i \in 1..(a + n + 1) - (a + 1) + 1 : long[i] = items[(a + 1) + i - 1]
    BY <1>3, SubSeqProperties
  <2>2. (a + n + 1) - (a + 1) + 1 = n + 1 /\ \A i \in 1..n + 1 : (a + 1) + i - 1 = a + i
    OBVIOUS
  <2> HIDE DEF long
  <2> QED  BY <2>1, <2>2
<1> DEFINE item == items[a + n + 1]
           grown == Append(short, item)
<1>6. item \in V
  BY <1>3
<1> HIDE DEF short, long
<1>7. grown \in Seq(V) /\ Len(grown) = n + 1
      /\ \A i \in 1..n + 1 : grown[i] = IF i = n + 1 THEN item ELSE short[i]
  <2> HIDE DEF item
  <2> QED  BY <1>4, <1>6
<1> HIDE DEF grown
<1>8. \A i \in 1..n + 1 : grown[i] = long[i]
  <2> SUFFICES ASSUME NEW i \in 1..n + 1 PROVE grown[i] = long[i]
    OBVIOUS
  <2>1. CASE i = n + 1
    <3>1. a + i = a + n + 1
      BY <2>1
    <3> QED  BY <1>5, <1>7, <2>1, <3>1
  <2>2. CASE i # n + 1
    <3>1. i \in 1..n
      BY <2>2
    <3>2. grown[i] = short[i]
      BY <1>7, <2>2
    <3>3. short[i] = items[a + i]
      BY <1>4, <3>1
    <3>4. long[i] = items[a + i]
      BY <1>5
    <3> QED  BY <3>2, <3>3, <3>4
  <2> QED  BY <2>1, <2>2
<1>9. grown = long
  BY <1>5, <1>7, <1>8, SeqEqual
<1> QED  BY <1>9 DEF grown, item, short, long

\* Splitting a report, padding included, gives the packets it holds.
LEMMA SplitHeld ==
  ASSUME NEW packets \in Seq(Packet), NEW report \in Bytes, Len(report) <= ReportSize,
         NEW a \in Nat, NEW m \in Nat, a + m <= Len(packets), NEW pos,
         Holds(report, packets, a, a + m, pos)
  PROVE  SplitReport(Padded(report)) = Ok(SubSeq(packets, a + 1, a + m))
<1> DEFINE padded == Padded(report)
<1>1. PICK N \in Nat : N = Len(report)
  BY ByteAt
<1>2. /\ padded \in Bytes /\ Len(padded) = ReportSize
      /\ \A i \in 1..N : padded[i] = report[i]
      /\ \A i \in N + 1..ReportSize : padded[i] = 0
  BY <1>1, PaddedReport
<1> HIDE DEF padded
<1>3. ReportSize \in Nat /\ N <= ReportSize
  BY <1>1, SizeAssumption
<1>4. PICK scan : /\ Rounds(padded, scan)
                  /\ SplitReport(padded) = IF scan[Len(padded)].ok
                                             THEN Ok(scan[Len(padded)].packets)
                                             ELSE ProtocolError
  BY <1>2, SplitRounds
<1>5. /\ scan \in [0..ReportSize -> Scan]
      /\ scan[0] = [packets |-> << >>, start |-> 1, ok |-> TRUE]
      /\ \A n \in 1..ReportSize : scan[n] = Split(padded, scan[n - 1])
  BY <1>2, <1>4 DEF Rounds
<1>6. /\ pos \in [a..a + m -> 0..N] /\ pos[a] = 0 /\ pos[a + m] = N
      /\ \A i \in a + 1..a + m :
           /\ pos[i] = pos[i - 1] + Len(packets[i])
           /\ \A j \in 1..Len(packets[i]) : report[pos[i - 1] + j] = packets[i][j]
  BY <1>1 DEF Holds
<1> DEFINE held(n) == [packets |-> SubSeq(packets, a + 1, a + n), start |-> pos[a + n] + 1,
                       ok |-> TRUE]
           Good(n) == IF n <= m THEN scan[n] = held(n) /\ pos[a + n] >= 2 * n
                      ELSE scan[n] = held(m)
           T == {n \in Nat : n <= ReportSize => Good(n)}
<1>7. 0 \in T
  <2>1. a + 0 = a /\ SubSeq(packets, a + 1, a + 0) = << >>
    BY SubSeqEmpty
  <2>2. scan[0] = held(0)
    <3>1. SubSeq(packets, a + 1, a + 0) = << >> /\ pos[a + 0] + 1 = 1
      BY <1>6, <2>1
    <3> QED  BY <1>5, <3>1, Zenon
  <2>3. pos[a + 0] >= 2 * 0 /\ 0 <= m
    BY <1>6, <2>1
  <2> HIDE DEF held
  <2> QED  BY <2>2, <2>3
<1>8. Over(padded, held(m))
  <2>1. held(m).start = N + 1 /\ held(m).ok
    BY <1>6
  <2>2. CASE N = ReportSize
    BY <1>2, <1>3, <2>1, <2>2 DEF Over
  <2>3. CASE N # ReportSize
    <3>1. N + 1 \in N + 1..ReportSize
      BY <1>3, <2>3
    <3> QED  BY <1>2, <2>1, <3>1 DEF Over
  <2> QED  BY <2>2, <2>3
<1>9. ASSUME NEW n \in Nat, n < m, n + 1 <= ReportSize, Good(n)
      PROVE  scan[n + 1] = held(n + 1) /\ pos[a + (n + 1)] >= 2 * (n + 1)
  <2> DEFINE i == a + n + 1
             packet == packets[i]
             start == pos[a + n] + 1
  <2>1. /\ i \in a + 1..a + m /\ i \in 1..Len(packets) /\ i - 1 = a + n /\ i = a + (n + 1)
        /\ a + n \in a..a + m /\ i \in a..a + m
    <3>1. PICK P \in Nat : P = Len(packets)
      BY LenProperties
    <3> QED  BY <1>9, <3>1
  <2>2. Whole(packet)
    <3>1. packet \in Packet
      BY <2>1, ElementOfSeq
    <3> QED  BY <3>1, PacketWhole
  <2> HIDE DEF packet, i
  <2>3. PICK K \in Nat : K = Len(packet) /\ K >= 2 /\ K = packet[2] + 2 /\ packet[1] # 0
    BY <2>2, ByteAt DEF Whole
  <2>4. /\ pos[a + n] \in 0..N /\ pos[i] \in 0..N /\ pos[i] = pos[a + n] + K
        /\ \A j \in 1..K : report[pos[a + n] + j] = packet[j]
    <3>1. pos[i] = pos[i - 1] + Len(packets[i])
          /\ \A j \in 1..Len(packets[i]) : report[pos[i - 1] + j] = packets[i][j]
      BY <1>6, <2>1
    <3> QED  BY <1>6, <2>1, <2>3, <3>1 DEF packet
  <2> DEFINE p == pos[a + n]
             q == pos[i]
  <2>place. p \in 0..N /\ q \in 0..N /\ q = p + K
    BY <2>4
  <2>size. K >= 2
    BY <2>3
  <2> HIDE DEF p, q
  <2>5. start \in 1..N /\ start + 1 \in 1..N /\ pos[i] = start + K - 1
    <3>1. p + 1 \in 1..N /\ p + 1 + 1 \in 1..N /\ q = p + 1 + K - 1
      BY <2>place, <2>size
    <3> QED  BY <3>1 DEF p, q
  <2>6. \A j \in 1..K : padded[start + j - 1] = packet[j]
    <3> SUFFICES ASSUME NEW j \in 1..K PROVE padded[start + j - 1] = packet[j]
      OBVIOUS
    <3>1. p + 1 + j - 1 = p + j /\ p + j \in 1..N
      BY <2>place, <2>size
    <3>2. padded[p + j] = report[p + j]
      BY <1>2, <3>1
    <3>3. report[p + j] = packet[j]
      BY <2>4 DEF p
    <3>4. padded[p + 1 + j - 1] = packet[j]
      BY <3>1, <3>2, <3>3
    <3> QED  BY <3>4 DEF p
  <2>7. padded[start] = packet[1] /\ padded[start + 1] = packet[2]
    <3>1. start + 1 - 1 = start /\ start + 2 - 1 = start + 1 /\ 1 \in 1..K /\ 2 \in 1..K
      BY <2>size, <2>5
    <3> QED  BY <2>6, <3>1
  <2>8. scan[n] = held(n) /\ scan[n].start = start /\ scan[n].ok = TRUE
        /\ scan[n].packets = SubSeq(packets, a + 1, a + n) /\ scan[n] \in Scan
        /\ pos[a + n] >= 2 * n
    <3>1. n <= m /\ n \in 0..ReportSize
      BY <1>3, <1>9
    <3> QED  BY <1>5, <1>9, <3>1
  <2>9. scan[n + 1] = Split(padded, scan[n])
    <3>1. n + 1 \in 1..ReportSize /\ (n + 1) - 1 = n
      BY <1>3, <1>9
    <3> QED  BY <1>5, <3>1
  <2> HIDE DEF start, held
  <2>10. ~Over(padded, scan[n]) /\ ~HeaderMissing(padded, scan[n].start)
    <3>1. padded[start] # 0
      BY <2>3, <2>7
    <3>2. ~(start > Len(padded)) /\ ~(start + 1 > Len(padded))
      BY <1>2, <1>3, <2>5
    <3> QED  BY <2>8, <3>1, <3>2 DEF Over, HeaderMissing
  <2>11. PacketEnd(padded, scan[n].start) = pos[i] /\ ~(pos[i] > Len(padded))
    <3>1. PacketEnd(padded, start) = start + packet[2] + 1
      BY <2>7 DEF PacketEnd
    <3>2. packet[2] = K - 2 /\ packet[2] \in Nat
      <4>1. K = packet[2] + 2 /\ 2 \in 1..Len(packet)
        BY <2>3
      <4>2. PICK byte \in Byte : byte = packet[2]
        BY <2>2, <4>1, ByteAt DEF Whole
      <4>3. byte \in Nat
        BY DEF Byte
      <4> QED  BY <4>1, <4>2, <4>3
    <3>3. start + packet[2] + 1 = pos[i]
      <4>1. start \in Nat
        BY <2>5
      <4> QED  BY <2>5, <3>2, <4>1
    <3>4. ~(q > ReportSize)
      BY <1>3, <2>place
    <3> QED  BY <1>2, <2>8, <3>1, <3>3, <3>4 DEF q
  <2>12. SubSeq(padded, start, pos[i]) = packet
    <3>1. start \in Int /\ pos[i] \in Int /\ pos[i] - start + 1 = K /\ start <= pos[i]
      <4>1. start \in Nat /\ q \in Nat /\ q = start + K - 1
        BY <2>place, <2>5 DEF q
      <4>2. q - start + 1 = K /\ start <= q
        BY <2>size, <4>1
      <4> QED  BY <4>1, <4>2 DEF q
    <3>2. \A k \in start..pos[i] : padded[k] \in Byte
      <4>1. \A k \in start..q : k \in 1..ReportSize
        BY <1>3, <2>place, <2>5
      <4>2. \A k \in start..pos[i] : k \in 1..Len(padded)
        BY <1>2, <4>1 DEF q
      <4> QED  BY <1>2, <4>2, ByteAt
    <3>3. /\ SubSeq(padded, start, pos[i]) \in Seq(Byte)
          /\ Len(SubSeq(padded, start, pos[i])) = K
          /\ \A j \in 1..K : SubSeq(padded, start, pos[i])[j] = padded[start + j - 1]
      BY <3>1, <3>2, SubSeqProperties
    <3>4. packet \in Seq(Byte)
      BY <2>2 DEF Whole, Bytes
    <3>5. Len(packet) = K
      BY <2>3
    <3>6. \A j \in 1..K : SubSeq(padded, start, pos[i])[j] = packet[j]
      BY <2>6, <3>3
    <3> QED  BY <3>3, <3>4, <3>5, <3>6, SeqEqual
  <2>13. Split(padded, scan[n]) =
           [scan[n] EXCEPT !.packets = Append(@, packet), !.start = pos[i] + 1]
    BY <2>8, <2>10, <2>11, <2>12, Zenon DEF Split
  <2>14. Append(SubSeq(packets, a + 1, a + n), packet) = SubSeq(packets, a + 1, a + n + 1)
    <3>1. a + n + 1 <= Len(packets)
      BY <1>9, LenProperties
    <3> QED  BY <3>1, SubSeqGrows DEF packet, i
  <2>15. scan[n + 1] = [packets |-> SubSeq(packets, a + 1, a + n + 1), start |-> pos[i] + 1,
                        ok |-> TRUE]
    BY <2>8, <2>9, <2>13, <2>14 DEF Scan
  <2>16. pos[i] >= 2 * (n + 1)
    <3>1. p >= 2 * n
      BY <2>8 DEF p
    <3>2. q >= 2 * (n + 1)
      BY <2>place, <2>size, <3>1
    <3> QED  BY <3>2 DEF q
  <2>17. a + (n + 1) = i /\ a + n + 1 = i
    BY <2>1 DEF i
  <2> QED  BY <2>15, <2>16, <2>17 DEF held
<1>10. ASSUME NEW n \in Nat, n \in T PROVE n + 1 \in T
  <2> SUFFICES ASSUME n + 1 <= ReportSize PROVE Good(n + 1)
    OBVIOUS
  <2>1. Good(n)
    BY <1>3, <1>10
  <2>2. CASE n < m
    <3>1. scan[n + 1] = held(n + 1) /\ pos[a + (n + 1)] >= 2 * (n + 1)
      BY <1>9, <2>1, <2>2
    <3>2. n + 1 <= m
      BY <2>2
    <3> HIDE DEF held
    <3> QED  BY <3>1, <3>2
  <2>3. CASE ~(n < m)
    <3>1. scan[n] = held(m)
      <4> HIDE DEF held
      <4>1. CASE n = m
        <5>1. n <= m
          BY <4>1
        <5>2. scan[n] = held(n)
          BY <2>1, <5>1
        <5> QED  BY <4>1, <5>2, Zenon
      <4>2. CASE n # m
        <5>1. ~(n <= m)
          BY <2>3, <4>2
        <5> QED  BY <2>1, <5>1
      <4> QED  BY <4>1, <4>2
    <3>2. scan[n + 1] = Split(padded, scan[n])
      <4>1. n + 1 \in 1..ReportSize /\ (n + 1) - 1 = n
        BY <1>3
      <4> QED  BY <1>5, <4>1
    <3> HIDE DEF held
    <3>3. scan[n + 1] = held(m)
      BY <1>8, <3>1, <3>2 DEF Split
    <3>4. ~(n + 1 <= m)
      BY <2>3
    <3> QED  BY <3>3, <3>4
  <2> QED  BY <2>2, <2>3
<1>11. Good(ReportSize)
  <2>1. Nat \subseteq T
    <3> HIDE DEF T
    <3> QED  BY <1>7, <1>10, NatInduct
  <2>2. ReportSize \in T /\ ReportSize <= ReportSize
    <3> HIDE DEF T
    <3> QED  BY <1>3, <2>1
  <2> HIDE DEF Good
  <2> QED  BY <2>2
<1>12. scan[ReportSize] = held(m)
  <2>1. CASE ReportSize <= m
    <3>1. ReportSize <= m /\ pos[a + ReportSize] >= 2 * ReportSize
          /\ scan[ReportSize] = held(ReportSize)
      BY <1>11, <2>1
    <3>2. a + ReportSize \in a..a + m
      BY <1>3, <2>1
    <3>3. pos[a + ReportSize] <= ReportSize
      BY <1>1, <1>3, <1>6, <3>2
    <3>4. pos[a + ReportSize] \in Nat
      BY <1>1, <1>6, <3>2
    <3>5. ReportSize >= 2
      BY SizeAssumption
    <3> QED  BY <1>3, <3>1, <3>3, <3>4, <3>5
  <2>2. CASE ~(ReportSize <= m)
    BY <1>11, <2>2
  <2> QED  BY <2>1, <2>2
<1>13. scan[Len(padded)].ok /\ scan[Len(padded)].packets = SubSeq(packets, a + 1, a + m)
  BY <1>2, <1>12
<1> QED  BY <1>4, <1>13, Zenon DEF padded

-----------------------------------------------------------------------------
(* Packing *)

Packing == [reports : Seq(Bytes), current : Bytes]

LEMMA PackType ==
  ASSUME NEW packing \in Packing, NEW packet \in Bytes
  PROVE  Pack(packing, packet) \in Packing
<1>1. packing.reports \in Seq(Bytes) /\ packing.current \in Bytes
  BY DEF Packing
<1>2. CASE StartsNew(packing.current, packet)
  <2>1. Append(packing.reports, packing.current) \in Seq(Bytes)
    BY <1>1
  <2> QED  BY <1>2, <2>1 DEF Pack, Packing
<1>3. CASE ~StartsNew(packing.current, packet)
  <2>1. packing.current \o packet \in Bytes
    BY <1>1, ConcatProperties DEF Bytes
  <2> QED  BY <1>3, <2>1 DEF Pack, Packing
<1> QED  BY <1>2, <1>3

\* The rounds of the loop.
Packings(packets, packing) ==
  /\ packing \in [0..Len(packets) -> Packing]
  /\ packing[0] = [reports |-> << >>, current |-> << >>]
  /\ \A n \in 1..Len(packets) : packing[n] = Pack(packing[n - 1], packets[n])

LEMMA FirstPacking == [reports |-> << >>, current |-> << >>] \in Packing
BY DEF Packing, Bytes

LEMMA PackingsExist ==
  ASSUME NEW packets \in Seq(Bytes)
  PROVE  \E packing : Packings(packets, packing)
<1> DEFINE first == [reports |-> << >>, current |-> << >>]
           N == Len(packets)
           step == [n \in 1..N |-> [packing \in Packing |-> Pack(packing, packets[n])]]
<1>1. first \in Packing
  BY FirstPacking
<1>2. N \in Nat /\ \A n \in 1..N : packets[n] \in Bytes
  OBVIOUS
<1>3. step \in [1..N -> [Packing -> Packing]]
  BY <1>2, PackType
<1>4. \A n \in 1..N, packing \in Packing : step[n][packing] = Pack(packing, packets[n])
  OBVIOUS
<1> HIDE DEF first, N, step
<1>5. PICK packing \in [0..N -> Packing] :
        packing[0] = first /\ \A n \in 1..N : packing[n] = step[n][packing[n - 1]]
  <2>1. N \in Nat
    BY <1>2
  <2> HIDE DEF Packing
  <2> QED  BY <1>1, <1>3, <2>1, Iteration
<1>6. \A n \in 1..N : packing[n] = Pack(packing[n - 1], packets[n])
  <2> SUFFICES ASSUME NEW n \in 1..N PROVE packing[n] = Pack(packing[n - 1], packets[n])
    OBVIOUS
  <2>1. n - 1 \in 0..N
    BY <1>2
  <2> QED  BY <1>4, <1>5, <2>1
<1> QED  BY <1>5, <1>6 DEF Packings, first, N

LEMMA PackPackings ==
  ASSUME NEW packets \in Seq(Bytes), PackReports(packets).ok
  PROVE  /\ \A i \in DOMAIN packets : ~(Len(packets[i]) > ReportSize)
         /\ \E packing :
              /\ Packings(packets, packing)
              /\ LET packed == packing[Len(packets)]
                 IN  PackReports(packets).value =
                       packed.reports \o
                         IF packed.current = << >> THEN << >> ELSE <<packed.current>>
<1> DEFINE Solves(f) == f = [n \in 0..Len(packets) |->
                               IF n = 0 THEN [reports |-> << >>, current |-> << >>]
                               ELSE Pack(f[n - 1], packets[n])]
           packing == CHOOSE f : Solves(f)
           packed == packing[Len(packets)]
           reports == packed.reports \o
                        IF packed.current = << >> THEN << >> ELSE <<packed.current>>
<1>1. PICK f : Packings(packets, f)
  BY PackingsExist
<1>2. PICK N \in Nat : N = Len(packets)
  OBVIOUS
<1>3. Solves(f)
  BY <1>1, <1>2 DEF Packings
<1>4. Solves(packing)
  <2> HIDE DEF Solves
  <2> QED  BY <1>3
<1>5. PackReports(packets) = IF \E i \in DOMAIN packets : Len(packets[i]) > ReportSize
                               THEN ProtocolError ELSE Ok(reports)
  BY Zenon DEF PackReports
<1>6. /\ \A i \in DOMAIN packets : ~(Len(packets[i]) > ReportSize)
      /\ PackReports(packets).value = reports
  <2> HIDE DEF reports
  <2> QED  BY <1>5 DEF Ok, ProtocolError
<1> HIDE DEF packing
<1>7. \A n \in 0..N : packing[n] = IF n = 0 THEN [reports |-> << >>, current |-> << >>]
                                   ELSE Pack(packing[n - 1], packets[n])
  BY <1>2, <1>4
<1>8. /\ packing[0] = [reports |-> << >>, current |-> << >>]
      /\ \A n \in 1..N : packing[n] = Pack(packing[n - 1], packets[n])
  BY <1>7
<1>9. \A n \in 0..N : packing[n] \in Packing
  <2> DEFINE T == {n \in Nat : n <= N => packing[n] \in Packing}
  <2>1. 0 \in T
    BY <1>8, FirstPacking
  <2>2. ASSUME NEW n \in Nat, n \in T PROVE n + 1 \in T
    <3> SUFFICES ASSUME n + 1 <= N PROVE packing[n + 1] \in Packing
      OBVIOUS
    <3>1. n + 1 \in 1..N /\ (n + 1) - 1 = n /\ packing[n] \in Packing
      BY <2>2
    <3>2. packing[n + 1] = Pack(packing[n], packets[n + 1])
      BY <1>8, <3>1
    <3>3. packets[n + 1] \in Bytes
      BY <1>2, <3>1
    <3> QED  BY <3>1, <3>2, <3>3, PackType
  <2>3. Nat \subseteq T
    <3> HIDE DEF T
    <3> QED  BY <2>1, <2>2, NatInduct
  <2> QED  BY <2>3
<1>10. packing = [n \in 0..N |-> packing[n]]
  BY <1>2, <1>4
<1>11. Packings(packets, packing)
  BY <1>2, <1>8, <1>9, <1>10 DEF Packings
<1> QED  BY <1>6, <1>11, Zenon

\* How packets are spread over reports: report k ends with packet cut[k].
Cuts(reports, packets, cut) ==
  /\ cut \in [0..Len(reports) -> 0..Len(packets)]
  /\ \A k \in 1..Len(reports) :
       /\ cut[k - 1] <= cut[k] /\ Len(reports[k]) \in 1..ReportSize
       /\ \E pos : Holds(reports[k], packets, cut[k - 1], cut[k], pos)

\* One more report.
LEMMA CutsGrow ==
  ASSUME NEW reports \in Seq(Bytes), NEW packets, Len(packets) \in Nat,
         NEW cut, Cuts(reports, packets, cut),
         NEW report \in Bytes, Len(report) \in 1..ReportSize,
         NEW n \in 0..Len(packets), cut[Len(reports)] <= n,
         NEW pos, Holds(report, packets, cut[Len(reports)], n, pos)
  PROVE  \E c : /\ Cuts(Append(reports, report), packets, c)
                /\ c[0] = cut[0] /\ c[Len(reports) + 1] = n
<1>1. PICK L \in Nat : L = Len(reports)
  OBVIOUS
<1> DEFINE more == Append(reports, report)
           c == [k \in 0..L + 1 |-> IF k = L + 1 THEN n ELSE cut[k]]
<1>2. Len(more) = L + 1 /\ more[L + 1] = report /\ \A k \in 1..L : more[k] = reports[k]
  BY <1>1
<1>3. cut \in [0..L -> 0..Len(packets)]
  BY <1>1 DEF Cuts
<1>4. c \in [0..L + 1 -> 0..Len(packets)] /\ c[0] = cut[0] /\ c[L + 1] = n
  BY <1>3
<1> HIDE DEF more
<1>5. ASSUME NEW k \in 1..L + 1
      PROVE  /\ c[k - 1] <= c[k] /\ Len(more[k]) \in 1..ReportSize
             /\ \E p : Holds(more[k], packets, c[k - 1], c[k], p)
  <2>1. CASE k = L + 1
    <3>1. c[k - 1] = cut[L] /\ c[k] = n /\ more[k] = report
      BY <1>2, <2>1
    <3> QED  BY <1>1, <3>1
  <2>2. CASE k # L + 1
    <3>1. k \in 1..L /\ c[k - 1] = cut[k - 1] /\ c[k] = cut[k] /\ more[k] = reports[k]
      BY <1>2, <2>2
    <3> QED  BY <1>1, <3>1 DEF Cuts
  <2> QED  BY <2>1, <2>2
<1> HIDE DEF c
<1>6. Cuts(more, packets, c)
  BY <1>2, <1>4, <1>5 DEF Cuts
<1> QED  BY <1>1, <1>4, <1>6 DEF more

\* One report less.
LEMMA CutsTail ==
  ASSUME NEW reports \in Seq(Bytes), reports # << >>, NEW packets, NEW cut,
         Cuts(reports, packets, cut)
  PROVE  \E c : /\ Cuts(Tail(reports), packets, c)
                /\ c[0] = cut[1] /\ c[Len(Tail(reports))] = cut[Len(reports)]
<1>1. PICK L \in Nat : L + 1 = Len(reports)
  <2>1. Len(reports) \in Nat \ {0}
    BY EmptySeq
  <2>2. Len(reports) - 1 \in Nat /\ (Len(reports) - 1) + 1 = Len(reports)
    BY <2>1
  <2> QED  BY <2>2
<1> DEFINE rest == Tail(reports)
           c == [k \in 0..L |-> cut[k + 1]]
<1>2. Len(rest) = L /\ \A k \in 1..L : rest[k] = reports[k + 1]
  <2>1. Len(rest) = Len(reports) - 1 /\ \A k \in 1..Len(rest) : rest[k] = reports[k + 1]
    BY HeadTailProperties
  <2>2. (L + 1) - 1 = L
    OBVIOUS
  <2> QED  BY <1>1, <2>1, <2>2
<1>3. cut \in [0..L + 1 -> 0..Len(packets)]
  BY <1>1 DEF Cuts
<1>4. c \in [0..L -> 0..Len(packets)] /\ c[0] = cut[1] /\ c[L] = cut[L + 1]
  BY <1>3
<1> HIDE DEF rest
<1>5. ASSUME NEW k \in 1..L
      PROVE  /\ c[k - 1] <= c[k] /\ Len(rest[k]) \in 1..ReportSize
             /\ \E p : Holds(rest[k], packets, c[k - 1], c[k], p)
  <2>1. /\ k + 1 \in 1..L + 1 /\ c[k - 1] = cut[(k + 1) - 1] /\ c[k] = cut[k + 1]
        /\ rest[k] = reports[k + 1]
    BY <1>2
  <2> QED  BY <1>1, <2>1 DEF Cuts
<1> HIDE DEF c
<1>6. Cuts(rest, packets, c)
  BY <1>2, <1>4, <1>5 DEF Cuts
<1> QED  BY <1>1, <1>2, <1>4, <1>6 DEF rest

\* A packet behind the others of a report.
LEMMA HeldGrows ==
  ASSUME NEW packets, NEW report \in Bytes, NEW a \in Nat, NEW b \in Nat, a <= b,
         packets[b + 1] \in Bytes, NEW pos, Holds(report, packets, a, b, pos)
  PROVE  \E p : Holds(report \o packets[b + 1], packets, a, b + 1, p)
<1> DEFINE packet == packets[b + 1]
           longer == report \o packet
<1>1. PICK N \in Nat, K \in Nat : N = Len(report) /\ K = Len(packet)
  BY ByteAt
<1> HIDE DEF packet
<1>2. /\ Len(longer) = N + K
      /\ \A j \in 1..N : longer[j] = report[j]
      /\ \A j \in 1..K : longer[N + j] = packet[j]
  <2>1. report \in Seq(Byte) /\ packet \in Seq(Byte)
    BY DEF Bytes, packet
  <2>2. /\ Len(longer) = Len(report) + Len(packet)
        /\ \A i \in 1..Len(report) + Len(packet) :
             longer[i] = IF i <= Len(report) THEN report[i] ELSE packet[i - Len(report)]
    BY <2>1, ConcatProperties
  <2> HIDE DEF longer
  <2>3. /\ Len(longer) = N + K
        /\ \A i \in 1..N + K : longer[i] = IF i <= N THEN report[i] ELSE packet[i - N]
    BY <1>1, <2>2
  <2>4. \A j \in 1..N : j \in 1..N + K /\ j <= N
    OBVIOUS
  <2>5. \A j \in 1..K : N + j \in 1..N + K /\ ~(N + j <= N) /\ (N + j) - N = j
    OBVIOUS
  <2>6. \A j \in 1..K : longer[N + j] = packet[j]
    BY <2>3, <2>5
  <2> QED  BY <2>3, <2>4, <2>6
<1>3. /\ pos \in [a..b -> 0..N] /\ pos[a] = 0 /\ pos[b] = N
      /\ \A i \in a + 1..b :
           /\ pos[i] = pos[i - 1] + Len(packets[i])
           /\ \A j \in 1..Len(packets[i]) : report[pos[i - 1] + j] = packets[i][j]
  BY <1>1 DEF Holds
<1> DEFINE p == [i \in a..b + 1 |-> IF i = b + 1 THEN N + K ELSE pos[i]]
<1> HIDE DEF longer
<1>4. p \in [a..b + 1 -> 0..N + K] /\ p[a] = 0 /\ p[b + 1] = N + K
  <2>1. \A i \in a..b + 1 : i # b + 1 => i \in a..b
    OBVIOUS
  <2>2. \A i \in a..b : pos[i] \in 0..N
    BY <1>3
  <2>3. \A i \in a..b + 1 : p[i] \in 0..N + K
    BY <2>1, <2>2
  <2>4. a \in a..b + 1 /\ a # b + 1 /\ b + 1 \in a..b + 1
    OBVIOUS
  <2> QED  BY <1>3, <2>3, <2>4
<1>5. ASSUME NEW i \in a + 1..b + 1
      PROVE  /\ p[i] = p[i - 1] + Len(packets[i])
             /\ \A j \in 1..Len(packets[i]) : longer[p[i - 1] + j] = packets[i][j]
  <2>1. CASE i = b + 1
    <3>1. p[i] = N + K /\ p[i - 1] = N
      <4>1. i - 1 = b /\ b \in a..b + 1 /\ b # b + 1 /\ b + 1 \in a..b + 1
        BY <2>1
      <4> QED  BY <1>3, <2>1, <4>1
    <3> QED  BY <1>1, <1>2, <2>1, <3>1 DEF packet
  <2>2. CASE i # b + 1
    <3>1. i \in a + 1..b /\ i \in a..b + 1 /\ i - 1 \in a..b + 1 /\ i - 1 # b + 1
          /\ i \in a..b /\ i - 1 \in a..b
      BY <2>2
    <3>2. p[i] = pos[i] /\ p[i - 1] = pos[i - 1]
      BY <2>2, <3>1
    <3>3. pos[i] = pos[i - 1] + Len(packets[i])
          /\ \A j \in 1..Len(packets[i]) : report[pos[i - 1] + j] = packets[i][j]
      BY <1>3, <3>1
    <3>4. ASSUME NEW j \in 1..Len(packets[i])
          PROVE  longer[pos[i - 1] + j] = packets[i][j]
      <4>1. pos[i] \in 0..N /\ pos[i - 1] \in 0..N
        BY <1>3, <3>1
      <4>2. pos[i - 1] + j \in 1..N
        <5>1. j \in Nat /\ j >= 1 /\ pos[i - 1] + j <= pos[i]
          <6>1. Len(packets[i]) \in Int => j <= Len(packets[i])
            OBVIOUS
          <6> QED  BY <3>3, <4>1, <6>1
        <5> QED  BY <4>1, <5>1
      <4> QED  BY <1>2, <3>3, <4>2
    <3> QED  BY <3>2, <3>3, <3>4
  <2> QED  BY <2>1, <2>2
<1> HIDE DEF p
<1>6. Holds(longer, packets, a, b + 1, p)
  BY <1>2, <1>4, <1>5 DEF Holds
<1> QED  BY <1>6 DEF longer, packet

\* A report with one packet.
LEMMA HeldAlone ==
  ASSUME NEW packets, NEW n \in Nat, packets[n + 1] \in Bytes
  PROVE  \E p : Holds(packets[n + 1], packets, n, n + 1, p)
<1> DEFINE packet == packets[n + 1]
           p == [i \in n..n + 1 |-> IF i = n + 1 THEN Len(packet) ELSE 0]
<1>1. PICK K \in Nat : K = Len(packet)
  BY ByteAt
<1>2. n \in n..n + 1 /\ n # n + 1 /\ n + 1 \in n..n + 1 /\ (n + 1) - 1 = n
  OBVIOUS
<1>3. p[n] = 0 /\ p[n + 1] = K /\ p \in [n..n + 1 -> 0..K]
  BY <1>1, <1>2
<1>4. \A i \in n + 1..n + 1 : i = n + 1
  OBVIOUS
<1> HIDE DEF p
<1>5. \A i \in n + 1..n + 1 :
        /\ p[i] = p[i - 1] + Len(packets[i])
        /\ \A j \in 1..Len(packets[i]) : packet[p[i - 1] + j] = packets[i][j]
  <2> SUFFICES ASSUME NEW i \in n + 1..n + 1
               PROVE  /\ p[i] = p[i - 1] + Len(packets[i])
                      /\ \A j \in 1..Len(packets[i]) : packet[p[i - 1] + j] = packets[i][j]
    OBVIOUS
  <2>1. i = n + 1 /\ p[i - 1] = 0 /\ p[i] = K /\ packets[i] = packet
    BY <1>2, <1>3, <1>4
  <2>2. \A j \in 1..K : 0 + j = j
    OBVIOUS
  <2> QED  BY <1>1, <2>1, <2>2
<1>6. Holds(packet, packets, n, n + 1, p)
  BY <1>1, <1>3, <1>5 DEF Holds
<1> QED  BY <1>6

\* What is packed of the first n packets: reports that are full, and the one
\* that is being filled.
Packed(packing, packets, n) ==
  /\ packing \in Packing
  /\ Len(packing.current) <= ReportSize
  /\ \E cut : /\ Cuts(packing.reports, packets, cut)
              /\ cut[0] = 0 /\ cut[Len(packing.reports)] <= n
              /\ \E pos : Holds(packing.current, packets, cut[Len(packing.reports)], n, pos)

LEMMA PackStep ==
  ASSUME NEW packets \in Seq(Bytes), NEW n \in Nat, n + 1 <= Len(packets),
         ~(Len(packets[n + 1]) > ReportSize), NEW packing, Packed(packing, packets, n)
  PROVE  Packed(Pack(packing, packets[n + 1]), packets, n + 1)
<1> DEFINE packet == packets[n + 1]
           reports == packing.reports
           current == packing.current
           next == Pack(packing, packet)
<1>1. PICK N \in Nat : N = Len(packets)
  BY LenProperties
<1>2. n + 1 \in 1..N /\ n \in 0..N /\ n + 1 \in 0..N
  BY <1>1
<1>3. packet \in Bytes
  BY <1>1, <1>2, ElementOfSeq
<1>4. PICK K \in Nat, C \in Nat, L \in Nat :
        K = Len(packet) /\ C = Len(current) /\ L = Len(reports)
  <2>1. current \in Bytes /\ reports \in Seq(Bytes)
    BY DEF Packed, Packing
  <2> QED  BY <1>3, <2>1, ByteAt
<1>5. reports \in Seq(Bytes) /\ current \in Bytes /\ packing \in Packing
  BY DEF Packed, Packing
<1>6. PICK cut : /\ Cuts(reports, packets, cut) /\ cut[0] = 0 /\ cut[L] <= n
                 /\ \E pos : Holds(current, packets, cut[L], n, pos)
  BY <1>4 DEF Packed
<1>7. PICK pos : Holds(current, packets, cut[L], n, pos)
  BY <1>6
<1>8. ReportSize \in Nat /\ K <= ReportSize /\ C <= ReportSize
  <2>1. ReportSize \in Nat
    BY SizeAssumption
  <2>2. C <= ReportSize
    BY <1>4 DEF Packed
  <2>3. ~(K > ReportSize)
    BY <1>4
  <2> QED  BY <2>1, <2>2, <2>3
<1>9. cut[L] \in 0..N
  <2>1. cut \in [0..Len(reports) -> 0..Len(packets)]
    BY <1>6 DEF Cuts
  <2>2. L \in 0..L
    OBVIOUS
  <2> QED  BY <1>1, <1>4, <2>1, <2>2
<1>10. next \in Packing
  BY <1>3, <1>5, PackType
<1>11. CASE StartsNew(current, packet)
  <2> DEFINE more == Append(reports, current)
  <2>1. next.reports = more /\ next.current = packet
    BY <1>11 DEF Pack
  <2>2. C \in 1..ReportSize
    <3>1. current # << >>
      BY <1>11 DEF StartsNew
    <3>2. C # 0
      BY <1>4, <1>5, <3>1, EmptySeq DEF Bytes
    <3> QED  BY <1>8, <3>2
  <2>3. PICK c : Cuts(more, packets, c) /\ c[0] = cut[0] /\ c[L + 1] = n
    <3>1. /\ Len(packets) \in Nat /\ Len(current) \in 1..ReportSize
          /\ n \in 0..Len(packets) /\ cut[Len(reports)] <= n
      BY <1>1, <1>2, <1>4, <1>6, <2>2
    <3>2. Cuts(reports, packets, cut) /\ Holds(current, packets, cut[Len(reports)], n, pos)
      BY <1>4, <1>6, <1>7
    <3>3. \E c : /\ Cuts(Append(reports, current), packets, c)
                 /\ c[0] = cut[0] /\ c[Len(reports) + 1] = n
      <4>1. PICK all \in Seq(Bytes), here \in Bytes : all = reports /\ here = current
        BY <1>5
      <4> HIDE DEF reports, current, packet, next, more
      <4>2. /\ n \in 0..Len(packets) /\ Len(here) \in 1..ReportSize /\ Len(packets) \in Nat
            /\ cut[Len(all)] <= n
        BY <3>1, <4>1
      <4>3. Cuts(all, packets, cut) /\ Holds(here, packets, cut[Len(all)], n, pos)
        BY <3>2, <4>1
      <4>4. \E c : /\ Cuts(Append(all, here), packets, c)
                   /\ c[0] = cut[0] /\ c[Len(all) + 1] = n
        BY <4>2, <4>3, CutsGrow
      <4> QED  BY <4>1, <4>4
    <3> QED  BY <1>4, <3>3
  <2>4. \E p : Holds(packet, packets, n, n + 1, p)
    BY <1>3, HeldAlone
  <2>5. Len(more) = L + 1
    BY <1>4, <1>5
  <2> HIDE DEF more, next, packet
  <2>6. n <= n + 1 /\ Len(packet) <= ReportSize
    BY <1>4, <1>8
  <2>7. /\ Len(next.current) <= ReportSize
        /\ Cuts(next.reports, packets, c)
        /\ c[0] = 0 /\ c[Len(next.reports)] <= n + 1
        /\ \E p : Holds(next.current, packets, c[Len(next.reports)], n + 1, p)
    BY <1>6, <2>1, <2>3, <2>4, <2>5, <2>6
  <2>8. Packed(next, packets, n + 1)
    BY <1>10, <2>7 DEF Packed
  <2> QED  BY <2>8 DEF next, packet
<1>12. CASE ~StartsNew(current, packet)
  <2>1. next.reports = reports /\ next.current = current \o packet
    BY <1>5, <1>12 DEF Pack, Packing
  <2>2. \E p : Holds(current \o packet, packets, cut[L], n + 1, p)
    <3>1. cut[L] \in Nat /\ cut[L] <= n
      BY <1>6, <1>9
    <3> QED  BY <1>3, <1>5, <1>7, <3>1, HeldGrows
  <2>3. Len(current \o packet) <= ReportSize
    <3>1. Len(current \o packet) = C + K
      BY <1>3, <1>4, <1>5, ConcatProperties DEF Bytes
    <3>2. CASE current = << >>
      <4>1. C = 0
        BY <1>4, <3>2
      <4> QED  BY <1>8, <3>1, <4>1
    <3>3. CASE current # << >>
      <4>1. ~(C + K > ReportSize)
        BY <1>4, <1>12, <3>3 DEF StartsNew
      <4> QED  BY <1>8, <3>1, <4>1
    <3> QED  BY <3>2, <3>3
  <2>4. cut[L] <= n + 1
    <3>1. PICK k \in Nat : k = cut[L]
      BY <1>9
    <3>2. k <= n
      BY <1>6, <3>1
    <3>3. k <= n + 1
      BY <3>2
    <3> QED  BY <3>1, <3>3
  <2> HIDE DEF next, packet
  <2>5. /\ Len(next.current) <= ReportSize
        /\ Cuts(next.reports, packets, cut)
        /\ cut[0] = 0 /\ cut[Len(next.reports)] <= n + 1
        /\ \E p : Holds(next.current, packets, cut[Len(next.reports)], n + 1, p)
    BY <1>4, <1>6, <2>1, <2>2, <2>3, <2>4
  <2>6. Packed(next, packets, n + 1)
    BY <1>10, <2>5 DEF Packed
  <2> QED  BY <2>6 DEF next, packet
<1> QED  BY <1>11, <1>12

\* pack_reports puts every packet into a report, in order and whole.
LEMMA PackHeld ==
  ASSUME NEW packets \in Seq(Packet), PackReports(packets).ok
  PROVE  /\ \A i \in DOMAIN packets : Len(packets[i]) <= ReportSize
         /\ PackReports(packets).value \in Seq(Bytes)
         /\ \E cut : /\ Cuts(PackReports(packets).value, packets, cut)
                     /\ cut[0] = 0
                     /\ cut[Len(PackReports(packets).value)] = Len(packets)
<1> DEFINE reports == PackReports(packets).value
<1>1. \A packet \in Packet : packet \in Bytes
  BY PacketWhole DEF Whole
<1>2. packets \in Seq(Bytes)
  <2>1. Packet \subseteq Bytes
    BY <1>1
  <2> QED  BY <2>1, SeqMonotonic
<1>3. PICK N \in Nat : N = Len(packets)
  BY LenProperties
<1>4. \A i \in DOMAIN packets : ~(Len(packets[i]) > ReportSize)
  BY <1>2, PackPackings
<1>5. PICK packing :
        /\ Packings(packets, packing)
        /\ reports = packing[Len(packets)].reports \o
                       IF packing[Len(packets)].current = << >> THEN << >>
                       ELSE <<packing[Len(packets)].current>>
  BY <1>2, PackPackings
<1>6. \A i \in DOMAIN packets : Len(packets[i]) <= ReportSize
  <2> SUFFICES ASSUME NEW i \in DOMAIN packets PROVE Len(packets[i]) <= ReportSize
    OBVIOUS
  <2>1. packets[i] \in Bytes
    BY <1>2
  <2>2. PICK k \in Nat : k = Len(packets[i])
    BY <2>1, ByteAt
  <2>3. ~(k > ReportSize)
    BY <1>4, <2>2
  <2> QED  BY <2>2, <2>3, SizeAssumption
<1> HIDE DEF reports
<1>7. /\ packing \in [0..N -> Packing]
      /\ packing[0] = [reports |-> << >>, current |-> << >>]
      /\ \A n \in 1..N : packing[n] = Pack(packing[n - 1], packets[n])
  BY <1>3, <1>5 DEF Packings
<1> DEFINE T == {n \in Nat : n <= N => Packed(packing[n], packets, n)}
<1>8. 0 \in T
  <2>1. packing[0].reports = << >> /\ packing[0].current = << >> /\ packing[0] \in Packing
    BY <1>7, FirstPacking
  <2>2. Len(packing[0].reports) = 0 /\ Len(packing[0].current) = 0
    BY <2>1
  <2> DEFINE none == [k \in 0..0 |-> 0]
  <2>3. none \in [0..0 -> 0..Len(packets)] /\ none[0] = 0
    BY <1>3
  <2>4. Cuts(packing[0].reports, packets, none)
    BY <2>2, <2>3 DEF Cuts
  <2>5. Holds(packing[0].current, packets, 0, 0, none)
    <3>1. none \in [0..0 -> 0..0]
      OBVIOUS
    <3> QED  BY <2>2, <2>3, <3>1 DEF Holds
  <2> HIDE DEF none
  <2>6. 0 <= ReportSize
    BY SizeAssumption
  <2>7. Packed(packing[0], packets, 0)
    <3>1. Cuts(packing[0].reports, packets, none) /\ none[0] = 0
          /\ none[Len(packing[0].reports)] <= 0
          /\ \E pos : Holds(packing[0].current, packets, none[Len(packing[0].reports)], 0, pos)
      BY <2>2, <2>3, <2>4, <2>5
    <3> QED  BY <2>1, <2>2, <2>6, <3>1 DEF Packed
  <2> QED  BY <2>7
<1>9. ASSUME NEW n \in Nat, n \in T PROVE n + 1 \in T
  <2> SUFFICES ASSUME n + 1 <= N PROVE Packed(packing[n + 1], packets, n + 1)
    OBVIOUS
  <2>1. n + 1 \in 1..N /\ (n + 1) - 1 = n /\ Packed(packing[n], packets, n)
    BY <1>9
  <2>2. packing[n + 1] = Pack(packing[n], packets[n + 1])
    BY <1>7, <2>1
  <2>3. ~(Len(packets[n + 1]) > ReportSize)
    <3>1. n + 1 \in DOMAIN packets
      BY <1>3, <2>1
    <3> QED  BY <1>4, <3>1
  <2> QED  BY <1>2, <1>3, <2>1, <2>2, <2>3, PackStep
<1>10. Packed(packing[N], packets, N)
  <2>1. Nat \subseteq T
    <3> HIDE DEF T
    <3> QED  BY <1>8, <1>9, NatInduct
  <2> QED  BY <2>1
<1> DEFINE full == packing[N].reports
           current == packing[N].current
<1>11. /\ full \in Seq(Bytes) /\ current \in Bytes
       /\ Len(current) <= ReportSize
  BY <1>10 DEF Packed, Packing
<1>12. PICK cut : /\ Cuts(full, packets, cut) /\ cut[0] = 0 /\ cut[Len(full)] <= N
                  /\ \E pos : Holds(current, packets, cut[Len(full)], N, pos)
  BY <1>10 DEF Packed
<1>13. PICK pos : Holds(current, packets, cut[Len(full)], N, pos)
  BY <1>12
<1>14. reports = full \o IF current = << >> THEN << >> ELSE <<current>>
  BY <1>3, <1>5
<1>15. PICK L \in Nat, C \in Nat : L = Len(full) /\ C = Len(current)
  BY <1>11, ByteAt
<1> HIDE DEF full, current
<1>16. cut[L] \in 0..N
  BY <1>3, <1>12, <1>15 DEF Cuts
<1>17. CASE current = << >>
  <2>1. reports = full
    BY <1>11, <1>14, <1>17, ConcatEmptySeq
  <2>2. cut[L] = N
    <3> SUFFICES ASSUME cut[L] < N PROVE FALSE
      BY <1>16
    <3>1. C = 0
      BY <1>15, <1>17
    <3>2. PICK k \in Nat : k = cut[L] /\ k + 1 <= N
      BY <1>16
    <3>3. /\ pos \in [k..N -> 0..0]
          /\ \A i \in k + 1..N : pos[i] = pos[i - 1] + Len(packets[i])
      BY <1>13, <1>15, <3>1, <3>2 DEF Holds
    <3>4. k + 1 \in k + 1..N /\ k + 1 \in k..N /\ (k + 1) - 1 \in k..N
      BY <3>2
    <3>5. pos[k + 1] = pos[(k + 1) - 1] + Len(packets[k + 1])
      BY <3>3, <3>4
    <3>6. pos[k + 1] = 0 /\ pos[(k + 1) - 1] = 0
      BY <3>3, <3>4
    <3>7. PICK K \in Nat : K = Len(packets[k + 1]) /\ K >= 2
      <4>1. k + 1 \in 1..Len(packets)
        BY <1>3, <3>2
      <4>2. packets[k + 1] \in Packet
        BY <4>1, ElementOfSeq
      <4>3. Len(packets[k + 1]) >= 2 /\ packets[k + 1] \in Bytes
        BY <4>2, PacketWhole DEF Whole
      <4> QED  BY <4>3, ByteAt
    <3> QED  BY <3>5, <3>6, <3>7
  <2>3. /\ \A i \in DOMAIN packets : Len(packets[i]) <= ReportSize
        /\ reports \in Seq(Bytes)
        /\ Cuts(reports, packets, cut) /\ cut[0] = 0 /\ cut[Len(reports)] = Len(packets)
    BY <1>3, <1>6, <1>11, <1>12, <1>15, <2>1, <2>2
  <2> QED  BY <2>3 DEF reports
<1>18. CASE current # << >>
  <2>1. reports = Append(full, current)
    BY <1>11, <1>14, <1>18
  <2>2. C \in 1..ReportSize
    <3>1. C # 0
      BY <1>11, <1>15, <1>18, EmptySeq DEF Bytes
    <3>2. C <= ReportSize
      BY <1>11, <1>15
    <3> QED  BY <3>1, <3>2, SizeAssumption
  <2>3. PICK c : Cuts(Append(full, current), packets, c) /\ c[0] = cut[0] /\ c[L + 1] = N
    <3>1. /\ Len(packets) \in Nat /\ Len(current) \in 1..ReportSize
          /\ N \in 0..Len(packets) /\ cut[Len(full)] <= N
      BY <1>3, <1>12, <1>15, <2>2
    <3>2. \E c : /\ Cuts(Append(full, current), packets, c)
                 /\ c[0] = cut[0] /\ c[Len(full) + 1] = N
      BY <1>11, <1>12, <1>13, <3>1, CutsGrow
    <3> QED  BY <1>15, <3>2
  <2>4. Append(full, current) \in Seq(Bytes) /\ Len(Append(full, current)) = L + 1
    BY <1>11, <1>15
  <2>5. /\ \A i \in DOMAIN packets : Len(packets[i]) <= ReportSize
        /\ reports \in Seq(Bytes)
        /\ Cuts(reports, packets, c) /\ c[0] = 0 /\ c[Len(reports)] = Len(packets)
    BY <1>3, <1>6, <1>12, <2>1, <2>3, <2>4
  <2> QED  BY <2>5 DEF reports
<1> QED  BY <1>17, <1>18

-----------------------------------------------------------------------------
(* The batch on its way *)

\* The reports that still fly hold the packets that are still to come.
Sending ==
  /\ sent \in Seq(Packet)
  /\ \A i \in DOMAIN sent : Len(sent[i]) <= ReportSize
  /\ flying \in Seq(Bytes)
  /\ \E cut : /\ Cuts(flying, sent, cut) /\ cut[Len(flying)] = Len(sent)
              /\ got = SubSeq(sent, 1, cut[0])

\* The inductive invariant.
ReportsInv ==
  /\ line = "idle" => got = << >>
  /\ line = "sending" => Sending

LEMMA BatchesSeq == Batches \subseteq Seq(Packet)
<1> SUFFICES ASSUME NEW packets \in Batches PROVE packets \in Seq(Packet)
  OBVIOUS
<1>1. PICK n \in 0..MaxBatch : packets \in [1..n -> Packet]
  BY DEF Batches
<1>2. n \in Nat
  BY BatchAssumption
<1>3. packets = [i \in 1..n |-> packets[i]] /\ \A i \in 1..n : packets[i] \in Packet
  BY <1>1
<1>4. [i \in 1..n |-> packets[i]] \in Seq(Packet)
  BY <1>2, <1>3, IsASeq
<1> QED  BY <1>3, <1>4

LEMMA SendKeeps ==
  ASSUME ReportsInv, SendPackets
  PROVE  ReportsInv'
<1>1. PICK packets \in Batches :
        /\ sent' = packets /\ flying' = PackReports(packets).value
        /\ line' = IF PackReports(packets).ok THEN "sending" ELSE "refused"
  BY DEF SendPackets
<1>2. packets \in Seq(Packet) /\ got = << >> /\ got' = got
  BY BatchesSeq DEF SendPackets, ReportsInv
<1>3. CASE PackReports(packets).ok
  <2> DEFINE reports == PackReports(packets).value
  <2>1. /\ \A i \in DOMAIN packets : Len(packets[i]) <= ReportSize
        /\ reports \in Seq(Bytes)
        /\ \E cut : Cuts(reports, packets, cut) /\ cut[0] = 0 /\ cut[Len(reports)] = Len(packets)
    BY <1>2, <1>3, PackHeld
  <2> HIDE DEF reports
  <2>2. PICK cut : Cuts(reports, packets, cut) /\ cut[0] = 0 /\ cut[Len(reports)] = Len(packets)
    BY <2>1
  <2>3. SubSeq(packets, 1, cut[0]) = << >>
    BY <2>2, SubSeqEmpty
  <2>4. flying' = reports /\ sent' = packets /\ got' = << >>
    BY <1>1, <1>2 DEF reports
  <2>5. \E c : /\ Cuts(flying', sent', c) /\ c[Len(flying')] = Len(sent')
               /\ got' = SubSeq(sent', 1, c[0])
    BY <2>2, <2>3, <2>4
  <2>6. Sending'
    BY <1>2, <2>1, <2>4, <2>5 DEF Sending
  <2> QED  BY <1>1, <1>3, <2>6 DEF ReportsInv
<1>4. CASE ~PackReports(packets).ok
  BY <1>1, <1>4 DEF ReportsInv
<1> QED  BY <1>3, <1>4

LEMMA ReceiveKeeps ==
  ASSUME ReportsInv, ReceiveReport
  PROVE  ReportsInv'
<1>1. /\ sent \in Seq(Packet) /\ \A i \in DOMAIN sent : Len(sent[i]) <= ReportSize
      /\ flying \in Seq(Bytes) /\ flying # << >>
      /\ flying' = Tail(flying) /\ sent' = sent /\ line' = "sending"
      /\ got' = got \o SplitReport(Padded(Head(flying))).value
  BY DEF ReportsInv, ReceiveReport, Sending
<1>2. PICK cut : /\ Cuts(flying, sent, cut) /\ cut[Len(flying)] = Len(sent)
                 /\ got = SubSeq(sent, 1, cut[0])
  BY DEF ReportsInv, ReceiveReport, Sending
<1>3. PICK c : /\ Cuts(Tail(flying), sent, c)
               /\ c[0] = cut[1] /\ c[Len(Tail(flying))] = cut[Len(flying)]
  BY <1>1, <1>2, CutsTail
<1>4. PICK F \in Nat, N \in Nat : F = Len(flying) /\ N = Len(sent) /\ F >= 1
  <2>1. Len(flying) \in Nat \ {0} /\ Len(sent) \in Nat
    BY <1>1, EmptySeq, LenProperties
  <2> QED  BY <2>1
<1> DEFINE report == Head(flying)
<1>5. report = flying[1] /\ report \in Bytes
  BY <1>1, HeadTailProperties
<1>6. cut \in [0..F -> 0..N]
  BY <1>2, <1>4 DEF Cuts
<1>7. PICK a \in 0..N, b \in 0..N : a = cut[0] /\ b = cut[1]
  BY <1>4, <1>6
<1>8. /\ cut[1 - 1] <= cut[1] /\ Len(flying[1]) \in 1..ReportSize
      /\ \E pos : Holds(flying[1], sent, cut[1 - 1], cut[1], pos)
  <2>1. 1 \in 1..Len(flying)
    BY <1>4
  <2> QED  BY <1>2, <2>1 DEF Cuts
<1> HIDE DEF report
<1>9. a <= b /\ Len(report) \in 1..ReportSize
      /\ \E pos : Holds(report, sent, a, b, pos)
  <2>1. 1 - 1 = 0
    OBVIOUS
  <2> QED  BY <1>5, <1>7, <1>8, <2>1
<1>10. PICK pos : Holds(report, sent, a, b, pos)
  BY <1>9
<1>11. PICK m \in Nat : b = a + m
  <2>1. b - a \in Nat /\ b = a + (b - a)
    BY <1>9
  <2> QED  BY <2>1
<1>12. SplitReport(Padded(report)) = Ok(SubSeq(sent, a + 1, a + m))
  <2>1. a \in Nat /\ a + m <= Len(sent) /\ Len(report) <= ReportSize
    <3>1. a + m <= Len(sent)
      BY <1>4, <1>11
    <3>2. Len(report) <= ReportSize
      BY <1>9, SizeAssumption
    <3> QED  BY <3>1, <3>2
  <2>2. Holds(report, sent, a, a + m, pos)
    BY <1>10, <1>11
  <2> QED  BY <1>1, <1>5, <2>1, <2>2, SplitHeld
<1>13. got' = SubSeq(sent, 1, a) \o SubSeq(sent, a + 1, a + m)
  <2>1. SplitReport(Padded(report)).value = SubSeq(sent, a + 1, a + m)
    BY <1>12 DEF Ok
  <2> QED  BY <1>1, <1>2, <1>7, <2>1 DEF report
<1>14. SubSeq(sent, 1, a) \o SubSeq(sent, a + 1, a + m) = SubSeq(sent, 1, a + m)
  <2> DEFINE first == SubSeq(sent, 1, a)
             second == SubSeq(sent, a + 1, a + m)
             both == SubSeq(sent, 1, a + m)
  <2>1. \A i \in 1..a + m : sent[i] \in Packet
    <3>1. \A i \in 1..a + m : i \in 1..Len(sent)
      BY <1>4, <1>11
    <3> QED  BY <1>1, <3>1, ElementOfSeq
  <2>2. first \in Seq(Packet) /\ Len(first) = a /\ \A i \in 1..a : first[i] = sent[i]
    <3>1. \A i \in 1..a : sent[i] \in Packet
      BY <2>1
    <3>2. /\ first \in Seq(Packet)
          /\ Len(first) = IF 1 <= a THEN a - 1 + 1 ELSE 0
          /\ \A i \in 1..a - 1 + 1 : first[i] = sent[1 + i - 1]
      BY <3>1, SubSeqProperties
    <3>3. a - 1 + 1 = a /\ \A i \in 1..a : 1 + i - 1 = i
      OBVIOUS
    <3> HIDE DEF first
    <3> QED  BY <3>2, <3>3
  <2>3. second \in Seq(Packet) /\ Len(second) = m /\ \A i \in 1..m : second[i] = sent[a + i]
    <3>1. \A i \in a + 1..a + m : sent[i] \in Packet
      BY <2>1
    <3>2. /\ second \in Seq(Packet)
          /\ Len(second) = IF a + 1 <= a + m THEN a + m - (a + 1) + 1 ELSE 0
          /\ \A i \in 1..a + m - (a + 1) + 1 : second[i] = sent[a + 1 + i - 1]
      BY <3>1, SubSeqProperties
    <3>3. a + m - (a + 1) + 1 = m /\ \A i \in 1..m : a + 1 + i - 1 = a + i
      OBVIOUS
    <3>4. m = IF a + 1 <= a + m THEN m ELSE 0
      OBVIOUS
    <3> HIDE DEF second
    <3>5. Len(second) = IF a + 1 <= a + m THEN m ELSE 0
      BY <3>2, <3>3
    <3>6. \A i \in 1..m : second[i] = sent[a + i]
      BY <3>2, <3>3
    <3> QED  BY <3>2, <3>4, <3>5, <3>6
  <2>4. both \in Seq(Packet) /\ Len(both) = a + m /\ \A i \in 1..a + m : both[i] = sent[i]
    <3>1. /\ both \in Seq(Packet)
          /\ Len(both) = IF 1 <= a + m THEN a + m - 1 + 1 ELSE 0
          /\ \A i \in 1..a + m - 1 + 1 : both[i] = sent[1 + i - 1]
      BY <2>1, SubSeqProperties
    <3>2. a + m - 1 + 1 = a + m /\ \A i \in 1..a + m : 1 + i - 1 = i
      OBVIOUS
    <3> HIDE DEF both
    <3> QED  BY <3>1, <3>2
  <2> HIDE DEF first, second, both
  <2>5. /\ first \o second \in Seq(Packet) /\ Len(first \o second) = a + m
        /\ \A i \in 1..a + m :
             (first \o second)[i] = IF i <= a THEN first[i] ELSE second[i - a]
    <3>1. /\ first \o second \in Seq(Packet)
          /\ Len(first \o second) = Len(first) + Len(second)
          /\ \A i \in 1..Len(first) + Len(second) :
               (first \o second)[i] = IF i <= Len(first) THEN first[i] ELSE second[i - Len(first)]
      BY <2>2, <2>3, ConcatProperties
    <3> QED  BY <2>2, <2>3, <3>1
  <2>6. \A i \in 1..a + m : (first \o second)[i] = both[i]
    <3> SUFFICES ASSUME NEW i \in 1..a + m PROVE (first \o second)[i] = both[i]
      OBVIOUS
    <3>1. CASE i <= a
      <4>1. i \in 1..a
        BY <3>1
      <4> QED  BY <2>2, <2>4, <2>5, <3>1, <4>1
    <3>2. CASE ~(i <= a)
      <4>1. i - a \in 1..m /\ a + (i - a) = i
        BY <3>2
      <4>2. second[i - a] = sent[a + (i - a)]
        BY <2>3, <4>1
      <4> QED  BY <2>4, <2>5, <3>2, <4>1, <4>2
    <3> QED  BY <3>1, <3>2
  <2>7. first \o second = both
    BY <2>4, <2>5, <2>6, SeqEqual
  <2> QED  BY <2>7 DEF first, second, both
<1>15. Tail(flying) \in Seq(Bytes)
  BY <1>1, HeadTailProperties
<1>16. got' = SubSeq(sent, 1, c[0])
  BY <1>3, <1>7, <1>11, <1>13, <1>14
<1>17. Sending'
  <2>1. Cuts(flying', sent', c) /\ c[Len(flying')] = Len(sent') /\ got' = SubSeq(sent', 1, c[0])
    BY <1>1, <1>2, <1>3, <1>16
  <2> QED  BY <1>1, <1>15, <2>1 DEF Sending
<1> QED  BY <1>1, <1>17 DEF ReportsInv

LEMMA NoiseKeeps ==
  ASSUME ReportsInv, ReceiveNoise
  PROVE  ReportsInv'
BY DEF ReceiveNoise, ReportsInv

\* Along every behaviour the reports in flight hold the packets to come.
THEOREM ReportsSound == ReportsSpec => []ReportsInv
<1>1. InitReports => ReportsInv
  BY DEF InitReports, ReportsInv
<1>2. ReportsInv /\ [NextReports]_reportVars => ReportsInv'
  <2> SUFFICES ASSUME ReportsInv, [NextReports]_reportVars
               PROVE  ReportsInv'
    OBVIOUS
  <2>1. CASE SendPackets
    BY <2>1, SendKeeps
  <2>2. CASE ReceiveReport
    BY <2>2, ReceiveKeeps
  <2>3. CASE ReceiveNoise
    BY <2>3, NoiseKeeps
  <2>4. CASE UNCHANGED reportVars
    BY <2>4 DEF reportVars, ReportsInv, Sending
  <2> QED  BY <2>1, <2>2, <2>3, <2>4 DEF NextReports
<1> QED  BY <1>1, <1>2, PTL DEF ReportsSpec

LEMMA SendingRoundTrip == ReportsInv => RoundTrip
<1> SUFFICES ASSUME Sending PROVE RoundTrip
  BY DEF ReportsInv, RoundTrip
<1>1. PICK cut : /\ Cuts(flying, sent, cut) /\ cut[Len(flying)] = Len(sent)
                 /\ got = SubSeq(sent, 1, cut[0])
  BY DEF Sending
<1>2. sent \in Seq(Packet) /\ flying \in Seq(Bytes)
  BY DEF Sending
<1>3. PICK F \in Nat, N \in Nat : F = Len(flying) /\ N = Len(sent)
  BY <1>2, LenProperties
<1>4. DOMAIN flying = 1..F
  BY <1>2, <1>3
<1>5. \A i \in DOMAIN flying : Len(flying[i]) \in 1..ReportSize
  BY <1>1, <1>3, <1>4 DEF Cuts
<1>6. PICK a \in 0..N : a = cut[0]
  <2>1. cut \in [0..F -> 0..N]
    BY <1>1, <1>3 DEF Cuts
  <2> QED  BY <2>1
<1>7. Len(got) = a
  <2>1. \A i \in 1..a : sent[i] \in Packet
    BY <1>2, <1>3, ElementOfSeq
  <2>2. Len(SubSeq(sent, 1, a)) = IF 1 <= a THEN a - 1 + 1 ELSE 0
    BY <2>1, SubSeqProperties
  <2> QED  BY <1>1, <1>6, <2>2
<1>8. Len(got) <= Len(sent) /\ got = SubSeq(sent, 1, Len(got))
  BY <1>1, <1>3, <1>6, <1>7
<1>9. ASSUME flying = << >> PROVE got = sent
  <2>1. F = 0
    BY <1>3, <1>9
  <2>2. got = SubSeq(sent, 1, Len(sent))
    BY <1>1, <1>3, <2>1
  <2> QED  BY <1>2, <2>2, SubSeqFull
<1>10. \A i \in DOMAIN sent : Len(sent[i]) <= ReportSize
  BY DEF Sending
<1> QED  BY <1>5, <1>8, <1>9, <1>10 DEF RoundTrip

\* A batch that is packed, padded and split again is the batch that was sent,
\* whatever its packets hold and however they share the reports.
THEOREM BatchArrives == ReportsSpec => []RoundTrip
BY ReportsSound, SendingRoundTrip, PTL

\* split_report accounts for every byte it does not refuse, for any report.
THEOREM NoiseSplit == ReportsSpec => []SplitsExactly
<1>1. InitReports => SplitsExactly
  BY DEF InitReports, SplitsExactly
<1>2. SplitsExactly /\ [NextReports]_reportVars => SplitsExactly'
  <2> SUFFICES ASSUME SplitsExactly, [NextReports]_reportVars
               PROVE  SplitsExactly'
    OBVIOUS
  <2>1. CASE SendPackets
    <3>1. line' # "noise"
      BY <2>1 DEF SendPackets
    <3> QED  BY <3>1 DEF SplitsExactly
  <2>2. CASE ReceiveReport
    <3>1. line' # "noise"
      BY <2>2 DEF ReceiveReport
    <3> QED  BY <3>1 DEF SplitsExactly
  <2>3. CASE ReceiveNoise
    <3> SUFFICES ASSUME line' = "noise" PROVE SplitsExactly'
      BY DEF SplitsExactly
    <3>1. PICK report \in Noise :
            /\ sent' = <<report>> /\ got' = SplitReport(report).value
            /\ line' = IF SplitReport(report).ok THEN "noise" ELSE "refused"
      BY <2>3 DEF ReceiveNoise
    <3>2. SplitReport(report).ok /\ report \in Bytes /\ sent'[1] = report
      BY <3>1, BytesAssumption
    <3> DEFINE packets == SplitReport(report).value
    <3>3. \E end \in [0..Len(packets) -> 0..Len(report)] :
            /\ end[0] = 0
            /\ \A i \in DOMAIN packets :
                 /\ packets[i] = SubSeq(report, end[i - 1] + 1, end[i])
                 /\ packets[i][1] # 0 /\ Len(packets[i]) = packets[i][2] + 2
            /\ end[Len(packets)] < Len(report) => report[end[Len(packets)] + 1] = 0
      BY <3>2, SplitExact
    <3>4. got' = packets
      BY <3>1
    <3> HIDE DEF packets
    <3>5. \E end \in [0..Len(got') -> 0..Len(sent'[1])] :
            /\ end[0] = 0
            /\ \A i \in DOMAIN got' :
                 /\ got'[i] = SubSeq(sent'[1], end[i - 1] + 1, end[i])
                 /\ got'[i][1] # 0 /\ Len(got'[i]) = got'[i][2] + 2
            /\ end[Len(got')] < Len(sent'[1]) => sent'[1][end[Len(got')] + 1] = 0
      BY <3>2, <3>3, <3>4
    <3> QED  BY <3>5, Zenon DEF SplitsExactly
  <2>4. CASE UNCHANGED reportVars
    BY <2>4 DEF reportVars, SplitsExactly
  <2> QED  BY <2>1, <2>2, <2>3, <2>4 DEF NextReports
<1> QED  BY <1>1, <1>2, PTL DEF ReportsSpec
=============================================================================
