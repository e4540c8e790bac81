------------------------------- MODULE Reports -------------------------------
(***************************************************************************)
(* protocol.py: packets (type, length, data) batched into HID reports of   *)
(* at most ReportSize bytes and split again.  Bytes are numbers.  A result *)
(* is [ok, value]; ok = FALSE stands for ProtocolError.                    *)
(***************************************************************************)
EXTENDS Naturals, Sequences

CONSTANTS
  ReportSize,    \* STREAM_PACKET_SIZE, 64 in the code
  PacketType,    \* the first bytes of packets, never zero
  Data,          \* what packets carry
  Noise,         \* reports that may arrive, whatever they hold
  MaxBatch       \* bound on the packets of a batch in the checks

Byte == 0..255
Bytes == Seq(Byte)

ASSUME SizeAssumption == ReportSize \in 2..257
ASSUME BytesAssumption ==
  PacketType \subseteq 1..255 /\ Data \subseteq Bytes /\ Noise \subseteq Bytes
ASSUME BatchAssumption == MaxBatch \in Nat

Ok(value) == [ok |-> TRUE, value |-> value]
ProtocolError == [ok |-> FALSE, value |-> << >>]

CreatePacket(type, data) ==
  IF Len(data) > 255 THEN ProtocolError ELSE Ok(<<type, Len(data)>> \o data)

\* The length byte of the packet at start is not in the report.
HeaderMissing(report, start) == start + 1 > Len(report)

\* Mutant of PacketEnd: one byte too many goes with the packet.
PacketEndLong(report, start) == start + report[start + 1] + 2

\* The last byte of the packet at start: type, length and data.
PacketEnd(report, start) == start + report[start + 1] + 1

\* The loop of split_report is over: refused, at the end, or at a zero byte.
Over(report, scan) ==
  ~scan.ok \/ scan.start > Len(report) \/ report[scan.start] = 0

\* One packet split off, or none that is whole.
Split(report, scan) ==
  IF Over(report, scan) THEN scan
  ELSE IF HeaderMissing(report, scan.start) THEN [scan EXCEPT !.ok = FALSE]
  ELSE LET end == PacketEnd(report, scan.start)
       IN IF end > Len(report) THEN [scan EXCEPT !.ok = FALSE]
          ELSE [scan EXCEPT !.packets = Append(@, SubSeq(report, scan.start, end)),
                            !.start = end + 1]

\* Every packet takes at least one byte, so that many rounds are enough.
SplitReport(report) ==
  LET scan[n \in 0..Len(report)] ==
        IF n = 0 THEN [packets |-> << >>, start |-> 1, ok |-> TRUE]
        ELSE Split(report, scan[n - 1])
      last == scan[Len(report)]
  IN IF last.ok THEN Ok(last.packets) ELSE ProtocolError

\* Mutant of StartsNew: a packet may share a report it does not fit into.
StartsNewLate(current, packet) == Len(current) > ReportSize

\* The packet does not fit behind the others of the report.
StartsNew(current, packet) ==
  current # << >> /\ Len(current) + Len(packet) > ReportSize

\* One packet of the batch: one report is filled at a time.
Pack(packing, packet) ==
  IF StartsNew(packing.current, packet)
    THEN [reports |-> Append(packing.reports, packing.current), current |-> packet]
    ELSE [packing EXCEPT !.current = @ \o packet]

\* One oversized packet refuses the whole batch before anything is written.
PackReports(packets) ==
  LET packing[n \in 0..Len(packets)] ==
        IF n = 0 THEN [reports |-> << >>, current |-> << >>]
        ELSE Pack(packing[n - 1], packets[n])
      packed == packing[Len(packets)]
  IN IF \E i \in DOMAIN packets : Len(packets[i]) > ReportSize THEN ProtocolError
     ELSE Ok(packed.reports \o
             IF packed.current = << >> THEN << >> ELSE <<packed.current>>)

\* What the device driver adds on the way: a report always has its full size.
Padded(report) == report \o [i \in 1..ReportSize - Len(report) |-> 0]

-----------------------------------------------------------------------------
(* A batch on its way, and bytes that come from anywhere *)

VARIABLES
  sent,    \* the packets of the batch
  flying,  \* its reports that are not split yet
  got,     \* the packets split so far
  line     \* "idle", "sending", "refused", or "noise" for unknown bytes

reportVars == <<sent, flying, got, line>>

InitReports == sent = << >> /\ flying = << >> /\ got = << >> /\ line = "idle"

\* The packets create_packet does not refuse.
Packet ==
  LET results == {CreatePacket(type, data) : type \in PacketType, data \in Data}
  IN {result.value : result \in {r \in results : r.ok}}

Batches == UNION {[1..n -> Packet] : n \in 0..MaxBatch}

SendPackets ==
  /\ line = "idle"
  /\ \E packets \in Batches :
       /\ sent' = packets
       /\ flying' = PackReports(packets).value
       /\ line' = IF PackReports(packets).ok THEN "sending" ELSE "refused"
  /\ UNCHANGED got

ReceiveReport ==
  /\ line = "sending" /\ flying # << >>
  /\ got' = got \o SplitReport(Padded(Head(flying))).value
  /\ flying' = Tail(flying)
  /\ UNCHANGED <<sent, line>>

ReceiveNoise ==
  /\ line = "idle"
  /\ \E report \in Noise :
       /\ sent' = <<report>>
       /\ got' = SplitReport(report).value
       /\ line' = IF SplitReport(report).ok THEN "noise" ELSE "refused"
  /\ UNCHANGED flying

NextReports == SendPackets \/ ReceiveReport \/ ReceiveNoise

ReportsSpec == InitReports /\ [][NextReports]_reportVars

-----------------------------------------------------------------------------
(* Properties *)

\* A batch is sent unless a packet is too long; its reports fit the device, and
\* splitting them, padding included, gives the packets in their order.
RoundTrip ==
  line = "sending" =>
    /\ \A i \in DOMAIN sent : Len(sent[i]) <= ReportSize
    /\ \A i \in DOMAIN flying : Len(flying[i]) \in 1..ReportSize
    /\ Len(got) <= Len(sent) /\ got = SubSeq(sent, 1, Len(got))
    /\ flying = << >> => got = sent

\* Whatever bytes arrive, split_report refuses them or accounts for all: its
\* packets, each as long as it says, and then nothing or a zero byte.
SplitsExactly ==
  line = "noise" =>
    LET report == sent[1]
    IN \E end \in [0..Len(got) -> 0..Len(report)] :
         /\ end[0] = 0
         /\ \A i \in DOMAIN got : /\ got[i] = SubSeq(report, end[i - 1] + 1, end[i])
                                 /\ got[i][1] # 0 /\ Len(got[i]) = got[i][2] + 2
         /\ end[Len(got)] < Len(report) => report[end[Len(got)] + 1] = 0
=============================================================================
