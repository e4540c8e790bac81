--------------------------- MODULE CommunicationLog ---------------------------
(***************************************************************************)
(* CommunicationLog and the LoggedTransport that feeds it: which packets   *)
(* are printed, which are counted as repeats and when the repeats are      *)
(* summarised.  A packet has a key (direction, type and device) and a      *)
(* body; the table keeps one entry per key, the oldest leaving when there  *)
(* are too many.  report() is one synchronous call: RecordNext is the body *)
(* of its loop, and nothing else happens until the report is used up.      *)
(***************************************************************************)
EXTENDS Naturals, Sequences, FiniteSets

CONSTANTS
  Key,        \* direction, packet type and device
  Body,       \* contents of a packet
  Secret,     \* keys of 0x80 packets, whose contents are hidden
  Blank,      \* what a hidden body is replaced by
  InReport,   \* reports the panel sends, as sequences of packets
  OutReport,  \* reports the client writes
  Limit,      \* entries the table may hold (512 in the code)
  Repeat,     \* repeat_seconds, in ticks
  MaxPackets  \* bound on the packets of a behaviour

ASSUME KeyAssumption == Secret \subseteq Key /\ Blank \in Body
ASSUME LimitAssumption == Limit \in Nat \ {0}
ASSUME BoundAssumption == Repeat \in Nat /\ MaxPackets \in Nat
ASSUME ReportAssumption == InReport \cup OutReport \subseteq Seq([key : Key, body : Body])

VARIABLES
  seen,      \* the table: key -> packet, repeats not yet summarised, age, turn
  rest,      \* packets of the report being recorded
  unlogged,  \* reports written whose write() call has not gone on yet
  total,     \* packets recorded so far
  latest,    \* latest[k]: the last packet of key k, and its turn
  shown,     \* shown[k]: the last packet of key k printed in the log
  received,  \* received[p]: how often packet p was recorded
  accounted  \* accounted[p]: how often the log says packet p came

vars == <<seen, rest, unlogged, total, latest, shown, received, accounted>>
history == <<total, latest, shown, received, accounted>>

Packet == [key : Key, body : Body]
Entry == [packet : Packet, count : Nat, age : 0..Repeat, turn : Nat]

TypeOK ==
  /\ DOMAIN seen \subseteq Key
  /\ \A k \in DOMAIN seen : seen[k] \in Entry /\ seen[k].packet.key = k
  /\ rest \in Seq(Packet)
  /\ unlogged \subseteq OutReport
  /\ total \in Nat
  /\ latest \in [Key -> [body : Body, turn : Nat]]
  /\ shown \in [Key -> Body]
  /\ received \in [Packet -> Nat]
  /\ accounted \in [Packet -> Nat]

EmptyTable == [k \in {} |-> Blank]

Init ==
  /\ seen = EmptyTable
  /\ rest = << >>
  /\ unlogged = {}
  /\ total = 0
  /\ latest = [k \in Key |-> [body |-> Blank, turn |-> 0]]
  /\ shown = [k \in Key |-> Blank]
  /\ received = [p \in Packet |-> 0]
  /\ accounted = [p \in Packet |-> 0]

-----------------------------------------------------------------------------
(* The table *)

\* What is kept and printed of a packet: nothing of a 0x80 payload.
Safe(p) == IF p.key \in Secret THEN [p EXCEPT !.body = Blank] ELSE p

\* Repeats of p that no line of the log accounts for yet.
Pending(p) ==
  IF p.key \in DOMAIN seen /\ seen[p.key].packet = p THEN seen[p.key].count ELSE 0

\* Mutant of Unchanged: any packet of the key counts as a repeat.
AnyRepeat(p) == p.key \in DOMAIN seen /\ seen[p.key].age < Repeat

\* The packet is the same as the last one printed, and that not long ago.
Unchanged(p) ==
  /\ p.key \in DOMAIN seen
  /\ seen[p.key].packet = p
  /\ seen[p.key].age < Repeat

\* Mutant of Counted: the entry stays where it is in the table.
CountedInPlace(p) == [seen EXCEPT ![p.key].count = @ + 1]

\* The entry moves to the end of the table; its age runs on.
Counted(p) == [seen EXCEPT ![p.key].count = @ + 1, ![p.key].turn = total + 1]

\* The table with a new entry for p at its end.
Inserted(p) ==
  [k \in DOMAIN seen \cup {p.key} |->
     IF k = p.key
       THEN [packet |-> p, count |-> 0, age |-> 0, turn |-> total + 1]
       ELSE seen[k]]

\* Mutant of Evicted: the limit is never reached.
NothingEvicted(p) == {}

\* The oldest entry, when there is one too many after p has come.
Evicted(p) ==
  {k \in DOMAIN seen \ {p.key} :
     /\ Cardinality(DOMAIN seen \cup {p.key}) > Limit
     /\ \A j \in DOMAIN seen \ {p.key} : seen[k].turn <= seen[j].turn}

\* Mutant of Summarised: an entry that is evicted takes its repeats with it.
SummarisedOwn(p) == {p.key}

\* Keys whose pending repeats are summarised when p is printed.
Summarised(p) == {p.key} \cup Evicted(p)

Without(table, keys) == [k \in DOMAIN table \ keys |-> table[k]]

-----------------------------------------------------------------------------
(* report *)

Suppress(p) ==
  /\ Unchanged(p)
  /\ seen' = Counted(p)
  /\ UNCHANGED <<shown, accounted>>

Show(p) ==
  /\ ~Unchanged(p)
  /\ seen' = Without(Inserted(p), Evicted(p))
  /\ shown' = [shown EXCEPT ![p.key] = p.body]
  /\ accounted' = [q \in Packet |->
       accounted[q] + (IF q = p THEN 1 ELSE 0)
                    + (IF q.key \in Summarised(p) THEN Pending(q) ELSE 0)]

Record(p) ==
  /\ total' = total + 1
  /\ received' = [received EXCEPT ![p] = @ + 1]
  /\ latest' = [latest EXCEPT ![p.key] = [body |-> p.body, turn |-> total + 1]]
  /\ Suppress(p) \/ Show(p)

RecordNext ==
  /\ rest # << >>
  /\ Record(Safe(Head(rest)))
  /\ rest' = Tail(rest)
  /\ UNCHANGED unlogged

\* Mutant of Older: the age is not bounded.
OlderStill(a) == a + 1

\* One tick of the monotonic clock, which any call may find passed.
Older(a) == IF a < Repeat THEN a + 1 ELSE a

Tick ==
  /\ rest = << >>
  /\ \E k \in DOMAIN seen : seen[k].age < Repeat
  /\ seen' = [k \in DOMAIN seen |-> [seen[k] EXCEPT !.age = Older(@)]]
  /\ UNCHANGED <<rest, unlogged, history>>

-----------------------------------------------------------------------------
(* LoggedTransport *)

\* The bound on the packets of a behaviour.
Fits(r) == total + Len(r) <= MaxPackets

\* read() has a report: it is logged before the client sees it.  A report
\* that cannot be split is noted with its length only.
ReadLogged ==
  /\ rest = << >>
  /\ \E r \in InReport : Fits(r) /\ rest' = r
  /\ UNCHANGED <<seen, unlogged, history>>

\* The transport has written a report; the call of write() goes on later.
Written ==
  /\ rest = << >>
  /\ \E r \in OutReport : unlogged' = unlogged \cup {r}
  /\ UNCHANGED <<seen, rest, history>>

\* write() goes on and logs the report...
WriteLogged ==
  /\ rest = << >>
  /\ \E r \in unlogged : Fits(r) /\ rest' = r /\ unlogged' = unlogged \ {r}
  /\ UNCHANGED <<seen, history>>

\* ...unless its task is cancelled first, which leaves no line.
WriteCancelled ==
  /\ rest = << >>
  /\ \E r \in unlogged : unlogged' = unlogged \ {r}
  /\ UNCHANGED <<seen, rest, history>>

\* close() summarises what is pending and empties the table.
Flush ==
  /\ rest = << >>
  /\ DOMAIN seen # {}
  /\ accounted' = [q \in Packet |-> accounted[q] + Pending(q)]
  /\ seen' = EmptyTable
  /\ UNCHANGED <<rest, unlogged, total, latest, shown, received>>

Next ==
  \/ RecordNext
  \/ Tick
  \/ ReadLogged
  \/ Written
  \/ WriteLogged
  \/ WriteCancelled
  \/ Flush

Spec == Init /\ [][Next]_vars

-----------------------------------------------------------------------------
(* Properties *)

\* "Repeated unchanged packets are summarized": at every moment the lines of the
\* log, with the repeats still pending, account for every packet recorded, no
\* more and no less, whatever is evicted, flushed or has grown old.
Conserved ==
  \A p \in Packet : received[p] = accounted[p] + Pending(p)

\* "Changes (including A -> B -> A) are always logged": of every key, the last
\* packet printed is the last packet recorded.
LogShowsLatest == \A k \in Key : shown[k] = latest[k].body

\* The table holds the keys heard last: no key outside it was heard after one
\* inside it, also when most packets were only counted.
RecentKept ==
  \A k \in DOMAIN seen, j \in Key \ DOMAIN seen : latest[j].turn < latest[k].turn

\* The table never holds more entries than its limit.
TableBound == Cardinality(DOMAIN seen) <= Limit
=============================================================================
