------------------------ MODULE CommunicationLogProofs ------------------------
(***************************************************************************)
(* The log accounts for every packet, shows the last packet of every key   *)
(* and keeps the keys heard last within its limit: for any keys, bodies,   *)
(* reports, limit, repeat time and number of packets.                      *)
(***************************************************************************)
EXTENDS CommunicationLog, FiniteSetTheorems, SequenceTheorems,
        WellFoundedInduction, TLAPS

USE KeyAssumption, LimitAssumption, BoundAssumption

\* An entry of the table agrees with the log and with its key's last packet.
EntriesAgree ==
  \A k \in DOMAIN seen :
    /\ seen[k].packet.body = shown[k]
    /\ seen[k].turn = latest[k].turn
    /\ seen[k].turn > 0

\* Turns are given once each, in the order of the packets.
TurnsApart ==
  /\ \A k \in Key : latest[k].turn <= total
  /\ \A j, k \in Key : j # k /\ latest[j].turn > 0 => latest[j].turn # latest[k].turn

LogInv ==
  /\ TypeOK
  /\ IsFiniteSet(DOMAIN seen)
  /\ EntriesAgree
  /\ TurnsApart
  /\ Conserved
  /\ LogShowsLatest
  /\ RecentKept
  /\ TableBound

\* A set of keys in the table has an oldest one.
LEMMA Oldest ==
  ASSUME TypeOK, NEW S \in SUBSET (DOMAIN seen), S # {}
  PROVE  \E k \in S : \A j \in S : seen[k].turn <= seen[j].turn
<1> DEFINE turns == {seen[k].turn : k \in S}
<1>1. turns \subseteq Nat /\ turns # {}
  BY DEF TypeOK, Entry
<1>2. IsWellFoundedOn(OpToRel(<, Nat), Nat)
  BY NatLessThanWellFounded
<1>3. PICK x \in turns : \A y \in turns : <<y, x>> \notin OpToRel(<, Nat)
  BY <1>1, <1>2, WFMin
<1>4. ASSUME NEW y \in turns PROVE x <= y
  <2>1. x \in Nat /\ y \in Nat
    BY <1>1
  <2>2. y < x => <<y, x>> \in OpToRel(<, Nat)
    BY <2>1 DEF OpToRel
  <2>3. ~(y < x)
    BY <1>3, <2>2
  <2> QED
    BY <2>1, <2>3
<1> QED
  BY <1>4

\* Only the packet of a recorded report changes anything but the table's ages.
LEMMA SafePacket == ASSUME NEW p \in Packet PROVE Safe(p) \in Packet
  BY DEF Safe, Packet

\* The parts of packets and entries.
LEMMA PacketParts == ASSUME NEW p \in Packet PROVE p.key \in Key /\ p.body \in Body
  BY DEF Packet

LEMMA EntryParts ==
  ASSUME NEW e \in Entry
  PROVE  /\ e = [packet |-> e.packet, count |-> e.count, age |-> e.age, turn |-> e.turn]
         /\ e.packet \in Packet /\ e.count \in Nat
         /\ e.age \in 0..Repeat /\ e.turn \in Nat
  BY DEF Entry

LEMMA MakeEntry ==
  ASSUME NEW p \in Packet, NEW c \in Nat, NEW a \in 0..Repeat, NEW t \in Nat
  PROVE  [packet |-> p, count |-> c, age |-> a, turn |-> t] \in Entry
  BY DEF Entry

-----------------------------------------------------------------------------
(* One packet is recorded *)

LEMMA SuppressKeeps ==
  ASSUME LogInv, NEW p \in Packet, Record(p), Suppress(p),
         rest' \in Seq(Packet), unlogged' \subseteq OutReport
  PROVE  LogInv'
<1>1. /\ p.key \in DOMAIN seen
      /\ seen[p.key].packet = p
      /\ DOMAIN seen' = DOMAIN seen
      /\ \A k \in DOMAIN seen \ {p.key} : seen'[k] = seen[k]
      /\ seen'[p.key] = [seen[p.key] EXCEPT !.count = @ + 1, !.turn = total + 1]
  BY DEF Suppress, Unchanged, Counted, LogInv, TypeOK
<1>2. /\ total' = total + 1
      /\ received' = [received EXCEPT ![p] = @ + 1]
      /\ latest' = [latest EXCEPT ![p.key] = [body |-> p.body, turn |-> total + 1]]
      /\ UNCHANGED <<shown, accounted>>
  BY DEF Record, Suppress
<1>3. /\ TypeOK
      /\ total \in Nat
      /\ p.key \in Key /\ p.body \in Body
      /\ latest \in [Key -> [body : Body, turn : Nat]]
      /\ received \in [Packet -> Nat]
      /\ accounted \in [Packet -> Nat]
      /\ DOMAIN seen \subseteq Key
      /\ \A k \in DOMAIN seen : seen[k].count \in Nat /\ seen[k].turn \in Nat
  BY PacketParts, EntryParts DEF LogInv, TypeOK
<1>4. /\ seen'[p.key].packet = p
      /\ seen'[p.key].count = seen[p.key].count + 1
      /\ seen'[p.key].turn = total + 1
      /\ seen'[p.key] \in Entry
  <2> DEFINE e == seen[p.key]
  <2>1. /\ e = [packet |-> e.packet, count |-> e.count, age |-> e.age, turn |-> e.turn]
        /\ e.count \in Nat
        /\ e.age \in 0..Repeat
    BY <1>1, <1>3, EntryParts DEF TypeOK
  <2>2. seen'[p.key] =
          [packet |-> p, count |-> e.count + 1, age |-> e.age, turn |-> total + 1]
    BY <1>1, <2>1
  <2>3. e.count + 1 \in Nat /\ total + 1 \in Nat
    BY <1>3, <2>1
  <2> QED
    BY <2>1, <2>2, <2>3, MakeEntry
<1>5. /\ \A k \in Key \ {p.key} : latest'[k] = latest[k]
      /\ latest'[p.key] = [body |-> p.body, turn |-> total + 1]
  BY <1>2, <1>3
<1>6. TypeOK'
  <2>1. \A k \in DOMAIN seen : seen'[k] \in Entry /\ seen'[k].packet.key = k
    <3> SUFFICES ASSUME NEW k \in DOMAIN seen
                 PROVE  seen'[k] \in Entry /\ seen'[k].packet.key = k
      OBVIOUS
    <3>1. CASE k = p.key
      BY <1>4, <3>1
    <3>2. CASE k # p.key
      BY <1>1, <1>3, <3>2 DEF TypeOK
    <3> QED
      BY <3>1, <3>2
  <2>2. [body |-> p.body, turn |-> total + 1] \in [body : Body, turn : Nat]
    BY <1>3
  <2>3. latest' \in [Key -> [body : Body, turn : Nat]]
    BY <1>2, <1>3, <2>2
  <2>4. received[p] + 1 \in Nat
    BY <1>3
  <2>5. received' \in [Packet -> Nat]
    BY <1>2, <1>3, <2>4
  <2> QED
    BY <1>1, <1>2, <1>3, <2>1, <2>3, <2>5 DEF TypeOK
<1>7. EntriesAgree'
  <2>1. seen[p.key].packet.body = shown[p.key]
    BY <1>1 DEF LogInv, EntriesAgree
  <2> SUFFICES ASSUME NEW k \in DOMAIN seen'
               PROVE  /\ seen'[k].packet.body = shown'[k]
                      /\ seen'[k].turn = latest'[k].turn
                      /\ seen'[k].turn > 0
    BY DEF EntriesAgree
  <2>2. CASE k = p.key
    <3>1. latest'[p.key].turn = total + 1 /\ total + 1 > 0
      BY <1>3, <1>5
    <3>2. seen'[p.key].packet.body = p.body /\ shown'[p.key] = p.body
      BY <1>2, <1>4, <2>1, <1>1
    <3> QED
      BY <1>4, <2>2, <3>1, <3>2
  <2>3. CASE k # p.key
    <3>1. seen'[k] = seen[k] /\ latest'[k] = latest[k] /\ shown'[k] = shown[k]
      BY <1>1, <1>2, <1>3, <1>5, <2>3
    <3> QED
      BY <1>1, <3>1 DEF LogInv, EntriesAgree
  <2> QED
    BY <2>2, <2>3
<1>8. TurnsApart'
  BY <1>2, <1>3, <1>5 DEF LogInv, TurnsApart
<1>9. Conserved'
  <2> SUFFICES ASSUME NEW q \in Packet PROVE (received[q] = accounted[q] + Pending(q))'
    BY DEF Conserved
  <2>1. received[q] = accounted[q] + Pending(q)
    BY DEF LogInv, Conserved
  <2>2. CASE q = p
    <3>1. Pending(q) = seen[p.key].count /\ Pending(q)' = seen[p.key].count + 1
      BY <1>1, <1>4, <2>2 DEF Pending
    <3>2. received'[q] = received[q] + 1 /\ accounted'[q] = accounted[q]
      BY <1>2, <1>3, <2>2
    <3> QED
      BY <1>1, <1>3, <2>1, <3>1, <3>2
  <2>3. CASE q # p
    <3>1. Pending(q)' = Pending(q)
      BY <1>1, <1>4, <2>3 DEF Pending
    <3>2. received'[q] = received[q] /\ accounted'[q] = accounted[q]
      BY <1>2, <1>3, <2>3
    <3> QED
      BY <2>1, <3>1, <3>2
  <2> QED
    BY <2>2, <2>3
<1>10. LogShowsLatest'
  <2>1. shown[p.key] = p.body
    BY <1>1 DEF LogInv, EntriesAgree
  <2> QED
    BY <1>2, <1>5, <2>1 DEF LogInv, LogShowsLatest
<1>11. RecentKept'
  <2>1. \A j \in Key : latest[j].turn \in Nat /\ latest[j].turn <= total
    BY <1>3 DEF LogInv, TurnsApart
  <2> SUFFICES ASSUME NEW k \in DOMAIN seen', NEW j \in Key \ DOMAIN seen'
               PROVE  latest'[j].turn < latest'[k].turn
    BY DEF RecentKept
  <2>2. j # p.key /\ latest'[j] = latest[j]
    BY <1>1, <1>5
  <2>3. CASE k = p.key
    BY <1>3, <1>5, <2>1, <2>2, <2>3
  <2>4. CASE k # p.key
    <3>1. latest'[k] = latest[k] /\ latest[j].turn < latest[k].turn
      BY <1>1, <1>3, <1>5, <2>4 DEF LogInv, RecentKept
    <3> QED
      BY <2>2, <3>1
  <2> QED
    BY <2>3, <2>4
<1>12. IsFiniteSet(DOMAIN seen') /\ TableBound'
  BY <1>1 DEF LogInv, TableBound
<1> QED
  BY <1>6, <1>7, <1>8, <1>9, <1>10, <1>11, <1>12 DEF LogInv

LEMMA ShowKeeps ==
  ASSUME LogInv, NEW p \in Packet, Record(p), Show(p),
         rest' \in Seq(Packet), unlogged' \subseteq OutReport
  PROVE  LogInv'
<1> DEFINE others == DOMAIN seen \ {p.key}
           new == [packet |-> p, count |-> 0, age |-> 0, turn |-> total + 1]
<1>1. /\ DOMAIN seen' = (DOMAIN seen \cup {p.key}) \ Evicted(p)
      /\ p.key \in DOMAIN seen'
      /\ seen'[p.key] = new
      /\ \A k \in DOMAIN seen' \ {p.key} : k \in DOMAIN seen /\ seen'[k] = seen[k]
      /\ Evicted(p) \subseteq others
  BY DEF Show, Without, Inserted, Evicted
<1>2. /\ total' = total + 1
      /\ received' = [received EXCEPT ![p] = @ + 1]
      /\ latest' = [latest EXCEPT ![p.key] = [body |-> p.body, turn |-> total + 1]]
      /\ shown' = [shown EXCEPT ![p.key] = p.body]
      /\ accounted' = [q \in Packet |->
           accounted[q] + (IF q = p THEN 1 ELSE 0)
                        + (IF q.key \in Summarised(p) THEN Pending(q) ELSE 0)]
  BY DEF Record, Show
<1>3. /\ \A q \in Packet : Pending(q) \in Nat
      /\ p.key \in Key /\ p.body \in Body
      /\ total \in Nat
      /\ new \in Entry
  <2>1. p.key \in Key /\ p.body \in Body
    BY PacketParts
  <2>2. total \in Nat
    BY DEF LogInv, TypeOK
  <2>3. new \in Entry
    BY <2>2, MakeEntry
  <2>4. \A k \in DOMAIN seen : seen[k].count \in Nat
    BY EntryParts DEF LogInv, TypeOK
  <2>5. \A q \in Packet : Pending(q) \in Nat
    BY <2>4 DEF Pending
  <2> QED
    BY <2>1, <2>2, <2>3, <2>5
<1>4. TypeOK'
  <2>1. \A k \in DOMAIN seen' : seen'[k] \in Entry /\ seen'[k].packet.key = k
    BY <1>1, <1>3 DEF LogInv, TypeOK
  <2>2. accounted \in [Packet -> Nat] /\ received \in [Packet -> Nat]
    BY DEF LogInv, TypeOK
  <2>3. accounted' \in [Packet -> Nat] /\ received' \in [Packet -> Nat]
    <3>1. \A q \in Packet :
            accounted[q] + (IF q = p THEN 1 ELSE 0)
              + (IF q.key \in Summarised(p) THEN Pending(q) ELSE 0) \in Nat
      BY <1>3, <2>2
    <3> QED
      BY <1>2, <2>2, <3>1
  <2>4. /\ total' \in Nat
        /\ latest' \in [Key -> [body : Body, turn : Nat]]
        /\ shown' \in [Key -> Body]
    BY <1>2, <1>3 DEF LogInv, TypeOK
  <2>5. DOMAIN seen' \subseteq Key
    BY <1>1, <1>3 DEF LogInv, TypeOK
  <2> QED
    BY <2>1, <2>3, <2>4, <2>5 DEF TypeOK
<1>5. EntriesAgree'
  BY <1>1, <1>2, <1>3 DEF LogInv, TypeOK, EntriesAgree
<1>6. TurnsApart'
  BY <1>2, <1>3 DEF LogInv, TypeOK, TurnsApart
<1>7. Conserved'
  <2> SUFFICES ASSUME NEW q \in Packet PROVE (received[q] = accounted[q] + Pending(q))'
    BY DEF Conserved
  <2>1. received[q] = accounted[q] + Pending(q) /\ Pending(q) \in Nat
    BY <1>3 DEF LogInv, Conserved
  <2>2. Pending(q)' = IF q.key \in Summarised(p) THEN 0 ELSE Pending(q)
    <3>1. CASE q.key = p.key
      BY <1>1, <3>1 DEF Pending, Summarised
    <3>2. CASE q.key # p.key /\ q.key \in Evicted(p)
      BY <1>1, <3>2 DEF Pending, Summarised
    <3>3. CASE q.key # p.key /\ q.key \notin Evicted(p)
      BY <1>1, <3>3 DEF Pending, Summarised
    <3> QED
      BY <3>1, <3>2, <3>3
  <2>3. received'[q] = received[q] + (IF q = p THEN 1 ELSE 0)
    <3>1. received \in [Packet -> Nat]
      BY DEF LogInv, TypeOK
    <3> QED
      BY <1>2, <3>1
  <2>4. accounted'[q] = accounted[q] + (IF q = p THEN 1 ELSE 0)
                          + (IF q.key \in Summarised(p) THEN Pending(q) ELSE 0)
    BY <1>2
  <2>5. accounted[q] \in Nat /\ received[q] \in Nat
    BY DEF LogInv, TypeOK
  <2> QED
    BY <2>1, <2>2, <2>3, <2>4, <2>5
<1>8. LogShowsLatest'
  BY <1>2, <1>3 DEF LogInv, TypeOK, LogShowsLatest
<1>9. RecentKept'
  <2> SUFFICES ASSUME NEW k \in DOMAIN seen', NEW j \in Key \ DOMAIN seen'
               PROVE  latest'[j].turn < latest'[k].turn
    BY DEF RecentKept
  <2>1. j # p.key /\ latest'[j] = latest[j] /\ latest[j].turn \in Nat
    BY <1>1, <1>2 DEF LogInv, TypeOK
  <2>2. CASE k = p.key
    BY <1>2, <1>3, <2>1, <2>2 DEF LogInv, TypeOK, TurnsApart
  <2>3. CASE k # p.key /\ j \notin DOMAIN seen
    BY <1>1, <1>2, <2>1, <2>3 DEF LogInv, TypeOK, RecentKept
  <2>4. CASE k # p.key /\ j \in DOMAIN seen
    <3>1. j \in Evicted(p) /\ k \in others /\ k # j
      BY <1>1, <2>1, <2>4
    <3>2. seen[j].turn <= seen[k].turn
      BY <3>1 DEF Evicted
    <3>3. latest[j].turn <= latest[k].turn /\ latest[j].turn # latest[k].turn
      <4>1. /\ seen[j].turn = latest[j].turn /\ latest[j].turn > 0
            /\ seen[k].turn = latest[k].turn
        BY <1>1, <2>4, <3>1 DEF LogInv, EntriesAgree
      <4>2. j \in Key /\ k \in Key
        BY <3>1 DEF LogInv, TypeOK
      <4> QED
        BY <3>1, <3>2, <4>1, <4>2 DEF LogInv, TurnsApart
    <3>4. latest'[k] = latest[k] /\ latest[k].turn \in Nat
      BY <1>1, <1>2, <2>4 DEF LogInv, TypeOK
    <3> QED
      BY <2>1, <3>3, <3>4
  <2> QED
    BY <2>2, <2>3, <2>4
<1>10. IsFiniteSet(DOMAIN seen') /\ TableBound'
  <2> DEFINE full == DOMAIN seen \cup {p.key}
  <2>1. /\ IsFiniteSet(DOMAIN seen)
        /\ Cardinality(DOMAIN seen) \in Nat
        /\ Cardinality(DOMAIN seen) <= Limit
    BY FS_CardinalityType DEF LogInv, TableBound
  <2>2. /\ IsFiniteSet(full)
        /\ Cardinality(full) = IF p.key \in DOMAIN seen THEN Cardinality(DOMAIN seen)
                               ELSE Cardinality(DOMAIN seen) + 1
    BY <2>1, FS_AddElement
  <2>3. DOMAIN seen' \in SUBSET full
    BY <1>1
  <2>4. IsFiniteSet(DOMAIN seen') /\ Cardinality(DOMAIN seen') <= Cardinality(full)
    BY <2>2, <2>3, FS_Subset
  <2>5. CASE Cardinality(full) <= Limit
    BY <2>1, <2>2, <2>4, <2>5, FS_CardinalityType DEF TableBound
  <2>6. CASE ~(Cardinality(full) <= Limit)
    <3>1. p.key \notin DOMAIN seen /\ Cardinality(DOMAIN seen) = Limit
      BY <2>1, <2>2, <2>6
    <3>2. others # {}
      BY <2>1, <3>1, FS_EmptySet
    <3>3. PICK k \in others : \A j \in others : seen[k].turn <= seen[j].turn
      BY <3>2, Oldest DEF LogInv
    <3>4. k \in Evicted(p)
      BY <2>1, <2>2, <2>6, <3>3 DEF Evicted
    <3>5. DOMAIN seen' \in SUBSET (full \ {k})
      BY <1>1, <3>4
    <3>6. IsFiniteSet(full \ {k}) /\ Cardinality(full \ {k}) = Cardinality(full) - 1
      BY <2>2, <3>3, FS_RemoveElement
    <3>7. Cardinality(DOMAIN seen') <= Cardinality(full \ {k})
      BY <3>5, <3>6, FS_Subset
    <3> QED
      BY <2>1, <2>2, <2>4, <3>1, <3>6, <3>7, FS_CardinalityType DEF TableBound
  <2> QED
    BY <2>4, <2>5, <2>6
<1> QED
  BY <1>4, <1>5, <1>6, <1>7, <1>8, <1>9, <1>10 DEF LogInv

-----------------------------------------------------------------------------
(* The other steps *)

LEMMA TickKeeps == LogInv /\ Tick => LogInv'
<1> SUFFICES ASSUME LogInv, Tick PROVE LogInv'
  OBVIOUS
<1>1. /\ DOMAIN seen' = DOMAIN seen
      /\ \A k \in DOMAIN seen : seen'[k] = [seen[k] EXCEPT !.age = Older(@)]
      /\ UNCHANGED <<rest, unlogged, total, latest, shown, received, accounted>>
  BY DEF Tick, history
<1>2. ASSUME NEW k \in DOMAIN seen
      PROVE  /\ seen'[k] \in Entry
             /\ seen'[k].packet = seen[k].packet
             /\ seen'[k].count = seen[k].count
             /\ seen'[k].turn = seen[k].turn
  <2>1. seen[k] \in Entry
    BY DEF LogInv, TypeOK
  <2>2. Older(seen[k].age) \in 0..Repeat
    BY <2>1 DEF Entry, Older
  <2>3. seen'[k] = [seen[k] EXCEPT !.age = Older(seen[k].age)]
    BY <1>1
  <2> QED
    BY <2>1, <2>2, <2>3 DEF Entry
<1>3. TypeOK'
  BY <1>1, <1>2 DEF LogInv, TypeOK
<1>4. EntriesAgree' /\ TurnsApart' /\ LogShowsLatest' /\ RecentKept'
  BY <1>1, <1>2 DEF LogInv, EntriesAgree, TurnsApart, LogShowsLatest, RecentKept
<1>5. Conserved'
  BY <1>1, <1>2 DEF LogInv, Conserved, Pending
<1>6. IsFiniteSet(DOMAIN seen') /\ TableBound'
  BY <1>1 DEF LogInv, TableBound
<1> QED
  BY <1>3, <1>4, <1>5, <1>6 DEF LogInv

LEMMA FlushKeeps == LogInv /\ Flush => LogInv'
<1> SUFFICES ASSUME LogInv, Flush PROVE LogInv'
  OBVIOUS
<1>1. /\ DOMAIN seen' = {}
      /\ accounted' = [q \in Packet |-> accounted[q] + Pending(q)]
      /\ UNCHANGED <<rest, unlogged, total, latest, shown, received>>
  BY DEF Flush, EmptyTable
<1>2. \A q \in Packet : Pending(q) \in Nat
  BY EntryParts DEF LogInv, TypeOK, Pending
<1>3. TypeOK'
  BY <1>1, <1>2 DEF LogInv, TypeOK
<1>4. EntriesAgree' /\ TurnsApart' /\ LogShowsLatest' /\ RecentKept'
  BY <1>1 DEF LogInv, EntriesAgree, TurnsApart, LogShowsLatest, RecentKept
<1>5. Conserved'
  BY <1>1, <1>2 DEF LogInv, TypeOK, Conserved, Pending
<1>6. IsFiniteSet(DOMAIN seen') /\ TableBound'
  BY <1>1, FS_EmptySet DEF TableBound
<1> QED
  BY <1>3, <1>4, <1>5, <1>6 DEF LogInv

\* Reports are on their way: nothing but rest and unlogged changes.
LEMMA TransportKeeps ==
  LogInv /\ (ReadLogged \/ Written \/ WriteLogged \/ WriteCancelled \/ UNCHANGED vars)
    => LogInv'
<1> SUFFICES ASSUME LogInv,
                    \/ ReadLogged
                    \/ Written
                    \/ WriteLogged
                    \/ WriteCancelled
                    \/ UNCHANGED vars
             PROVE  LogInv'
  OBVIOUS
<1>1. UNCHANGED <<seen, total, latest, shown, received, accounted>>
  BY DEF ReadLogged, Written, WriteLogged, WriteCancelled, vars, history
<1>2. rest' \in Seq(Packet) /\ unlogged' \subseteq OutReport
  BY ReportAssumption
  DEF ReadLogged, Written, WriteLogged, WriteCancelled, vars, LogInv, TypeOK, Packet
<1>3. TypeOK'
  BY <1>1, <1>2 DEF LogInv, TypeOK
<1> QED
  BY <1>1, <1>3 DEF LogInv, EntriesAgree, TurnsApart, Conserved, Pending,
                    LogShowsLatest, RecentKept, TableBound

LEMMA InitInv == Init => LogInv
<1> SUFFICES ASSUME Init PROVE LogInv
  OBVIOUS
<1>1. DOMAIN seen = {}
  BY DEF Init, EmptyTable
<1>2. TypeOK
  BY <1>1 DEF Init, TypeOK, Packet
<1>3. IsFiniteSet(DOMAIN seen) /\ TableBound
  BY <1>1, FS_EmptySet DEF TableBound
<1>4. EntriesAgree /\ TurnsApart /\ Conserved /\ LogShowsLatest /\ RecentKept
  BY <1>1 DEF Init, EntriesAgree, TurnsApart, Conserved, Pending, LogShowsLatest, RecentKept
<1> QED
  BY <1>2, <1>3, <1>4 DEF LogInv

\* The invariant of the log, for every value of the constants.
THEOREM Invariant == Spec => []LogInv
<1>1. LogInv /\ [Next]_vars => LogInv'
  <2> SUFFICES ASSUME LogInv, [Next]_vars PROVE LogInv'
    OBVIOUS
  <2>1. CASE RecordNext
    <3> DEFINE p == Safe(Head(rest))
    <3>1. rest \in Seq(Packet) /\ rest # << >> /\ unlogged \subseteq OutReport
      BY <2>1 DEF RecordNext, LogInv, TypeOK
    <3>2. Head(rest) \in Packet /\ Tail(rest) \in Seq(Packet)
      BY <3>1, HeadTailProperties
    <3>3. p \in Packet
      BY <3>2, SafePacket
    <3>4. Record(p) /\ rest' \in Seq(Packet) /\ unlogged' \subseteq OutReport
      BY <2>1, <3>1, <3>2 DEF RecordNext
    <3>5. Suppress(p) \/ Show(p)
      BY <3>4 DEF Record
    <3> HIDE DEF p
    <3> QED
      BY <3>3, <3>4, <3>5, SuppressKeeps, ShowKeeps
  <2> QED
    BY <2>1, TickKeeps, FlushKeeps, TransportKeeps DEF Next
<1> QED
  BY InitInv, <1>1, PTL DEF Spec

\* Every variable keeps its type.
THEOREM TypeCorrect == Spec => []TypeOK
<1>1. LogInv => TypeOK
  BY DEF LogInv
<1> QED
  BY Invariant, <1>1, PTL

\* The lines of the log and the pending repeats account for every packet.
THEOREM NothingLost == Spec => []Conserved
<1>1. LogInv => Conserved
  BY DEF LogInv
<1> QED
  BY Invariant, <1>1, PTL

\* The last packet of a key is the last one printed of it: changes always show.
THEOREM ChangesShow == Spec => []LogShowsLatest
<1>1. LogInv => LogShowsLatest
  BY DEF LogInv
<1> QED
  BY Invariant, <1>1, PTL

\* The table holds the keys heard last: what it forgets is older than all it has.
THEOREM TableRecent == Spec => []RecentKept
<1>1. LogInv => RecentKept
  BY DEF LogInv
<1> QED
  BY Invariant, <1>1, PTL

\* The table never holds more keys than its limit, however many are heard.
THEOREM TableWithin == Spec => []TableBound
<1>1. LogInv => TableBound
  BY DEF LogInv
<1> QED
  BY Invariant, <1>1, PTL
=============================================================================
