------------------------- MODULE DiagnosticsProofs -------------------------
(***************************************************************************)
(* Diagnostics and the state model under it, for any configuration, any    *)
(* packets and any number of passes: what the client remembers stays       *)
(* complete and is announced, no packet leaves half of a battery, and no   *)
(* diagnostics are left on without a pass that looks after them.           *)
(***************************************************************************)
EXTENDS Diagnostics, SelectionProofs, TLAPS

-----------------------------------------------------------------------------
(* What the bytes of an activity stand for *)

\* The numbered blocks of DecodeActiveState give every device four bytes of its
\* own block of 256, two for active and two for inactive: no number overflows,
\* and the two values of an activity are never confused.
THEOREM ActivityBytes ==
  ASSUME NEW n \in 0..255
  PROVE  /\ NormalizedNumber(n) * 4 + 104 \in 0..252
         /\ NormalizedNumber(n) * 4 + 104 = (n * 4 + 104) % 256
BY DEF NormalizedNumber

\* A byte is decoded as active exactly for the first two of the four.
THEOREM ActivityDecoded ==
  ASSUME NEW n \in 0..255, NEW byte \in Byte, None \notin BOOLEAN
  PROVE  /\ DecodeActiveState(byte, n) = TRUE
              <=> (byte - (NormalizedNumber(n) * 4 + 104)) \in 0..1
         /\ DecodeActiveState(byte, n) = FALSE
              <=> (byte - (NormalizedNumber(n) * 4 + 104)) \in 2..3
<1> DEFINE active == NormalizedNumber(n) * 4 + 104
<1>1. active \in 0..252
  BY ActivityBytes
<1>2. byte \in 0..255
  BY DEF Byte
<1>3. CASE byte \in {active, active + 1}
  BY <1>1, <1>2, <1>3 DEF DecodeActiveState
<1>4. CASE byte \in {active + 2, active + 3}
  <2>1. byte \notin {active, active + 1}
    BY <1>1, <1>4
  <2> QED  BY <1>1, <1>2, <1>4, <2>1 DEF DecodeActiveState
<1>5. CASE byte \notin {active, active + 1, active + 2, active + 3}
  <2>1. DecodeActiveState(byte, n) = None
    BY <1>5 DEF DecodeActiveState
  <2>2. DecodeActiveState(byte, n) # TRUE /\ DecodeActiveState(byte, n) # FALSE
    BY <2>1, Zenon
  <2>3. (byte - active) \notin 0..1 /\ (byte - active) \notin 2..3
    BY <1>1, <1>2, <1>5
  <2> QED  BY <2>2, <2>3, Zenon
<1> QED  BY <1>3, <1>4, <1>5

-----------------------------------------------------------------------------
(* What the client remembers and what it has still to say: the inductive   *)
(* invariant of the state model                                            *)

\* The activity of a device that has none.
Inactive(n) == n \in DOMAIN Definitions /\ Definitions[n] \in Stateless

\* A subject and the record kept of it.
Fits(subject, record) ==
  /\ subject[1] = "device" =>
       /\ DOMAIN record = DOMAIN NewSnapshot
       /\ Definitions # << >> => /\ subject[2] \in DOMAIN Definitions
                                 /\ Definitions[subject[2]] \notin Ignored
       /\ Inactive(subject[2]) => record.active = None
  /\ subject = Diagnosed => DOMAIN record = DOMAIN NewDiagnostics

\* The announcements of a packet come before what is still to be stored, and
\* each carries what is stored now; what is still to be stored is an activity
\* of a device that has one.
TodoInv ==
  /\ todo \in Seq({todo[i] : i \in DOMAIN todo})
  /\ \A i, j \in DOMAIN todo : i < j /\ todo[i].do = "store" => todo[j].do = "store"
  /\ \A i \in DOMAIN todo :
       /\ todo[i].do \in {"tell", "store"}
       /\ todo[i].subject \in Subjects
       /\ todo[i].do = "tell" => /\ todo[i].subject \in DOMAIN cache
                                 /\ todo[i].value = cache[todo[i].subject]
       /\ todo[i].do = "store" =>
            \E n \in 1..230 : /\ AcceptDevice(n) /\ DeviceHasState(n)
                              /\ todo[i].subject = Device(n)
                              /\ todo[i].value \in BOOLEAN

CacheInv ==
  /\ DOMAIN cache \subseteq Subjects
  /\ {CentralUnit, Diagnosed} \subseteq DOMAIN cache
  /\ \A s \in DOMAIN cache : Fits(s, cache[s])

\* Devices are announced after they are stored, and never leave the cache.
ToldInv ==
  /\ DOMAIN told \subseteq Subjects
  /\ untold \subseteq Subjects
  /\ \A s \in DOMAIN told : s[1] = "device" => s \in DOMAIN cache

DataInv ==
  /\ CacheInv
  /\ TodoInv
  /\ ToldInv
  /\ ListenersFollow
  /\ handled \in 0..MaxPackets

\* What is known of an activity and of buses stays known.
Later(subject, old, new) ==
  /\ subject[1] = "device" /\ old.active # None => new.active # None
  /\ subject = Diagnosed => DOMAIN old.buses \subseteq DOMAIN new.buses

KnownKept == \A s \in DOMAIN cache : Later(s, cache[s], cache'[s])

-----------------------------------------------------------------------------
(* Subjects *)

LEMMA SubjectParts ==
  /\ \A n : Device(n)[1] = "device" /\ Device(n)[2] = n
  /\ \A n \in 1..230 : Device(n) \in Subjects
  /\ \A n \in 1..230, kind \in {"section", "pg_output"} : <<kind, n>> \in Subjects
  /\ CentralUnit[1] = "central_unit" /\ Diagnosed[1] = "diagnostics"
  /\ CentralUnit \in Subjects /\ Diagnosed \in Subjects
  /\ CentralUnit # Diagnosed
  /\ \A n : AcceptDevice(n) => n \in 1..230
BY DEF Device, Subjects, CentralUnit, Diagnosed, AcceptDevice

\* A device's record that fits, seen through the table or new.
LEMMA LookFits ==
  ASSUME CacheInv, NEW n, AcceptDevice(n)
  PROVE  Fits(Device(n), Look(cache, Device(n)))
<1>1. CASE Device(n) \in DOMAIN cache
  BY <1>1 DEF Look, CacheInv
<1>2. CASE Device(n) \notin DOMAIN cache
  <2>1. Look(cache, Device(n)) = NewSnapshot
    BY <1>2, SubjectParts DEF Look
  <2>2. NewSnapshot.active = None
    BY DEF NewSnapshot
  <2>3. Device(n) # Diagnosed
    BY SubjectParts
  <2> QED  BY <2>1, <2>2, <2>3, SubjectParts DEF Fits, AcceptDevice
<1> QED  BY <1>1, <1>2

\* Changes of a device that speak of no activity, or of one it has.
ActivityAllowed(n, changes) ==
  "active" \in DOMAIN changes => changes["active"] # None /\ DeviceHasState(n)

LEMMA ReplaceFits ==
  ASSUME NEW n, NEW record, Fits(Device(n), record),
         NEW changes, ActivityAllowed(n, changes)
  PROVE  /\ Fits(Device(n), Replace(record, changes))
         /\ Later(Device(n), record, Replace(record, changes))
<1> DEFINE new == Replace(record, changes)
<1>1. DOMAIN new = DOMAIN record
  BY DEF Replace
<1>2. \A f \in DOMAIN record : new[f] = IF f \in DOMAIN changes THEN changes[f] ELSE record[f]
  BY DEF Replace
<1>3. "active" \in DOMAIN record
  BY SubjectParts DEF Fits, NewSnapshot
<1>4. Device(n) # Diagnosed
  BY SubjectParts
<1>5. Inactive(n) => ~DeviceHasState(n)
  <2>1. Inactive(n) => Definitions # << >>
    BY DEF Inactive
  <2> QED  BY <2>1 DEF Inactive, DeviceHasState
<1>6. new["active"] = IF "active" \in DOMAIN changes THEN changes["active"] ELSE record["active"]
  BY <1>2, <1>3
<1> HIDE DEF new
<1>7. Fits(Device(n), new)
  BY <1>1, <1>4, <1>5, <1>6, SubjectParts DEF Fits, ActivityAllowed
<1>8. Later(Device(n), record, new)
  BY <1>4, <1>6, SubjectParts DEF Later, ActivityAllowed
<1> QED  BY <1>7, <1>8 DEF new

-----------------------------------------------------------------------------
(* Storing one subject and announcing it *)

\* Subjects that stay in the cache once they are there.
Lasting(subject) == subject \in {CentralUnit, Diagnosed} \/ subject[1] = "device"

LEMMA PutParts ==
  ASSUME NEW subject, NEW value, cache' = Put(cache, subject, value)
  PROVE  /\ DOMAIN cache' = DOMAIN cache \cup {subject}
         /\ cache'[subject] = value
         /\ \A s \in DOMAIN cache : s # subject => cache'[s] = cache[s]
BY DEF Put

\* The record that was stored fits, and nothing else has changed.
LEMMA PutCache ==
  ASSUME CacheInv, NEW subject \in Subjects, NEW value, cache' = Put(cache, subject, value),
         Fits(subject, value),
         subject \in DOMAIN cache => Later(subject, cache[subject], value)
  PROVE  CacheInv' /\ KnownKept
<1>1. /\ DOMAIN cache' = DOMAIN cache \cup {subject}
      /\ cache'[subject] = value
      /\ \A s \in DOMAIN cache : s # subject => cache'[s] = cache[s]
  BY PutParts
<1>2. \A s \in DOMAIN cache' : Fits(s, cache'[s])
  BY <1>1 DEF CacheInv
<1>4. CacheInv'
  BY <1>1, <1>2 DEF CacheInv, Subjects, CentralUnit, Diagnosed
<1>5. ASSUME NEW s \in DOMAIN cache PROVE Later(s, cache[s], cache'[s])
  BY <1>1 DEF Later
<1> QED  BY <1>4, <1>5 DEF KnownKept

\* A sequence is one of its own elements.
LEMMA OwnSequence ==
  ASSUME NEW S, NEW t \in Seq(S)
  PROVE  t \in Seq({t[i] : i \in DOMAIN t})
<1>1. Len(t) \in Nat /\ DOMAIN t = 1..Len(t) /\ t = [i \in 1..Len(t) |-> t[i]]
  OBVIOUS
<1>2. \A i \in 1..Len(t) : t[i] \in {t[j] : j \in DOMAIN t}
  BY <1>1
<1> QED  BY <1>1, <1>2, IsASeq

\* A sequence of one announcement, made of what was stored just now.
LEMMA OneTold ==
  ASSUME NEW subject \in Subjects, NEW value, todo' = <<Tell(subject, value)>>,
         subject \in DOMAIN cache', cache'[subject] = value
  PROVE  TodoInv'
<1>1. /\ todo' \in Seq({Tell(subject, value)}) /\ DOMAIN todo' = 1..1
      /\ todo'[1] = Tell(subject, value)
  OBVIOUS
<1>2. todo' \in Seq({todo'[i] : i \in DOMAIN todo'})
  BY <1>1, OwnSequence
<1>3. /\ Tell(subject, value).do = "tell" /\ Tell(subject, value).subject = subject
      /\ Tell(subject, value).value = value
  BY DEF Tell
<1>4. Subjects' = Subjects
  BY DEF Subjects, CentralUnit, Diagnosed
<1> QED  BY <1>1, <1>2, <1>3, <1>4 DEF TodoInv

LEMMA NothingTold == ASSUME todo' = << >> PROVE TodoInv'
BY DEF TodoInv

LEMMA KeepData ==
  ASSUME DataInv, todo = << >>, NEW subject \in Subjects, Lasting(subject), NEW value,
         Keep(subject, value), Fits(subject, value),
         subject \in DOMAIN cache => Later(subject, cache[subject], value),
         UNCHANGED <<told, untold>>, handled' \in 0..MaxPackets
  PROVE  DataInv' /\ KnownKept
<1>1. cache' = Put(cache, subject, value) /\ todo' = Announced(subject, value)
  BY DEF Keep
<1>2. /\ DOMAIN cache' = DOMAIN cache \cup {subject}
      /\ cache'[subject] = value
      /\ \A s \in DOMAIN cache : s # subject => cache'[s] = cache[s]
  BY <1>1, PutParts
<1>3. CacheInv' /\ KnownKept
  BY <1>1, PutCache DEF DataInv
<1>4. TodoInv'
  <2>1. CASE Look(cache, subject) = value
    BY <1>1, <2>1, NothingTold DEF Announced
  <2>2. CASE Look(cache, subject) # value
    BY <1>1, <1>2, <2>2, OneTold DEF Announced
  <2> QED  BY <2>1, <2>2
<1>5. ToldInv'
  BY <1>2 DEF DataInv, ToldInv, Subjects, CentralUnit, Diagnosed
<1>6. ListenersFollow'
  <2> SUFFICES ASSUME NEW s \in DOMAIN cache'
               PROVE  \/ Look(told', s) = cache'[s]
                      \/ \E i \in DOMAIN todo' :
                           /\ todo'[i].do = "tell" /\ todo'[i].subject = s
                           /\ todo'[i].value = cache'[s]
                      \/ s \in untold'
    BY DEF ListenersFollow, Look, NewSnapshot
  <2>1. CASE s # subject
    <3>1. s \in DOMAIN cache /\ cache'[s] = cache[s] /\ DOMAIN todo = {}
      BY <1>2, <2>1
    <3>2. Look(told, s) = cache[s] \/ s \in untold
      BY <3>1 DEF DataInv, ListenersFollow
    <3> QED  BY <3>1, <3>2
  <2>2. CASE s = subject /\ Look(cache, subject) # value
    <3>1. todo' = <<Tell(subject, value)>> /\ DOMAIN todo' = 1..1
      BY <1>1, <2>2 DEF Announced
    <3> QED  BY <1>2, <2>2, <3>1 DEF Tell
  <2>3. CASE s = subject /\ Look(cache, subject) = value /\ subject \in DOMAIN cache
    <3>1. cache[subject] = value
      BY <2>3 DEF Look
    <3>2. DOMAIN todo = {}
      OBVIOUS
    <3>3. Look(told, subject) = cache[subject] \/ subject \in untold
      BY <2>3, <3>2 DEF DataInv, ListenersFollow
    <3> QED  BY <1>2, <2>3, <3>1, <3>3
  <2>4. CASE s = subject /\ Look(cache, subject) = value /\ subject \notin DOMAIN cache
    <3>1. subject[1] = "device"
      BY <2>4 DEF Lasting, DataInv, CacheInv
    <3>2. subject \notin DOMAIN told
      BY <2>4, <3>1 DEF DataInv, ToldInv
    <3>3. value = NewSnapshot /\ Look(told, subject) = NewSnapshot
      BY <2>4, <3>1, <3>2 DEF Look
    <3> QED  BY <1>2, <2>4, <3>3
  <2> QED  BY <2>1, <2>2, <2>3, <2>4
<1> QED  BY <1>3, <1>4, <1>5, <1>6 DEF DataInv

-----------------------------------------------------------------------------
(* Packets of many subjects *)

\* The numbers of a table that are chosen, in their order.
LEMMA ChosenNumbers ==
  ASSUME NEW c \in Nat, NEW chosen \in SUBSET (1..c)
  PROVE  \E numbers \in Seq(chosen) :
           /\ numbers = Selected([n \in 1..c |-> n], chosen)
           /\ \A n \in chosen : \E i \in DOMAIN numbers : numbers[i] = n
<1> DEFINE all == [n \in 1..c |-> n]
           numbers == Selected(all, chosen)
<1>1. all \in Seq(1..c) /\ DOMAIN all = 1..c /\ \A n \in 1..c : all[n] = n
  OBVIOUS
<1> HIDE DEF all
<1>2. numbers \in Seq(1..c)
  BY <1>1, SelectedPlaces
<1>3. /\ \A k \in DOMAIN numbers : \E i \in chosen \cap DOMAIN all : numbers[k] = all[i]
      /\ \A i \in chosen \cap DOMAIN all : \E k \in DOMAIN numbers : numbers[k] = all[i]
  BY <1>1, SelectedElements
<1> HIDE DEF numbers
<1>4. /\ Len(numbers) \in Nat /\ DOMAIN numbers = 1..Len(numbers)
      /\ numbers = [i \in 1..Len(numbers) |-> numbers[i]]
  BY <1>2
<1>5. \A i \in 1..Len(numbers) : numbers[i] \in chosen
  BY <1>1, <1>3, <1>4
<1>6. numbers \in Seq(chosen)
  BY <1>4, <1>5, IsASeq
<1>7. \A n \in chosen : \E i \in DOMAIN numbers : numbers[i] = n
  BY <1>1, <1>3
<1>8. numbers = Selected([n \in 1..c |-> n], chosen)
  BY DEF numbers, all
<1> QED  BY <1>6, <1>7, <1>8

LEMMA TablesData ==
  ASSUME DataInv, todo = << >>, NEW kind \in {"section", "pg_output"},
         NEW c \in 0..230, NEW states, DOMAIN states = 1..c,
         \A n \in 1..c : states[n] # None,
         ReplaceAll(kind, states), UNCHANGED <<told, untold>>, handled' \in 0..MaxPackets
  PROVE  DataInv' /\ KnownKept
<1> DEFINE changed == {n \in DOMAIN states : Look(cache, <<kind, n>>) # states[n]}
           chosen == Selected([n \in DOMAIN states |-> n], changed)
           subjects == {<<kind, n>> : n \in DOMAIN states}
           others == {s \in DOMAIN cache : s[1] # kind}
<1>0. PICK numbers \in Seq(changed) :
        /\ numbers = chosen
        /\ \A n \in changed : \E i \in DOMAIN numbers : numbers[i] = n
  <2>1. changed \in SUBSET (1..c) /\ c \in Nat
    OBVIOUS
  <2>2. [n \in DOMAIN states |-> n] = [n \in 1..c |-> n]
    OBVIOUS
  <2> HIDE DEF changed
  <2>3. chosen = Selected([n \in 1..c |-> n], changed)
    BY <2>2, Zenon
  <2>4. PICK numbers \in Seq(changed) :
          /\ numbers = Selected([n \in 1..c |-> n], changed)
          /\ \A n \in changed : \E i \in DOMAIN numbers : numbers[i] = n
    BY <2>1, ChosenNumbers, Zenon
  <2> HIDE DEF chosen
  <2>5. numbers = chosen
    BY <2>3, <2>4
  <2> QED  BY <2>4, <2>5
<1>1. /\ cache' = [s \in others \cup subjects |->
                    IF s \in subjects THEN states[s[2]] ELSE cache[s]]
      /\ todo' = [i \in DOMAIN numbers |-> Tell(<<kind, numbers[i]>>, states[numbers[i]])]
  BY <1>0 DEF ReplaceAll
<1> HIDE DEF chosen
<1>2. /\ numbers \in Seq(changed)
      /\ \A n \in changed : \E i \in DOMAIN numbers : numbers[i] = n
  BY <1>0
<1>3. \A n \in 1..c : <<kind, n>> \in Subjects /\ <<kind, n>>[1] = kind /\ <<kind, n>>[2] = n
  <2> SUFFICES ASSUME NEW n \in 1..c
               PROVE  <<kind, n>> \in Subjects /\ <<kind, n>>[1] = kind /\ <<kind, n>>[2] = n
    OBVIOUS
  <2> HIDE DEF changed, subjects, others
  <2>1. n \in 1..230
    OBVIOUS
  <2> QED  BY <2>1, SubjectParts
<1>4. /\ DOMAIN cache' = others \cup subjects
      /\ \A n \in 1..c : <<kind, n>> \in DOMAIN cache' /\ cache'[<<kind, n>>] = states[n]
      /\ \A s \in DOMAIN cache : s[1] # kind => s \in DOMAIN cache' /\ cache'[s] = cache[s]
      /\ \A s \in DOMAIN cache' : s[1] = kind => \E n \in 1..c : s = <<kind, n>>
      /\ \A s \in DOMAIN cache' : s[1] # kind => s \in DOMAIN cache
  <2>1. DOMAIN cache' = others \cup subjects
    BY <1>1
  <2>2. ASSUME NEW n \in 1..c
        PROVE  <<kind, n>> \in DOMAIN cache' /\ cache'[<<kind, n>>] = states[n]
    BY <1>1, <1>3
  <2>3. ASSUME NEW s \in DOMAIN cache, s[1] # kind
        PROVE  s \in DOMAIN cache' /\ cache'[s] = cache[s]
    <3>1. s \notin subjects /\ s \in others
      BY <1>3, <2>3
    <3> QED  BY <1>1, <3>1
  <2>4. \A s \in DOMAIN cache' : s[1] = kind => \E n \in 1..c : s = <<kind, n>>
    BY <2>1
  <2>5. \A s \in DOMAIN cache' : s[1] # kind => s \in DOMAIN cache
    BY <1>3, <2>1
  <2> QED  BY <2>1, <2>2, <2>3, <2>4, <2>5
<1>5. kind # "device" /\ kind # "diagnostics" /\ kind # "central_unit"
  OBVIOUS
<1>6. /\ DOMAIN todo' = DOMAIN numbers
      /\ \A i \in DOMAIN numbers :
           /\ numbers[i] \in changed /\ numbers[i] \in 1..c
           /\ todo'[i].do = "tell" /\ todo'[i].subject = <<kind, numbers[i]>>
           /\ todo'[i].value = states[numbers[i]]
  <2>1. \A i \in DOMAIN numbers : numbers[i] \in changed /\ numbers[i] \in 1..c
    <3>1. \A i \in DOMAIN numbers : numbers[i] \in changed
      <4> HIDE DEF changed
      <4> QED  BY <1>2
    <3> QED  BY <3>1
  <2> HIDE DEF changed
  <2> QED  BY <1>1, <2>1 DEF Tell
<1>7. Subjects' = Subjects
  BY DEF Subjects, CentralUnit, Diagnosed
<1>8. CacheInv'
  <2>1. \A s \in DOMAIN cache' : s \in Subjects /\ Fits(s, cache'[s])
    <3> SUFFICES ASSUME NEW s \in DOMAIN cache' PROVE s \in Subjects /\ Fits(s, cache'[s])
      OBVIOUS
    <3>1. CASE s[1] = kind
      BY <1>3, <1>4, <1>5, <3>1, SubjectParts DEF Fits
    <3>2. CASE s[1] # kind
      BY <1>4, <3>2 DEF DataInv, CacheInv
    <3> QED  BY <3>1, <3>2
  <2>2. CentralUnit \in DOMAIN cache' /\ Diagnosed \in DOMAIN cache'
    BY <1>4, <1>5, SubjectParts DEF DataInv, CacheInv
  <2> QED  BY <1>7, <2>1, <2>2 DEF CacheInv, CentralUnit, Diagnosed
<1>9. TodoInv'
  <2>1. todo' \in Seq({todo'[i] : i \in DOMAIN todo'})
    <3>1. /\ Len(numbers) \in Nat /\ DOMAIN numbers = 1..Len(numbers)
      BY <1>2
    <3> HIDE DEF changed
    <3>2. todo' = [i \in 1..Len(numbers) |-> todo'[i]]
      BY <1>1, <3>1
    <3>3. \A i \in 1..Len(numbers) : todo'[i] \in {todo'[j] : j \in DOMAIN todo'}
      BY <1>6, <3>1
    <3>4. [i \in 1..Len(numbers) |-> todo'[i]] \in Seq({todo'[j] : j \in DOMAIN todo'})
      BY <3>1, <3>3, IsASeq
    <3> QED  BY <3>2, <3>4
  <2>2. \A i \in DOMAIN todo' :
          /\ todo'[i].do = "tell" /\ todo'[i].subject \in Subjects
          /\ todo'[i].subject \in DOMAIN cache'
          /\ todo'[i].value = cache'[todo'[i].subject]
    <3> HIDE DEF changed, subjects, others
    <3> SUFFICES ASSUME NEW i \in DOMAIN todo'
                 PROVE  /\ todo'[i].do = "tell" /\ todo'[i].subject \in Subjects
                        /\ todo'[i].subject \in DOMAIN cache'
                        /\ todo'[i].value = cache'[todo'[i].subject]
      OBVIOUS
    <3>1. PICK n \in 1..c : /\ todo'[i].do = "tell" /\ todo'[i].subject = <<kind, n>>
                            /\ todo'[i].value = states[n]
      BY <1>6
    <3> QED  BY <1>3, <1>4, <3>1
  <2> QED  BY <1>7, <2>1, <2>2 DEF TodoInv
<1>10. ToldInv'
  BY <1>4, <1>5, <1>7 DEF DataInv, ToldInv
<1>11. ListenersFollow'
  <2> SUFFICES ASSUME NEW s \in DOMAIN cache'
               PROVE  \/ Look(told', s) = cache'[s]
                      \/ \E i \in DOMAIN todo' :
                           /\ todo'[i].do = "tell" /\ todo'[i].subject = s
                           /\ todo'[i].value = cache'[s]
                      \/ s \in untold'
    BY DEF ListenersFollow, Look, NewSnapshot
  <2>1. DOMAIN todo = {}
    OBVIOUS
  <2>2. CASE s[1] # kind
    <3>1. s \in DOMAIN cache /\ cache'[s] = cache[s]
      BY <1>4, <2>2
    <3>2. Look(told, s) = cache[s] \/ s \in untold
      BY <2>1, <3>1 DEF DataInv, ListenersFollow
    <3> QED  BY <3>1, <3>2
  <2>3. CASE s[1] = kind
    <3>1. PICK n \in 1..c : s = <<kind, n>> /\ cache'[s] = states[n]
      BY <1>4, <2>3
    <3>2. CASE n \in changed
      <4>1. PICK i \in DOMAIN numbers : numbers[i] = n
        BY <1>2, <3>2
      <4> HIDE DEF changed
      <4> QED  BY <1>6, <3>1, <4>1
    <3>3. CASE n \notin changed
      <4>1. Look(cache, s) = states[n]
        BY <3>1, <3>3
      <4>2. s \in DOMAIN cache /\ cache[s] = states[n]
        BY <1>3, <1>5, <3>1, <4>1 DEF Look
      <4>3. Look(told, s) = cache[s] \/ s \in untold
        BY <2>1, <4>2 DEF DataInv, ListenersFollow
      <4> QED  BY <3>1, <4>2, <4>3
    <3> QED  BY <3>2, <3>3
  <2> QED  BY <2>2, <2>3
<1>12. KnownKept
  <2> SUFFICES ASSUME NEW s \in DOMAIN cache PROVE Later(s, cache[s], cache'[s])
    BY DEF KnownKept
  <2>1. s[1] = "device" \/ s = Diagnosed => cache'[s] = cache[s]
    BY <1>4, <1>5, SubjectParts
  <2> QED  BY <2>1 DEF Later
<1> QED  BY <1>8, <1>9, <1>10, <1>11, <1>12 DEF DataInv

\* Sections are counted from 1 on without a gap.
LEMMA SectionsCounted ==
  ASSUME NEW bytes \in Seq(Byte)
  PROVE  /\ SectionCount(bytes) \in 0..15
         /\ \A s \in 1..SectionCount(bytes) : 2 * s <= Len(bytes)
<1> DEFINE present == {s \in 1..15 : /\ 2 * s <= Len(bytes)
                                     /\ \A t \in 1..s : SectionBytes(bytes, t) # <<7, 0>>}
           ends == {n \in 0..15 : n + 1 \notin present}
<1>1. \A s \in present : \A t \in 1..s : t \in present
  <2>1. Len(bytes) \in Nat
    OBVIOUS
  <2> QED  BY <2>1
<1>2. 15 \in ends /\ ends \subseteq Nat
  OBVIOUS
<1>3. PICK n \in ends : \A m \in ends : n <= m
  <2> HIDE DEF ends
  <2> QED  BY <1>2, LeastNumber
<1>4. present = 1..n
  <2>1. ASSUME NEW s \in 1..n PROVE s \in present
    <3>1. s - 1 \in 0..15 /\ ~(n <= s - 1) /\ (s - 1) + 1 = s
      OBVIOUS
    <3> HIDE DEF present
    <3> QED  BY <1>3, <3>1
  <2>2. ASSUME NEW s \in present PROVE s \in 1..n
    <3>1. s \in 1..15 /\ n \in 0..15 /\ n + 1 \notin present
      OBVIOUS
    <3> HIDE DEF present
    <3>2. s > n => n + 1 \in 1..s
      BY <3>1
    <3> QED  BY <1>1, <2>2, <3>1, <3>2
  <2> QED  BY <2>1, <2>2
<1>5. SectionCount(bytes) = CHOOSE m \in 0..15 : present = 1..m
  BY DEF SectionCount
<1>6. SectionCount(bytes) \in 0..15 /\ present = 1..SectionCount(bytes)
  <2>1. n \in 0..15
    OBVIOUS
  <2> HIDE DEF present, ends
  <2> QED  BY <1>4, <1>5, <2>1
<1> QED  BY <1>6

\* A section's state is never None.
LEMMA SectionStatesGiven ==
  ASSUME NEW bytes \in Seq(Byte), ParseSectionStates(bytes) # Refused
  PROVE  \E c \in 0..230 :
           /\ DOMAIN ParseSectionStates(bytes) = 1..c
           /\ \A n \in 1..c : ParseSectionStates(bytes)[n] # None
<1> DEFINE c == SectionCount(bytes)
           state(s) == SectionState(bytes[2 * s - 1], bytes[2 * s])
<1>1. c \in 0..230 /\ \A s \in 1..c : 2 * s <= Len(bytes)
  BY SectionsCounted
<1>2. ParseSectionStates(bytes) = [s \in 1..c |-> state(s)]
  BY DEF ParseSectionStates
<1>3. ASSUME NEW s \in 1..c PROVE state(s) # None
  <2> HIDE DEF c
  <2>1. bytes[2 * s - 1] \in Byte /\ bytes[2 * s] \in Byte
    BY <1>1
  <2>2. bytes[2 * s - 1] % 8 \in 0..7
    <3>1. \A b \in 0..255 : b % 8 \in 0..7
      OBVIOUS
    <3> QED  BY <2>1, <3>1 DEF Byte
  <2>3. \A b, k : Bit(b, k) \in BOOLEAN
    BY DEF Bit
  <2>4. state(s) \in SectionStates
    BY <2>2, <2>3 DEF SectionState, SectionStates
  <2> QED  BY <2>4, NoneAssumption
<1> HIDE DEF c, state
<1> QED  BY <1>1, <1>2, <1>3

LEMMA OutputStatesGiven ==
  ASSUME NEW bytes \in Seq(Byte), ParsePgOutputStates(bytes, Outputs) # Refused
  PROVE  \E c \in 0..230 :
           /\ DOMAIN ParsePgOutputStates(bytes, Outputs) = 1..c
           /\ \A n \in 1..c : ParsePgOutputStates(bytes, Outputs)[n] # None
<1> DEFINE available == 8 * Len(bytes)
           c == IF Outputs = None THEN available ELSE Outputs
<1>1. available \in Nat /\ c \in Nat
  BY OutputAssumption
<1>2. c <= 128
  BY <1>1 DEF ParsePgOutputStates
<1>3. ParsePgOutputStates(bytes, Outputs) = [output \in 1..c |-> BitmapBit(bytes, output - 1)]
  BY DEF ParsePgOutputStates
<1>4. \A n : BitmapBit(bytes, n) # None
  BY NoneAssumption DEF BitmapBit, Bit
<1> HIDE DEF c
<1>5. c \in 0..230
  BY <1>1, <1>2
<1>6. DOMAIN ParsePgOutputStates(bytes, Outputs) = 1..c
  BY <1>3
<1>7. \A n \in 1..c : ParsePgOutputStates(bytes, Outputs)[n] # None
  BY <1>3, <1>4
<1> QED  BY <1>5, <1>6, <1>7

\* The bitmap's devices are left to be stored one after another.
LEMMA BitmapData ==
  ASSUME DataInv, todo = << >>, NEW p \in Packet, HandleDeviceStates(p),
         UNCHANGED <<told, untold>>, handled' \in 0..MaxPackets
  PROVE  DataInv' /\ KnownKept
<1> DEFINE active == ParseDeviceStates(p.bytes)
           known == {n \in DOMAIN active : AcceptDevice(n) /\ DeviceHasState(n)}
           chosen == Selected([n \in DOMAIN active |-> n], known)
<1>0. active = [number \in 1..(IF 8 * Len(p.bytes) < 231 THEN 8 * Len(p.bytes) - 1 ELSE 230)
                   |-> BitmapBit(p.bytes, number)]
  BY DEF HandleDeviceStates, ParseDeviceStates
<1>1. \E c \in 0..230 : DOMAIN active = 1..c
  <2>1. p.bytes \in Seq(Byte)
    BY PacketAssumption DEF HandleDeviceStates
  <2>2. Len(p.bytes) \in Nat
    BY <2>1
  <2>3. PICK l \in Nat : l = Len(p.bytes)
    BY <2>2
  <2>4. DOMAIN active = 1..(IF 8 * l < 231 THEN 8 * l - 1 ELSE 230)
    BY <1>0, <2>3
  <2>5. CASE l = 0
    <3>1. DOMAIN active = 1..0
      BY <2>4, <2>5
    <3> QED  BY <3>1
  <2>6. CASE l > 0 /\ 8 * l < 231
    <3>1. DOMAIN active = 1..(8 * l - 1) /\ 8 * l - 1 \in 0..230
      BY <2>4, <2>6
    <3> QED  BY <3>1
  <2>7. CASE ~(8 * l < 231)
    <3>1. DOMAIN active = 1..230
      BY <2>4, <2>7
    <3> QED  BY <3>1
  <2> QED  BY <2>5, <2>6, <2>7
<1>2. \A n \in DOMAIN active : active[n] \in BOOLEAN
  <2>1. \A n \in DOMAIN active : active[n] = BitmapBit(p.bytes, n)
    BY <1>0
  <2>2. \A n : BitmapBit(p.bytes, n) \in BOOLEAN
    BY DEF BitmapBit, Bit
  <2> HIDE DEF active
  <2> QED  BY <2>1, <2>2, Zenon
<1>3. todo' = [i \in DOMAIN chosen |-> Store(chosen[i], active[chosen[i]])] /\ cache' = cache
  BY DEF HandleDeviceStates
<1> HIDE DEF active
<1>4. PICK c \in 0..230 : DOMAIN active = 1..c
  BY <1>1
<1>5. PICK numbers \in Seq(known) : numbers = chosen
  <2>1. known \in SUBSET (1..c) /\ c \in Nat
    BY <1>4
  <2>2. [n \in DOMAIN active |-> n] = [n \in 1..c |-> n]
    BY <1>4
  <2> HIDE DEF known
  <2>3. chosen = Selected([n \in 1..c |-> n], known)
    BY <2>2, Zenon
  <2>4. PICK numbers \in Seq(known) :
          /\ numbers = Selected([n \in 1..c |-> n], known)
          /\ \A n \in known : \E i \in DOMAIN numbers : numbers[i] = n
    BY <2>1, ChosenNumbers, Zenon
  <2> HIDE DEF chosen
  <2>5. numbers = chosen
    BY <2>3, <2>4
  <2> QED  BY <2>4, <2>5
<1> HIDE DEF chosen, known
<1>6. todo' = [i \in DOMAIN numbers |-> Store(numbers[i], active[numbers[i]])]
  BY <1>3, <1>5
<1>7. Len(numbers) \in Nat /\ DOMAIN numbers = 1..Len(numbers)
  BY <1>5
<1>8. TodoInv'
  <2>1. todo' \in Seq({todo'[i] : i \in DOMAIN todo'})
    <3>1. todo' = [i \in 1..Len(numbers) |-> todo'[i]]
      BY <1>6, <1>7
    <3>2. DOMAIN todo' = 1..Len(numbers)
      BY <1>6, <1>7
    <3>3. \A i \in 1..Len(numbers) : todo'[i] \in {todo'[j] : j \in DOMAIN todo'}
      BY <3>2
    <3>4. [i \in 1..Len(numbers) |-> todo'[i]] \in Seq({todo'[j] : j \in DOMAIN todo'})
      BY <1>7, <3>3, IsASeq
    <3> QED  BY <3>1, <3>4
  <2>2. ASSUME NEW i \in DOMAIN todo'
        PROVE  \E n \in 1..230 : /\ todo'[i].do = "store"
                                 /\ AcceptDevice(n) /\ DeviceHasState(n)
                                 /\ Device(n) \in Subjects
                                 /\ todo'[i].subject = Device(n)
                                 /\ todo'[i].value \in BOOLEAN
    <3>1. i \in DOMAIN numbers
      BY <1>6
    <3>2. numbers[i] \in known
      BY <1>5, <3>1
    <3>3. /\ numbers[i] \in DOMAIN active
          /\ AcceptDevice(numbers[i]) /\ DeviceHasState(numbers[i])
      BY <3>2 DEF known
    <3>4. numbers[i] \in 1..230 /\ Device(numbers[i]) \in Subjects
      BY <3>3, SubjectParts
    <3>5. active[numbers[i]] \in BOOLEAN
      BY <1>2, <3>3
    <3>6. todo'[i] = Store(numbers[i], active[numbers[i]])
      BY <1>6, <3>1
    <3>7. /\ todo'[i].do = "store" /\ todo'[i].subject = Device(numbers[i])
          /\ todo'[i].value = active[numbers[i]]
      BY <3>6 DEF Store
    <3> QED  BY <3>3, <3>4, <3>5, <3>7
  <2>3. Subjects' = Subjects
    BY DEF Subjects, CentralUnit, Diagnosed
  <2> QED  BY <2>1, <2>2, <2>3 DEF TodoInv, AcceptDevice, DeviceHasState, Device
<1>9. CacheInv' /\ ToldInv' /\ KnownKept
  BY <1>3 DEF DataInv, CacheInv, ToldInv, Fits, Inactive, KnownKept, Later, Subjects,
              CentralUnit, Diagnosed, NewSnapshot, NewDiagnostics
<1>10. ListenersFollow'
  <2> SUFFICES ASSUME NEW s \in DOMAIN cache
               PROVE  Look(told, s) = cache[s] \/ s \in untold
    BY <1>3 DEF ListenersFollow, Look, NewSnapshot
  <2>1. DOMAIN todo = {}
    OBVIOUS
  <2> QED  BY <2>1 DEF DataInv, ListenersFollow
<1> QED  BY <1>8, <1>9, <1>10 DEF DataInv

-----------------------------------------------------------------------------
(* Packets of one subject *)

LEMMA DeviceData ==
  ASSUME DataInv, todo = << >>, NEW n, AcceptDevice(n), NEW changes, ActivityAllowed(n, changes),
         UpdateDevice(n, changes), UNCHANGED <<told, untold>>, handled' \in 0..MaxPackets
  PROVE  DataInv' /\ KnownKept
<1> DEFINE old == Look(cache, Device(n))
           new == Replace(old, changes)
<1>1. Fits(Device(n), old)
  BY LookFits DEF DataInv
<1>2. Fits(Device(n), new) /\ Later(Device(n), old, new)
  BY <1>1, ReplaceFits
<1>3. Keep(Device(n), new)
  BY DEF UpdateDevice
<1>4. Device(n) \in DOMAIN cache => old = cache[Device(n)]
  BY DEF Look
<1>5. Device(n) \in Subjects /\ Lasting(Device(n))
  BY SubjectParts DEF Lasting
<1> HIDE DEF old, new
<1> QED  BY <1>2, <1>3, <1>4, <1>5, KeepData

LEMMA DiagnosedData ==
  ASSUME DataInv, todo = << >>, NEW changes,
         UpdateDiagnostics(changes), UNCHANGED <<told, untold>>, handled' \in 0..MaxPackets
  PROVE  DataInv' /\ KnownKept
<1> DEFINE old == cache[Diagnosed]
           buses == IF "buses" \in DOMAIN changes THEN Both(old.buses, changes.buses)
                    ELSE old.buses
           all == Both(changes, [buses |-> buses])
           new == Replace(old, all)
<1>1. Diagnosed \in DOMAIN cache /\ DOMAIN old = DOMAIN NewDiagnostics
  BY DEF DataInv, CacheInv, Fits
<1>2. "buses" \in DOMAIN old
  BY <1>1 DEF NewDiagnostics
<1>3. "buses" \in DOMAIN all /\ all["buses"] = buses
  BY DEF Both
<1>4. DOMAIN old.buses \subseteq DOMAIN buses
  BY DEF Both
<1>5. Keep(Diagnosed, new)
  BY DEF UpdateDiagnostics
<1> HIDE DEF all, buses
<1>6. DOMAIN new = DOMAIN old /\ new["buses"] = buses
  BY <1>2, <1>3 DEF Replace
<1>7. Fits(Diagnosed, new) /\ Later(Diagnosed, old, new)
  BY <1>1, <1>4, <1>6, SubjectParts DEF Fits, Later
<1>8. Diagnosed \in Subjects /\ Lasting(Diagnosed)
  BY SubjectParts DEF Lasting
<1> HIDE DEF new
<1> QED  BY <1>5, <1>7, <1>8, KeepData

LEMMA CentralData ==
  ASSUME DataInv, todo = << >>, NEW new, Keep(CentralUnit, new),
         UNCHANGED <<told, untold>>, handled' \in 0..MaxPackets
  PROVE  DataInv' /\ KnownKept
<1>1. CentralUnit \in Subjects /\ Lasting(CentralUnit)
  BY SubjectParts DEF Lasting
<1>2. Fits(CentralUnit, new) /\ Later(CentralUnit, cache[CentralUnit], new)
  BY SubjectParts DEF Fits, Later
<1> QED  BY <1>1, <1>2, KeepData

LEMMA SameData ==
  ASSUME DataInv, UNCHANGED <<cache, told, todo, untold>>, handled' \in 0..MaxPackets
  PROVE  DataInv' /\ KnownKept
<1>1. CacheInv' /\ ToldInv' /\ KnownKept
  BY DEF DataInv, CacheInv, ToldInv, Fits, Inactive, KnownKept, Later, Subjects,
         CentralUnit, Diagnosed, NewSnapshot, NewDiagnostics
<1>2. TodoInv'
  <2>1. TodoInv /\ todo' = todo /\ cache' = cache
    BY DEF DataInv
  <2>2. /\ todo' \in Seq({todo'[i] : i \in DOMAIN todo'})
        /\ \A i, j \in DOMAIN todo' : i < j /\ todo'[i].do = "store" => todo'[j].do = "store"
    BY <2>1 DEF TodoInv
  <2>3. Subjects' = Subjects
    BY DEF Subjects, CentralUnit, Diagnosed
  <2>4. ASSUME NEW i \in DOMAIN todo'
        PROVE  /\ todo'[i].do \in {"tell", "store"}
               /\ todo'[i].subject \in Subjects'
               /\ todo'[i].do = "tell" => /\ todo'[i].subject \in DOMAIN cache'
                                          /\ todo'[i].value = cache'[todo'[i].subject]
               /\ todo'[i].do = "store" =>
                    \E n \in 1..230 : /\ AcceptDevice(n) /\ DeviceHasState(n)
                                      /\ todo'[i].subject = Device(n)
                                      /\ todo'[i].value \in BOOLEAN
    BY <2>1, <2>3 DEF TodoInv
  <2> QED  BY <2>2, <2>4 DEF TodoInv, AcceptDevice, DeviceHasState, Device
<1>3. ListenersFollow'
  BY DEF DataInv, ListenersFollow, Look, NewSnapshot
<1> QED  BY <1>1, <1>2, <1>3 DEF DataInv

\* Of the packets' changes only an event's speak of an activity.
LEMMA ChangesAllowed ==
  ASSUME NEW n
  PROVE  /\ \A p : ActivityAllowed(n, DeviceStatus(p))
         /\ \A battery, signal :
              ActivityAllowed(n, Both(BatteryOf(battery), Given([signal_strength |-> signal])))
         /\ \A event, signal :
              ActivityAllowed(n, Both([last_event |-> event], Given([signal_strength |-> signal])))
         /\ \A event, signal, fault, active :
              ActivityAllowed(n, Both(Both([last_event |-> event],
                                           Given([signal_strength |-> signal])),
                                      EventChanges(n, fault, active)))
<1>1. ASSUME NEW first, NEW second, "active" \notin DOMAIN first, "active" \notin DOMAIN second
      PROVE  "active" \notin DOMAIN Both(first, second)
  BY <1>1 DEF Both
<1>2. \A signal : DOMAIN Given([signal_strength |-> signal]) \subseteq {"signal_strength"}
  BY DEF Given
<1>3. \A battery : "active" \notin DOMAIN BatteryOf(battery)
  BY DEF BatteryOf, NoChange
<1>4. ASSUME NEW p PROVE ActivityAllowed(n, DeviceStatus(p))
  <2>1. CASE p.wired
    BY <2>1 DEF DeviceStatus, ActivityAllowed
  <2>2. CASE ~p.wired
    <3> DEFINE signal == [signal_strength |-> p.signal]
               battery == BatteryOf(ParseBatteryState(p.battery))
    <3>1. DeviceStatus(p) = Both(signal, battery)
      BY <2>2 DEF DeviceStatus
    <3>2. "active" \notin DOMAIN signal /\ "active" \notin DOMAIN battery
      BY <1>3
    <3> HIDE DEF signal, battery
    <3>3. "active" \notin DOMAIN Both(signal, battery)
      BY <1>1, <3>2
    <3> QED  BY <3>1, <3>3 DEF ActivityAllowed
  <2> QED  BY <2>1, <2>2
<1>5. ASSUME NEW battery, NEW signal
      PROVE  ActivityAllowed(n, Both(BatteryOf(battery), Given([signal_strength |-> signal])))
  <2> DEFINE first == BatteryOf(battery)
             second == Given([signal_strength |-> signal])
  <2>1. "active" \notin DOMAIN first /\ "active" \notin DOMAIN second
    BY <1>2, <1>3
  <2> HIDE DEF first, second
  <2>2. "active" \notin DOMAIN Both(first, second)
    BY <1>1, <2>1
  <2>3. ActivityAllowed(n, Both(first, second))
    BY <2>2 DEF ActivityAllowed
  <2> QED  BY <2>3 DEF first, second
<1>6. ASSUME NEW event, NEW signal
      PROVE  "active" \notin
               DOMAIN Both([last_event |-> event], Given([signal_strength |-> signal]))
  <2> DEFINE first == [last_event |-> event]
             second == Given([signal_strength |-> signal])
  <2>1. "active" \notin DOMAIN first /\ "active" \notin DOMAIN second
    BY <1>2
  <2> HIDE DEF first, second
  <2>2. "active" \notin DOMAIN Both(first, second)
    BY <1>1, <2>1
  <2> QED  BY <2>2 DEF first, second
<1>7. ASSUME NEW fault, NEW active
      PROVE  ActivityAllowed(n, EventChanges(n, fault, active))
  <2>1. CASE fault = None /\ active # None /\ DeviceHasState(n)
    BY <2>1 DEF EventChanges, ActivityAllowed, NoChange
  <2>2. CASE ~(fault = None /\ active # None /\ DeviceHasState(n))
    <3>1. "active" \notin DOMAIN EventChanges(n, fault, active)
      BY <2>2 DEF EventChanges, NoChange
    <3> QED  BY <3>1 DEF ActivityAllowed
  <2> QED  BY <2>1, <2>2
<1>8. ASSUME NEW event, NEW signal, NEW fault, NEW active
      PROVE  ActivityAllowed(n, Both(Both([last_event |-> event],
                                          Given([signal_strength |-> signal])),
                                     EventChanges(n, fault, active)))
  <2> DEFINE heard == Both([last_event |-> event], Given([signal_strength |-> signal]))
             changes == EventChanges(n, fault, active)
  <2>1. "active" \notin DOMAIN heard /\ ActivityAllowed(n, changes)
    BY <1>6, <1>7
  <2> HIDE DEF heard, changes
  <2>2. "active" \in DOMAIN Both(heard, changes) =>
          "active" \in DOMAIN changes /\ Both(heard, changes)["active"] = changes["active"]
    BY <2>1 DEF Both
  <2>3. ActivityAllowed(n, Both(heard, changes))
    BY <2>1, <2>2 DEF ActivityAllowed
  <2> QED  BY <2>3 DEF heard, changes
<1>9. \A event, signal :
        ActivityAllowed(n, Both([last_event |-> event], Given([signal_strength |-> signal])))
  BY <1>6 DEF ActivityAllowed
<1> QED  BY <1>4, <1>5, <1>8, <1>9

\* Whatever a packet says, what is stored stays complete and is announced.
LEMMA ReceivedData ==
  ASSUME DataInv, NEW p \in Packet, Receive(p)
  PROVE  DataInv' /\ KnownKept
<1>1. /\ todo = << >> /\ UNCHANGED <<told, untold>> /\ handled' \in 0..MaxPackets
  BY BoundAssumption DEF Receive, DataInv
<1>2. CASE HandleSystemInfo(p)
  BY <1>1, <1>2, CentralData DEF HandleSystemInfo
<1>3. CASE HandleDeviceStates(p)
  BY <1>1, <1>3, BitmapData
<1>4. CASE HandleSections(p)
  <2>1. p.bytes \in Seq(Byte)
    BY <1>4, PacketAssumption DEF HandleSections
  <2>2. PICK c \in 0..230 :
          /\ DOMAIN ParseSectionStates(p.bytes) = 1..c
          /\ \A n \in 1..c : ParseSectionStates(p.bytes)[n] # None
    BY <1>4, <2>1, SectionStatesGiven DEF HandleSections
  <2> QED  BY <1>1, <1>4, <2>2, TablesData DEF HandleSections
<1>5. CASE HandlePgOutputs(p)
  <2>1. p.bytes \in Seq(Byte)
    BY <1>5, PacketAssumption DEF HandlePgOutputs
  <2>2. PICK c \in 0..230 :
          /\ DOMAIN ParsePgOutputStates(p.bytes, Outputs) = 1..c
          /\ \A n \in 1..c : ParsePgOutputStates(p.bytes, Outputs)[n] # None
    BY <1>5, <2>1, OutputStatesGiven DEF HandlePgOutputs
  <2> QED  BY <1>1, <1>5, <2>2, TablesData DEF HandlePgOutputs
<1>6. ASSUME Ignore PROVE DataInv' /\ KnownKept
  BY <1>1, <1>6, SameData DEF Ignore
<1>7. ASSUME NEW changes, UpdateDiagnostics(changes) PROVE DataInv' /\ KnownKept
  BY <1>1, <1>7, DiagnosedData
<1>8. ASSUME NEW changes, AcceptDevice(p.number), ActivityAllowed(p.number, changes),
             UpdateDevice(p.number, changes)
      PROVE  DataInv' /\ KnownKept
  BY <1>1, <1>8, DeviceData
<1>9. CASE HandleDeviceStatus(p)
  <2>1. \/ Ignore
        \/ \E changes : UpdateDiagnostics(changes)
        \/ AcceptDevice(p.number) /\ UpdateDevice(p.number, DeviceStatus(p))
    BY <1>9 DEF HandleDeviceStatus
  <2> QED  BY <1>6, <1>7, <1>8, <2>1, ChangesAllowed
<1>10. CASE HandleDeviceState(p)
  <2> DEFINE heard == Both([last_event |-> p.event], Given([signal_strength |-> p.signal]))
             all == Both(heard, EventChanges(p.number, FaultOf(p.event),
                                             DecodeActiveState(p.byte, p.number)))
  <2>1. \/ Ignore
        \/ \E changes : UpdateDiagnostics(changes)
        \/ AcceptDevice(p.number) /\ UpdateDevice(p.number, heard)
        \/ AcceptDevice(p.number) /\ UpdateDevice(p.number, all)
    BY <1>10 DEF HandleDeviceState
  <2>2. ActivityAllowed(p.number, heard) /\ ActivityAllowed(p.number, all)
    BY ChangesAllowed
  <2> HIDE DEF heard, all
  <2> QED  BY <1>6, <1>7, <1>8, <2>1, <2>2
<1>11. CASE HandleDeviceInfo(p)
  <2> DEFINE battery == IF p.status = None THEN NoChange
                        ELSE BatteryOf(ParseBatteryState(p.status))
             all == Both(battery, Given([signal_strength |-> p.signal]))
  <2>1. \/ Ignore
        \/ \E changes : UpdateDiagnostics(changes)
        \/ AcceptDevice(p.number) /\ UpdateDevice(p.number, all)
    BY <1>11 DEF HandleDeviceInfo
  <2>2. battery = BatteryOf(IF p.status = None THEN None ELSE ParseBatteryState(p.status))
    BY DEF BatteryOf
  <2>3. ActivityAllowed(p.number, all)
    BY <2>2, ChangesAllowed
  <2> HIDE DEF all
  <2> QED  BY <1>6, <1>7, <1>8, <2>1, <2>3
<1> QED  BY <1>2, <1>3, <1>4, <1>5, <1>9, <1>10, <1>11 DEF Receive, Handle

-----------------------------------------------------------------------------
(* The reader *)

\* What is left after the first thing is done.
LEMMA TailOf ==
  ASSUME NEW S, NEW t \in Seq(S), t # << >>
  PROVE  /\ Head(t) = t[1] /\ 1 \in DOMAIN t
         /\ Tail(t) \in Seq(S)
         /\ Len(Tail(t)) = Len(t) - 1
         /\ \A i \in DOMAIN Tail(t) : i + 1 \in DOMAIN t /\ Tail(t)[i] = t[i + 1]
         /\ \A i \in DOMAIN t : i # 1 => i - 1 \in DOMAIN Tail(t) /\ Tail(t)[i - 1] = t[i]
OBVIOUS

\* What is left after a step, said of that sequence.
LEMMA TodoKept ==
  ASSUME NEW t, todo' = t, t \in Seq({t[i] : i \in DOMAIN t}),
         \A i, j \in DOMAIN t : i < j /\ t[i].do = "store" => t[j].do = "store",
         \A i \in DOMAIN t :
           /\ t[i].do \in {"tell", "store"}
           /\ t[i].subject \in Subjects
           /\ t[i].do = "tell" => /\ t[i].subject \in DOMAIN cache'
                                  /\ t[i].value = cache'[t[i].subject]
           /\ t[i].do = "store" =>
                \E n \in 1..230 : /\ AcceptDevice(n) /\ DeviceHasState(n)
                                  /\ t[i].subject = Device(n)
                                  /\ t[i].value \in BOOLEAN
  PROVE  TodoInv'
<1>1. Subjects' = Subjects
  BY DEF Subjects, CentralUnit, Diagnosed
<1> QED  BY <1>1 DEF TodoInv, AcceptDevice, DeviceHasState, Device

LEMMA ToldData ==
  ASSUME DataInv, TellListener
  PROVE  DataInv' /\ KnownKept
<1> DEFINE things == {todo[i] : i \in DOMAIN todo}
           rest == Tail(todo)
           subject == Head(todo).subject
<1>1. /\ todo \in Seq(things) /\ todo # << >> /\ Head(todo).do = "tell"
      /\ told' = Put(told, subject, Head(todo).value)
      /\ untold' = untold \ {subject} /\ todo' = rest
      /\ cache' = cache /\ handled' = handled
  BY DEF TellListener, DataInv, TodoInv
<1> HIDE DEF things
<1>2. /\ Head(todo) = todo[1] /\ 1 \in DOMAIN todo
      /\ rest \in Seq(things)
      /\ \A i \in DOMAIN rest : i + 1 \in DOMAIN todo /\ rest[i] = todo[i + 1]
      /\ \A i \in DOMAIN todo : i # 1 => i - 1 \in DOMAIN rest /\ rest[i - 1] = todo[i]
      /\ DOMAIN rest \subseteq Nat
  BY <1>1, TailOf
<1>3. /\ subject \in Subjects /\ subject \in DOMAIN cache
      /\ Head(todo).value = cache[subject]
  BY <1>1, <1>2 DEF DataInv, TodoInv
<1>5. Subjects' = Subjects
  BY DEF Subjects, CentralUnit, Diagnosed
<1> HIDE DEF rest
<1>4. rest \in Seq({rest[i] : i \in DOMAIN rest})
  BY <1>2, OwnSequence
<1> HIDE DEF subject
<1>6. TodoInv'
  <2>1. \A i, j \in DOMAIN rest : i < j /\ rest[i].do = "store" => rest[j].do = "store"
    <3> SUFFICES ASSUME NEW i \in DOMAIN rest, NEW j \in DOMAIN rest, i < j,
                        rest[i].do = "store"
                 PROVE  rest[j].do = "store"
      OBVIOUS
    <3>1. /\ i + 1 \in DOMAIN todo /\ j + 1 \in DOMAIN todo /\ i + 1 < j + 1
          /\ todo[i + 1].do = "store" /\ rest[j] = todo[j + 1]
      BY <1>2
    <3> QED  BY <3>1 DEF DataInv, TodoInv
  <2>2. ASSUME NEW i \in DOMAIN rest
        PROVE  /\ rest[i].do \in {"tell", "store"}
               /\ rest[i].subject \in Subjects
               /\ rest[i].do = "tell" => /\ rest[i].subject \in DOMAIN cache
                                         /\ rest[i].value = cache[rest[i].subject]
               /\ rest[i].do = "store" =>
                    \E n \in 1..230 : /\ AcceptDevice(n) /\ DeviceHasState(n)
                                      /\ rest[i].subject = Device(n)
                                      /\ rest[i].value \in BOOLEAN
    <3>1. i + 1 \in DOMAIN todo /\ rest[i] = todo[i + 1]
      BY <1>2
    <3> QED  BY <3>1 DEF DataInv, TodoInv
  <2>3. todo' = rest /\ cache' = cache
    BY <1>1
  <2> QED  BY <1>4, <2>1, <2>2, <2>3, TodoKept
<1>7. /\ DOMAIN told' = DOMAIN told \cup {subject}
      /\ told'[subject] = cache[subject]
      /\ \A s \in DOMAIN told : s # subject => told'[s] = told[s]
  BY <1>1, <1>3 DEF Put
<1>8. CacheInv' /\ KnownKept
  BY <1>1 DEF DataInv, CacheInv, Fits, Inactive, KnownKept, Later, Subjects,
              CentralUnit, Diagnosed, NewSnapshot, NewDiagnostics
<1>9. ToldInv'
  BY <1>1, <1>3, <1>5, <1>7 DEF DataInv, ToldInv
<1>10. ListenersFollow'
  <2> SUFFICES ASSUME NEW s \in DOMAIN cache
               PROVE  \/ Look(told', s) = cache[s]
                      \/ \E i \in DOMAIN rest :
                           /\ rest[i].do = "tell" /\ rest[i].subject = s
                           /\ rest[i].value = cache[s]
                      \/ s \in untold'
    BY <1>1 DEF ListenersFollow, Look, NewSnapshot
  <2>1. CASE s = subject
    BY <1>7, <2>1 DEF Look
  <2>2. CASE s # subject /\ Look(told, s) = cache[s]
    BY <1>7, <2>2 DEF Look
  <2>3. CASE s # subject /\ s \in untold
    BY <1>1, <2>3
  <2>4. CASE s # subject /\ \E i \in DOMAIN todo :
                             /\ todo[i].do = "tell" /\ todo[i].subject = s
                             /\ todo[i].value = cache[s]
    <3>1. PICK i \in DOMAIN todo : /\ todo[i].do = "tell" /\ todo[i].subject = s
                                   /\ todo[i].value = cache[s]
      BY <2>4
    <3>2. i # 1
      BY <1>2, <2>4, <3>1 DEF subject
    <3>3. i - 1 \in DOMAIN rest /\ rest[i - 1] = todo[i]
      BY <1>2, <3>2
    <3> QED  BY <3>1, <3>3
  <2> QED  BY <2>1, <2>2, <2>3, <2>4 DEF DataInv, ListenersFollow
<1> QED  BY <1>1, <1>6, <1>8, <1>9, <1>10 DEF DataInv

LEMMA OneBefore ==
  ASSUME NEW S, NEW x \in S, NEW t \in Seq(S)
  PROVE  /\ <<x>> \o t \in Seq(S)
         /\ 1 \in DOMAIN (<<x>> \o t) /\ (<<x>> \o t)[1] = x
         /\ \A i \in DOMAIN (<<x>> \o t) :
              i # 1 => i - 1 \in DOMAIN t /\ (<<x>> \o t)[i] = t[i - 1]
<1>1. PICK n \in Nat : n = Len(t)
  OBVIOUS
<1>2. DOMAIN t = 1..n /\ \A i \in 1..n : t[i] \in S
  BY <1>1
<1>3. <<x>> \o t = [i \in 1..(1 + n) |-> IF i = 1 THEN x ELSE t[i - 1]]
  BY <1>1
<1>4. \A i \in 1..(1 + n) : i # 1 => i - 1 \in 1..n
  OBVIOUS
<1>5. <<x>> \o t \in Seq(S)
  <2>1. 1 + n \in Nat /\ \A i \in 1..(1 + n) : (IF i = 1 THEN x ELSE t[i - 1]) \in S
    BY <1>2, <1>4
  <2>2. [i \in 1..(1 + n) |-> IF i = 1 THEN x ELSE t[i - 1]] \in Seq(S)
    BY <2>1, IsASeq
  <2> QED  BY <1>3, <2>2
<1> QED  BY <1>2, <1>3, <1>4, <1>5

\* A device's activity is stored and, if it is new, announced before the rest.
LEMMA StoredData ==
  ASSUME DataInv, StoreActive
  PROVE  DataInv' /\ KnownKept
<1> DEFINE things == {todo[i] : i \in DOMAIN todo}
           rest == Tail(todo)
           subject == Head(todo).subject
           new == Replace(Look(cache, subject), [active |-> Head(todo).value])
<1>1. /\ todo \in Seq(things) /\ todo # << >> /\ Head(todo).do = "store"
      /\ cache' = Put(cache, subject, new)
      /\ todo' = Announced(subject, new) \o rest
      /\ UNCHANGED <<told, untold, handled>>
  BY DEF StoreActive, DataInv, TodoInv
<1> HIDE DEF things
<1>2. /\ Head(todo) = todo[1] /\ 1 \in DOMAIN todo
      /\ rest \in Seq(things)
      /\ \A i \in DOMAIN rest : i + 1 \in DOMAIN todo /\ rest[i] = todo[i + 1]
      /\ DOMAIN rest \subseteq Nat
  BY <1>1, TailOf
<1>3. PICK n \in 1..230 : /\ AcceptDevice(n) /\ DeviceHasState(n)
                          /\ subject = Device(n)
                          /\ Head(todo).value \in BOOLEAN
  BY <1>1, <1>2 DEF DataInv, TodoInv
<1>4. \A i \in DOMAIN todo : todo[i].do = "store"
  <2> SUFFICES ASSUME NEW i \in DOMAIN todo PROVE todo[i].do = "store"
    OBVIOUS
  <2>1. DOMAIN todo = 1..Len(todo) /\ Len(todo) \in Nat
    BY <1>1
  <2>2. CASE i = 1
    BY <1>1, <1>2, <2>2
  <2>3. CASE i # 1
    <3>1. 1 < i
      BY <2>1, <2>3
    <3> QED  BY <1>1, <1>2, <3>1 DEF DataInv, TodoInv
  <2> QED  BY <2>2, <2>3
<1>5. /\ Fits(subject, new) /\ subject \in Subjects
      /\ subject \in DOMAIN cache => Later(subject, cache[subject], new)
  <2> DEFINE old == Look(cache, Device(n))
             changes == [active |-> Head(todo).value]
  <2>1. Fits(Device(n), old)
    BY <1>3, LookFits DEF DataInv
  <2>2. ActivityAllowed(n, changes)
    BY <1>3, NoneAssumption DEF ActivityAllowed
  <2> HIDE DEF changes
  <2>3. Fits(Device(n), Replace(old, changes)) /\ Later(Device(n), old, Replace(old, changes))
    BY <2>1, <2>2, ReplaceFits
  <2>4. new = Replace(old, changes)
    BY <1>3 DEF changes
  <2>5. Device(n) \in DOMAIN cache => old = cache[Device(n)]
    BY DEF Look
  <2>6. Device(n) \in Subjects
    BY SubjectParts
  <2> HIDE DEF old, new
  <2> QED  BY <1>3, <2>3, <2>4, <2>5, <2>6
<1> HIDE DEF rest
<1>6. \A i \in DOMAIN rest : rest[i].do = "store"
  BY <1>2, <1>4
<1> HIDE DEF subject, new
<1>7. /\ DOMAIN cache' = DOMAIN cache \cup {subject}
      /\ cache'[subject] = new
      /\ \A s \in DOMAIN cache : s # subject => cache'[s] = cache[s]
  BY <1>1, PutParts
<1>8. CacheInv' /\ KnownKept
  BY <1>1, <1>5, PutCache DEF DataInv
<1>9. Subjects' = Subjects
  BY DEF Subjects, CentralUnit, Diagnosed
<1>10. ASSUME NEW i \in DOMAIN rest
       PROVE  /\ rest[i].do = "store" /\ rest[i].subject \in Subjects
              /\ \E m \in 1..230 : /\ AcceptDevice(m) /\ DeviceHasState(m)
                                   /\ rest[i].subject = Device(m)
                                   /\ rest[i].value \in BOOLEAN
  <2>1. i + 1 \in DOMAIN todo /\ rest[i] = todo[i + 1] /\ rest[i].do = "store"
    BY <1>2, <1>6
  <2> QED  BY <2>1 DEF DataInv, TodoInv
<1>11. ASSUME NEW t, todo' = t, t \in Seq({t[i] : i \in DOMAIN t}),
              \A i \in DOMAIN t :
                \/ i = 1 /\ t[i] = Tell(subject, new)
                \/ \E j \in DOMAIN rest : t[i] = rest[j]
       PROVE  TodoInv'
  <2>1. /\ Tell(subject, new).do = "tell" /\ Tell(subject, new).subject = subject
        /\ Tell(subject, new).value = new
    BY DEF Tell
  <2>2. \A i \in DOMAIN t :
          /\ t[i].do \in {"tell", "store"}
          /\ t[i].subject \in Subjects
          /\ t[i].do = "tell" => /\ i = 1
                                 /\ t[i].subject \in DOMAIN cache'
                                 /\ t[i].value = cache'[t[i].subject]
          /\ t[i].do = "store" =>
               \E m \in 1..230 : /\ AcceptDevice(m) /\ DeviceHasState(m)
                                 /\ t[i].subject = Device(m)
                                 /\ t[i].value \in BOOLEAN
    <3> SUFFICES ASSUME NEW i \in DOMAIN t
                 PROVE  /\ t[i].do \in {"tell", "store"}
                        /\ t[i].subject \in Subjects
                        /\ t[i].do = "tell" => /\ i = 1
                                               /\ t[i].subject \in DOMAIN cache'
                                               /\ t[i].value = cache'[t[i].subject]
                        /\ t[i].do = "store" =>
                             \E m \in 1..230 : /\ AcceptDevice(m) /\ DeviceHasState(m)
                                               /\ t[i].subject = Device(m)
                                               /\ t[i].value \in BOOLEAN
      OBVIOUS
    <3>1. CASE i = 1 /\ t[i] = Tell(subject, new)
      BY <1>5, <1>7, <2>1, <3>1
    <3>2. CASE \E j \in DOMAIN rest : t[i] = rest[j]
      <4>1. PICK j \in DOMAIN rest : t[i] = rest[j]
        BY <3>2
      <4> QED  BY <1>10, <4>1
    <3> QED  BY <1>11, <3>1, <3>2
  <2>3. DOMAIN t \subseteq Nat \ {0}
    BY <1>11
  <2>4. \A i, j \in DOMAIN t : i < j /\ t[i].do = "store" => t[j].do = "store"
    BY <2>2, <2>3
  <2> QED  BY <1>11, <2>2, <2>4, TodoKept
<1>12. ASSUME Look(cache, subject) = new PROVE TodoInv' /\ ListenersFollow'
  <2>1. todo' = rest
    BY <1>1, <1>2, <1>12 DEF Announced
  <2>2. rest \in Seq({rest[i] : i \in DOMAIN rest})
    BY <1>2, OwnSequence
  <2>3. TodoInv'
    BY <1>11, <2>1, <2>2
  <2>4. ListenersFollow'
    <3> SUFFICES ASSUME NEW s \in DOMAIN cache'
                 PROVE  Look(told, s) = cache'[s] \/ s \in untold
      BY <1>1 DEF ListenersFollow, Look, NewSnapshot
    <3>1. CASE s \in DOMAIN cache
      <4>1. cache'[s] = cache[s]
        BY <1>7, <1>12, <3>1 DEF Look
      <4> QED  BY <1>4, <3>1, <4>1 DEF DataInv, ListenersFollow
    <3>2. CASE s \notin DOMAIN cache
      <4>1. s = subject /\ s[1] = "device"
        BY <1>3, <1>7, <3>2, SubjectParts
      <4>2. s \notin DOMAIN told
        BY <3>2, <4>1 DEF DataInv, ToldInv
      <4> QED  BY <1>7, <1>12, <3>2, <4>1, <4>2 DEF Look
    <3> QED  BY <3>1, <3>2
  <2> QED  BY <2>3, <2>4
<1>13. ASSUME Look(cache, subject) # new PROVE TodoInv' /\ ListenersFollow'
  <2> DEFINE first == Tell(subject, new)
             t == <<first>> \o rest
  <2>1. todo' = t
    BY <1>1, <1>13 DEF Announced
  <2>2. /\ t \in Seq({t[i] : i \in DOMAIN t})
        /\ 1 \in DOMAIN t /\ t[1] = Tell(subject, new)
        /\ \A i \in DOMAIN t : i = 1 \/ \E j \in DOMAIN rest : t[i] = rest[j]
    <3> DEFINE all == things \cup {first}
    <3>1. first \in all /\ rest \in Seq(all)
      BY <1>2
    <3> HIDE DEF first, all
    <3>2. /\ t \in Seq(all)
          /\ 1 \in DOMAIN t /\ t[1] = first
          /\ \A i \in DOMAIN t : i # 1 => i - 1 \in DOMAIN rest /\ t[i] = rest[i - 1]
      BY <3>1, OneBefore
    <3> HIDE DEF t
    <3>3. t \in Seq({t[i] : i \in DOMAIN t})
      BY <3>2, OwnSequence
    <3> QED  BY <3>2, <3>3 DEF first
  <2> HIDE DEF t, first
  <2>3. TodoInv'
    BY <1>11, <2>1, <2>2
  <2>4. ListenersFollow'
    <3> SUFFICES ASSUME NEW s \in DOMAIN cache'
                 PROVE  \/ Look(told, s) = cache'[s]
                        \/ \E i \in DOMAIN t :
                             /\ t[i].do = "tell" /\ t[i].subject = s
                             /\ t[i].value = cache'[s]
                        \/ s \in untold
      BY <1>1, <2>1 DEF ListenersFollow, Look, NewSnapshot
    <3>1. CASE s = subject
      BY <1>7, <2>2, <3>1 DEF Tell
    <3>2. CASE s # subject
      <4>1. s \in DOMAIN cache /\ cache'[s] = cache[s]
        BY <1>7, <3>2
      <4> QED  BY <1>4, <4>1 DEF DataInv, ListenersFollow
    <3> QED  BY <3>1, <3>2
  <2> QED  BY <2>3, <2>4
<1>14. ToldInv'
  BY <1>1, <1>7, <1>9 DEF DataInv, ToldInv
<1> QED  BY <1>1, <1>8, <1>12, <1>13, <1>14 DEF DataInv

\* Cancelled, the reader owes its listeners what it did not come to.
LEMMA CancelledData ==
  ASSUME DataInv, CancelReader
  PROVE  DataInv' /\ KnownKept
<1>1. /\ untold' = untold \cup Unannounced /\ todo' = << >>
      /\ cache' = cache /\ told' = told /\ handled' = handled
  BY DEF CancelReader
<1>2. Unannounced \subseteq Subjects
  BY DEF Unannounced, DataInv, TodoInv
<1>3. CacheInv' /\ ToldInv' /\ KnownKept
  <2>1. CacheInv' /\ KnownKept
    BY <1>1 DEF DataInv, CacheInv, Fits, Inactive, KnownKept, Later, Subjects,
                CentralUnit, Diagnosed, NewSnapshot, NewDiagnostics
  <2>2. Subjects' = Subjects
    BY DEF Subjects, CentralUnit, Diagnosed
  <2>3. ToldInv'
    BY <1>1, <1>2, <2>2 DEF DataInv, ToldInv
  <2> QED  BY <2>1, <2>3
<1>4. ListenersFollow'
  <2> SUFFICES ASSUME NEW s \in DOMAIN cache
               PROVE  Look(told, s) = cache[s] \/ s \in untold'
    BY <1>1 DEF ListenersFollow, Look, NewSnapshot
  <2>1. CASE \E i \in DOMAIN todo : todo[i].do = "tell" /\ todo[i].subject = s
    BY <1>1, <2>1 DEF Unannounced
  <2>2. CASE Look(told, s) = cache[s] \/ s \in untold
    BY <1>1, <2>2
  <2> QED  BY <2>1, <2>2 DEF DataInv, ListenersFollow
<1>5. TodoInv'
  BY <1>1, NothingTold
<1> QED  BY <1>1, <1>3, <1>4, <1>5 DEF DataInv

-----------------------------------------------------------------------------
(* The specification *)

LEMMA InitData == ASSUME Init PROVE DataInv
<1> DEFINE devices == {Device(n) : n \in {m \in DOMAIN Definitions : AcceptDevice(m)}}
           record(s) == CASE s = CentralUnit -> NewCentralUnit
                          [] s = Diagnosed -> NewDiagnostics
                          [] OTHER -> NewSnapshot
<1>1. /\ cache = [s \in {CentralUnit, Diagnosed} \cup devices |-> record(s)]
      /\ told = cache /\ todo = << >> /\ untold = {} /\ handled = 0
  BY DEF Init
<1>2. ASSUME NEW s \in devices
      PROVE  \E n \in 1..230 : s = Device(n) /\ AcceptDevice(n)
  BY DEF AcceptDevice
<1>3. ASSUME NEW s \in DOMAIN cache
      PROVE  s \in Subjects /\ Fits(s, cache[s])
  <2>1. CASE s = CentralUnit
    BY <2>1, SubjectParts DEF Fits
  <2>2. CASE s = Diagnosed
    <3>1. cache[s] = NewDiagnostics
      BY <1>1, <2>2, SubjectParts
    <3> QED  BY <2>2, <3>1, SubjectParts DEF Fits
  <2>3. CASE s \in devices
    <3>1. PICK n \in 1..230 : s = Device(n) /\ AcceptDevice(n)
      BY <1>2, <2>3
    <3>2. s # CentralUnit /\ s # Diagnosed
      BY <3>1, SubjectParts
    <3>3. cache[s] = NewSnapshot
      BY <1>1, <3>2
    <3>4. NewSnapshot.active = None
      BY DEF NewSnapshot
    <3> QED  BY <3>1, <3>2, <3>3, <3>4, SubjectParts DEF Fits, AcceptDevice
  <2> QED  BY <1>1, <2>1, <2>2, <2>3
<1>4. CacheInv
  BY <1>1, <1>3 DEF CacheInv
<1>5. TodoInv
  BY <1>1 DEF TodoInv
<1>6. ToldInv /\ ListenersFollow
  BY <1>1, <1>4 DEF ToldInv, CacheInv, ListenersFollow, Look
<1> QED  BY <1>1, <1>4, <1>5, <1>6, BoundAssumption DEF DataInv

LEMMA NextData ==
  ASSUME DataInv, [NextDiagnostics]_vars
  PROVE  DataInv' /\ KnownKept
<1>1. CASE ReceivePacket
  BY <1>1, ReceivedData DEF ReceivePacket
<1>2. CASE ReceiveUnreadable
  <2>1. UNCHANGED <<cache, told, todo, untold>> /\ handled' \in 0..MaxPackets
    BY <1>2, BoundAssumption DEF ReceiveUnreadable, DataInv
  <2> QED  BY <2>1, SameData
<1>3. CASE HandleOn
  BY <1>3, ToldData, StoredData DEF HandleOn
<1>4. CASE StopReader
  BY <1>4, CancelledData DEF StopReader
<1>5. ASSUME UNCHANGED dataVars PROVE DataInv' /\ KnownKept
  <2>1. UNCHANGED <<cache, told, todo, untold>> /\ handled' \in 0..MaxPackets
    BY <1>5 DEF dataVars, DataInv
  <2> QED  BY <2>1, SameData
<1>6. CASE Lose \/ Reconnect
  BY <1>5, <1>6 DEF Lose, Reconnect
<1>7. ASSUME NEW p \in Pass, PassStep(p) PROVE DataInv' /\ KnownKept
  <2>1. UNCHANGED dataVars
    BY <1>7 DEF PassStep, Begin, Identified, Asked, AskGivenUp, Answered, TimedOut,
                Cancelled, WaitOver, TurnedOff, OffGivenUp
  <2> QED  BY <1>5, <2>1
<1>8. CASE UNCHANGED vars
  BY <1>5, <1>8 DEF vars
<1> QED  BY <1>1, <1>2, <1>3, <1>4, <1>6, <1>7, <1>8 DEF NextDiagnostics

\* The state model keeps its shape.
LEMMA DataTypes == ASSUME DataInv PROVE TypeOK
BY DEF DataInv, CacheInv, TodoInv, ToldInv, Fits, TypeOK

LEMMA DataStateless == ASSUME DataInv PROVE StatelessStay
BY DEF DataInv, CacheInv, Fits, Inactive, StatelessStay

LEMMA DataAlways == Spec => []DataInv
<1>1. InitDiagnostics => DataInv
  BY InitData DEF InitDiagnostics
<1>2. DataInv /\ [NextDiagnostics]_vars => DataInv'
  BY NextData
<1> QED  BY <1>1, <1>2, PTL DEF Spec

\* For any configuration, any packets in any order and any number of passes, the
\* state model stays well formed: its subjects are real, its devices are
\* configured and not ignored, and what is left to announce can be announced.
THEOREM DataTyped == Spec => []TypeOK
BY DataAlways, DataTypes, PTL

\* _publish_state follows every store that changes something, for any packets:
\* no listener is left with a value the client no longer holds, unless the
\* reader was cancelled between the two.
THEOREM ListenersInformed == Spec => []ListenersFollow
<1>1. DataInv => ListenersFollow
  BY DEF DataInv
<1> QED  BY <1>1, DataAlways, PTL

\* A device whose type has no activity never gets one, through the bitmap or an
\* event, for any configuration and any packets.
THEOREM StatelessKept == Spec => []StatelessStay
BY DataAlways, DataStateless, PTL

\* What is once known of a device's activity or of a bus never becomes unknown,
\* whatever incomplete packets, lost connections and reconnections follow.
THEOREM KnownLasts == Spec => KnownStaysKnown
<1>1. DataInv /\ [NextDiagnostics]_vars =>
        [\A s \in DOMAIN cache :
           /\ s[1] = "device" /\ cache[s].active # None => cache'[s].active # None
           /\ s = Diagnosed => DOMAIN cache[s].buses \subseteq DOMAIN cache'[s].buses]_dataVars
  BY NextData DEF KnownKept, Later
<1> QED  BY <1>1, DataAlways, PTL DEF Spec, KnownStaysKnown

-----------------------------------------------------------------------------
(* Batteries: the inductive invariant *)

\* A record whose battery is known as a whole or not at all.
Whole(record) ==
  /\ {"battery_ok", "battery_level"} \subseteq DOMAIN record
  /\ record["battery_ok"] = None <=> record["battery_level"] = None

\* Changes that leave a record whole: they speak of no battery, of a whole one, or
\* of the state of one whose level is known.
LeavesWhole(record, changes) ==
  \/ "battery_ok" \notin DOMAIN changes /\ "battery_level" \notin DOMAIN changes
  \/ Whole(changes)
  \/ /\ "battery_ok" \in DOMAIN changes /\ "battery_level" \notin DOMAIN changes
     /\ changes["battery_ok"] # None /\ record["battery_level"] # None

BatteryInv ==
  /\ Diagnosed \in DOMAIN cache
  /\ BatteryWhole
  /\ \A s \in DOMAIN cache : s[1] = "device" \/ s = Diagnosed => Whole(cache[s])

-----------------------------------------------------------------------------
(* Records *)

LEMMA ReplaceWhole ==
  ASSUME NEW record, NEW changes, Whole(record), LeavesWhole(record, changes)
  PROVE  Whole(Replace(record, changes))
<1>1. DOMAIN Replace(record, changes) = DOMAIN record
  BY DEF Replace
<1>2. \A f \in DOMAIN record : Replace(record, changes)[f] =
        IF f \in DOMAIN changes THEN changes[f] ELSE record[f]
  BY DEF Replace
<1> QED  BY <1>1, <1>2 DEF Whole, LeavesWhole

\* Changes without a battery after others.
LEMMA BothWhole ==
  ASSUME NEW record, NEW first, NEW second,
         \/ /\ LeavesWhole(record, first)
            /\ "battery_ok" \notin DOMAIN second /\ "battery_level" \notin DOMAIN second
         \/ /\ LeavesWhole(record, second)
            /\ "battery_ok" \notin DOMAIN first /\ "battery_level" \notin DOMAIN first
  PROVE  LeavesWhole(record, Both(first, second))
<1>1. DOMAIN Both(first, second) = DOMAIN first \cup DOMAIN second
  BY DEF Both
<1>2. \A f \in DOMAIN first \cup DOMAIN second : Both(first, second)[f] =
        IF f \in DOMAIN second THEN second[f] ELSE first[f]
  BY DEF Both
<1> QED  BY <1>1, <1>2 DEF LeavesWhole, Whole

LEMMA BatteryLeaves ==
  ASSUME NEW record, NEW byte \in Byte
  PROVE  LeavesWhole(record, BatteryOf(ParseBatteryState(byte)))
<1> DEFINE battery == ParseBatteryState(byte)
<1>1. CASE battery = None
  BY <1>1 DEF BatteryOf, NoChange, LeavesWhole
<1>2. CASE battery # None
  <2>1. battery = [ok |-> ~Bit(byte, 4) /\ ~Bit(byte, 5), level |-> 10 * (byte % 16)]
    BY <1>2 DEF ParseBatteryState
  <2>2. battery.ok \in BOOLEAN
    BY <2>1 DEF Bit
  <2>3. battery.level \in Nat
    BY <2>1 DEF Byte
  <2>4. battery.ok # None /\ battery.level # None
    BY <2>2, <2>3, NoneAssumption
  <2>5. BatteryOf(battery) = [battery_level |-> battery.level, battery_ok |-> battery.ok]
    BY <1>2 DEF BatteryOf
  <2> QED  BY <2>4, <2>5 DEF LeavesWhole, Whole
<1> QED  BY <1>1, <1>2

-----------------------------------------------------------------------------
(* The cache *)

LEMMA PutKeeps ==
  ASSUME BatteryInv, NEW subject, NEW value, cache' = Put(cache, subject, value),
         subject[1] = "device" \/ subject = Diagnosed => Whole(value)
  PROVE  BatteryInv'
<1>1. DOMAIN cache' = DOMAIN cache \cup {subject}
  BY DEF Put
<1>2. \A s \in DOMAIN cache' : cache'[s] = IF s = subject THEN value ELSE cache[s]
  BY DEF Put
<1>3. Diagnosed' = Diagnosed
  BY DEF Diagnosed
<1>4. \A s \in DOMAIN cache' : s[1] = "device" \/ s = Diagnosed => Whole(cache'[s])
  BY <1>1, <1>2 DEF BatteryInv
<1> QED  BY <1>1, <1>3, <1>4 DEF BatteryInv, BatteryWhole, Whole

LEMMA UpdateDeviceKeeps ==
  ASSUME BatteryInv, NEW n, NEW changes,
         LeavesWhole(Look(cache, Device(n)), changes), UpdateDevice(n, changes)
  PROVE  BatteryInv'
<1>1. Whole(Look(cache, Device(n)))
  <2>1. Device(n)[1] = "device"
    BY DEF Device
  <2>2. CASE Device(n) \in DOMAIN cache
    <3>1. Look(cache, Device(n)) = cache[Device(n)]
      BY <2>2 DEF Look
    <3> QED  BY <2>1, <2>2, <3>1 DEF BatteryInv
  <2>3. CASE Device(n) \notin DOMAIN cache
    <3>1. Look(cache, Device(n)) = NewSnapshot
      BY <2>1, <2>3 DEF Look
    <3>2. Whole(NewSnapshot)
      BY DEF NewSnapshot, Whole
    <3> QED  BY <3>1, <3>2
  <2> QED  BY <2>2, <2>3
<1>2. Whole(Replace(Look(cache, Device(n)), changes))
  BY <1>1, ReplaceWhole
<1>3. cache' = Put(cache, Device(n), Replace(Look(cache, Device(n)), changes))
  BY DEF UpdateDevice, Keep
<1> QED  BY <1>2, <1>3, PutKeeps

LEMMA UpdateDiagnosticsKeeps ==
  ASSUME BatteryInv, NEW changes,
         LeavesWhole(cache[Diagnosed], changes), UpdateDiagnostics(changes)
  PROVE  BatteryInv'
<1> DEFINE old == cache[Diagnosed]
           buses == IF "buses" \in DOMAIN changes THEN Both(old.buses, changes.buses)
                    ELSE old.buses
           merged == Both(changes, [buses |-> buses])
<1>1. cache' = Put(cache, Diagnosed, Replace(old, merged))
  BY DEF UpdateDiagnostics, Keep
<1>2. LeavesWhole(old, merged)
  <2>1. DOMAIN [buses |-> buses] = {"buses"}
    OBVIOUS
  <2> HIDE DEF buses, old
  <2> QED  BY <2>1, BothWhole DEF old
<1>3. Whole(old)
  BY DEF BatteryInv
<1>4. Whole(Replace(old, merged))
  BY <1>2, <1>3, ReplaceWhole
<1> HIDE DEF merged, old
<1> QED  BY <1>1, <1>4, PutKeeps

LEMMA UnchangedKeeps == BatteryInv /\ UNCHANGED cache => BatteryInv'
BY DEF BatteryInv, BatteryWhole, Whole, Diagnosed

-----------------------------------------------------------------------------
(* The handlers *)

LEMMA StatusKeeps ==
  ASSUME BatteryInv, NEW p \in Packet, HandleDeviceStatus(p)
  PROVE  BatteryInv'
<1> DEFINE role == SystemModuleRole(p.number)
<1>1. p.type = "status" /\ p.battery \in Byte
  BY PacketAssumption DEF HandleDeviceStatus
<1>2. CASE role = "lan" /\ p.ip # None
  <2>1. UpdateDiagnostics([lan_ip |-> p.ip])
    BY <1>2 DEF HandleDeviceStatus
  <2>2. LeavesWhole(cache[Diagnosed], [lan_ip |-> p.ip])
    BY DEF LeavesWhole
  <2> QED  BY <2>1, <2>2, UpdateDiagnosticsKeeps
<1>3. CASE role = "gsm" /\ p.gsm # None
  <2>1. UpdateDiagnostics([gsm_signal_strength |-> p.gsm])
    BY <1>3 DEF HandleDeviceStatus
  <2>2. LeavesWhole(cache[Diagnosed], [gsm_signal_strength |-> p.gsm])
    BY DEF LeavesWhole
  <2> QED  BY <2>1, <2>2, UpdateDiagnosticsKeeps
<1>4. CASE ~(role = "lan" /\ p.ip # None) /\ ~(role = "gsm" /\ p.gsm # None)
  <2>1. Ignore \/ UpdateDevice(p.number, DeviceStatus(p))
    BY <1>4 DEF HandleDeviceStatus
  <2>2. LeavesWhole(Look(cache, Device(p.number)), DeviceStatus(p))
    <3>1. CASE p.wired
      BY <3>1 DEF DeviceStatus, LeavesWhole
    <3>2. CASE ~p.wired
      <4>1. DeviceStatus(p) =
              Both([signal_strength |-> p.signal], BatteryOf(ParseBatteryState(p.battery)))
        BY <3>2 DEF DeviceStatus
      <4>2. DOMAIN [signal_strength |-> p.signal] = {"signal_strength"}
        OBVIOUS
      <4> QED  BY <1>1, <4>1, <4>2, BatteryLeaves, BothWhole
    <3> QED  BY <3>1, <3>2
  <2> QED  BY <2>1, <2>2, UpdateDeviceKeeps, UnchangedKeeps DEF Ignore
<1> QED  BY <1>2, <1>3, <1>4

\* An event speaks of a battery's state only when its level is known.
LEMMA EventLeaves ==
  ASSUME NEW n, NEW fault, NEW active
  PROVE  LeavesWhole(Look(cache, Device(n)), EventChanges(n, fault, active))
<1> DEFINE known == Look(cache, Device(n)).battery_level # None
           changes == EventChanges(n, fault, active)
<1>1. CASE fault = "battery" /\ known
  <2>1. changes = [battery_ok |-> active # TRUE]
    <3>1. fault # None
      BY <1>1, NoneAssumption DEF DeviceFault
    <3> QED  BY <1>1, <3>1 DEF EventChanges
  <2>2. changes["battery_ok"] \in BOOLEAN
    BY <2>1
  <2>3. changes["battery_ok"] # None
    BY <2>2, NoneAssumption
  <2>4. DOMAIN changes = {"battery_ok"}
    BY <2>1
  <2> QED  BY <1>1, <2>3, <2>4 DEF LeavesWhole
<1>2. CASE ~(fault = "battery" /\ known)
  <2>1. \/ changes = [problem |-> active = TRUE, sabotage |-> active = TRUE]
        \/ changes = [problem |-> active = TRUE]
        \/ changes = [active |-> active]
        \/ changes = NoChange
    <3> HIDE DEF changes
    <3>1. changes = EventChanges(n, fault, active)
      BY DEF changes
    <3>2. CASE fault = "sabotage"
      BY <3>1, <3>2, <1>2, NoneAssumption DEF EventChanges, DeviceFault
    <3>3. CASE fault \in {"power_supply", "unknown"}
      BY <3>1, <3>3, <1>2, NoneAssumption DEF EventChanges, DeviceFault
    <3>4. CASE fault = "battery"
      BY <3>1, <3>4, <1>2, NoneAssumption DEF EventChanges, DeviceFault
    <3>5. CASE fault \notin {"sabotage", "power_supply", "unknown", "battery"}
      <4>1. CASE fault = None /\ active # None /\ DeviceHasState(n)
        BY <3>1, <3>5, <4>1 DEF EventChanges
      <4>2. CASE ~(fault = None /\ active # None /\ DeviceHasState(n))
        BY <3>1, <3>5, <4>2 DEF EventChanges
      <4> QED  BY <4>1, <4>2
    <3> QED  BY <3>2, <3>3, <3>4, <3>5
  <2>2. "battery_ok" \notin DOMAIN changes /\ "battery_level" \notin DOMAIN changes
    <3>1. CASE changes = [problem |-> active = TRUE, sabotage |-> active = TRUE]
      BY <3>1
    <3>2. CASE changes = [problem |-> active = TRUE]
      BY <3>2
    <3>3. CASE changes = [active |-> active]
      BY <3>3
    <3>4. CASE changes = NoChange
      BY <3>4 DEF NoChange
    <3> QED  BY <2>1, <3>1, <3>2, <3>3, <3>4
  <2> QED  BY <2>2 DEF LeavesWhole
<1> QED  BY <1>1, <1>2

LEMMA GivenDomain == ASSUME NEW changes PROVE DOMAIN Given(changes) \subseteq DOMAIN changes
BY DEF Given

LEMMA EventKeeps ==
  ASSUME BatteryInv, NEW p \in Packet, HandleDeviceState(p)
  PROVE  BatteryInv'
<1> DEFINE role == SystemModuleRole(p.number)
           active == DecodeActiveState(p.byte, p.number)
           fault == FaultOf(p.event)
           signal == [signal_strength |-> p.signal]
           heard == Both([last_event |-> p.event], Given(signal))
           panel == p.number = 0 /\ fault = "power_supply"
           lan == role = "lan" /\ active # None
           gsm == role = "gsm" /\ active # None
<1>1. ASSUME NEW changes, UpdateDiagnostics(changes),
             "battery_ok" \notin DOMAIN changes /\ "battery_level" \notin DOMAIN changes
      PROVE  BatteryInv'
  BY <1>1, UpdateDiagnosticsKeeps DEF LeavesWhole
<1>2. CASE panel
  <2>1. UpdateDiagnostics([power_supply_ok |-> active # TRUE])
    <3>1. role # "lan" /\ role # "gsm"
      BY <1>2, RoleAssumption DEF SystemModuleRole, Role
    <3> QED  BY <1>2, <3>1 DEF HandleDeviceState
  <2>2. DOMAIN [power_supply_ok |-> active # TRUE] = {"power_supply_ok"}
    OBVIOUS
  <2> QED  BY <1>1, <2>1, <2>2
<1>3. CASE ~panel /\ lan
  <2>1. UpdateDiagnostics([lan_connected |-> ~active])
    BY <1>3 DEF HandleDeviceState
  <2>2. DOMAIN [lan_connected |-> ~active] = {"lan_connected"}
    OBVIOUS
  <2> QED  BY <1>1, <2>1, <2>2
<1>4. CASE ~panel /\ gsm
  <2>1. UpdateDiagnostics([gsm_connected |-> ~active])
    BY <1>4 DEF HandleDeviceState
  <2>2. DOMAIN [gsm_connected |-> ~active] = {"gsm_connected"}
    OBVIOUS
  <2> QED  BY <1>1, <2>1, <2>2
<1>5. CASE ~panel /\ ~lan /\ ~gsm
  <2>1. \/ Ignore
        \/ UpdateDevice(p.number, heard)
        \/ UpdateDevice(p.number, Both(heard, EventChanges(p.number, fault, active)))
    BY <1>5 DEF HandleDeviceState
  <2>2. "battery_ok" \notin DOMAIN heard /\ "battery_level" \notin DOMAIN heard
    <3>1. DOMAIN heard = {"last_event"} \cup DOMAIN Given(signal)
      BY DEF Both
    <3>2. DOMAIN Given(signal) \subseteq {"signal_strength"}
      BY GivenDomain
    <3> QED  BY <3>1, <3>2
  <2>3. LeavesWhole(Look(cache, Device(p.number)), heard)
    BY <2>2 DEF LeavesWhole
  <2>4. LeavesWhole(Look(cache, Device(p.number)),
                    Both(heard, EventChanges(p.number, fault, active)))
    BY <2>2, EventLeaves, BothWhole
  <2> HIDE DEF heard
  <2> QED  BY <2>1, <2>3, <2>4, UpdateDeviceKeeps, UnchangedKeeps DEF Ignore
<1> QED  BY <1>2, <1>3, <1>4, <1>5

LEMMA InfoKeeps ==
  ASSUME BatteryInv, NEW p \in Packet, HandleDeviceInfo(p)
  PROVE  BatteryInv'
<1> DEFINE role == SystemModuleRole(p.number)
           battery == IF p.status = None THEN NoChange
                      ELSE BatteryOf(ParseBatteryState(p.status))
           power == IF p.status = None THEN NoChange
                    ELSE [power_supply_ok |-> Bit(p.status, 6)]
           rest == Both(power, [buses |-> p.buses])
           lan == [lan_connected |-> p.link, lan_ip |-> p.ip]
           gsm == [gsm_connected |-> p.link, gsm_signal_strength |-> p.gsm]
           signal == [signal_strength |-> p.signal]
<1>1. p.status \in Byte \cup {None}
  BY PacketAssumption DEF HandleDeviceInfo
<1>2. ASSUME NEW record PROVE LeavesWhole(record, battery)
  <2>1. CASE p.status = None
    BY <2>1 DEF NoChange, LeavesWhole
  <2>2. CASE p.status # None
    BY <1>1, <2>2, BatteryLeaves
  <2> QED  BY <2>1, <2>2
<1>3. CASE p.number = 0
  <2>1. UpdateDiagnostics(Both(battery, rest))
    <3>1. role # "lan" /\ role # "gsm"
      BY <1>3, RoleAssumption DEF SystemModuleRole, Role
    <3> QED  BY <1>3, <3>1 DEF HandleDeviceInfo
  <2>2. "battery_ok" \notin DOMAIN rest /\ "battery_level" \notin DOMAIN rest
    <3>1. DOMAIN rest = DOMAIN power \cup {"buses"}
      BY DEF Both
    <3>2. DOMAIN power \subseteq {"power_supply_ok"}
      BY DEF NoChange
    <3> QED  BY <3>1, <3>2
  <2>3. LeavesWhole(cache[Diagnosed], Both(battery, rest))
    <3> HIDE DEF battery, rest
    <3> QED  BY <1>2, <2>2, BothWhole
  <2> HIDE DEF battery, rest
  <2> QED  BY <2>1, <2>3, UpdateDiagnosticsKeeps
<1>4. CASE p.number # 0 /\ role \in {"lan", "gsm"}
  <2>1. UpdateDiagnostics(Given(lan)) \/ UpdateDiagnostics(Given(gsm))
    BY <1>4 DEF HandleDeviceInfo
  <2>2. LeavesWhole(cache[Diagnosed], Given(lan))
    BY GivenDomain DEF LeavesWhole
  <2>3. LeavesWhole(cache[Diagnosed], Given(gsm))
    BY GivenDomain DEF LeavesWhole
  <2> QED  BY <2>1, <2>2, <2>3, UpdateDiagnosticsKeeps
<1>5. CASE p.number # 0 /\ role \notin {"lan", "gsm"}
  <2>1. Ignore \/ UpdateDevice(p.number, Both(battery, Given(signal)))
    BY <1>5 DEF HandleDeviceInfo
  <2>2. "battery_ok" \notin DOMAIN Given(signal) /\ "battery_level" \notin DOMAIN Given(signal)
    BY GivenDomain
  <2>3. LeavesWhole(Look(cache, Device(p.number)), Both(battery, Given(signal)))
    <3> HIDE DEF battery, signal
    <3> QED  BY <1>2, <2>2, BothWhole
  <2> HIDE DEF battery, signal
  <2> QED  BY <2>1, <2>3, UpdateDeviceKeeps, UnchangedKeeps DEF Ignore
<1> QED  BY <1>3, <1>4, <1>5

\* Sections and outputs are no devices and no diagnostics.
LEMMA TablesKeep ==
  ASSUME BatteryInv, NEW kind \in {"section", "pg_output"}, NEW states,
         ReplaceAll(kind, states)
  PROVE  BatteryInv'
<1> DEFINE subjects == {<<kind, n>> : n \in DOMAIN states}
           others == {s \in DOMAIN cache : s[1] # kind}
<1>1. cache' = [s \in others \cup subjects |->
                  IF s \in subjects THEN states[s[2]] ELSE cache[s]]
  BY DEF ReplaceAll
<1>2. \A s \in subjects : s[1] = kind
  OBVIOUS
<1>3. Diagnosed[1] = "diagnostics" /\ Diagnosed' = Diagnosed
  BY DEF Diagnosed
<1>4. kind # "device" /\ kind # "diagnostics"
  OBVIOUS
<1>5. DOMAIN cache' = others \cup subjects
  BY <1>1
<1>6. Diagnosed \in DOMAIN cache'
  BY <1>3, <1>4, <1>5 DEF BatteryInv
<1>7. \A s \in DOMAIN cache' : s[1] = "device" \/ s = Diagnosed =>
        s \in DOMAIN cache /\ cache'[s] = cache[s]
  <2> HIDE DEF subjects, others
  <2>1. SUFFICES ASSUME NEW s \in DOMAIN cache', s[1] = "device" \/ s = Diagnosed
                 PROVE  s \in DOMAIN cache /\ cache'[s] = cache[s]
    OBVIOUS
  <2>2. s[1] # kind
    BY <1>3, <1>4, <2>1
  <2>3. s \notin subjects /\ s \in others
    BY <1>2, <1>5, <2>2
  <2> QED  BY <1>1, <2>3 DEF others
<1>8. \A s \in DOMAIN cache' : s[1] = "device" \/ s = Diagnosed => Whole(cache'[s])
  BY <1>7 DEF BatteryInv
<1> QED  BY <1>3, <1>6, <1>8 DEF BatteryInv, BatteryWhole, Whole

LEMMA SystemInfoKeeps ==
  ASSUME BatteryInv, NEW p, HandleSystemInfo(p)
  PROVE  BatteryInv'
<1>1. CentralUnit[1] # "device" /\ CentralUnit # Diagnosed
  BY DEF CentralUnit, Diagnosed
<1>2. PICK value : cache' = Put(cache, CentralUnit, value)
  BY DEF HandleSystemInfo, Keep
<1> QED  BY <1>1, <1>2, PutKeeps

-----------------------------------------------------------------------------
(* The reader *)

LEMMA ReceiveKeeps ==
  ASSUME BatteryInv, NEW p \in Packet, Receive(p)
  PROVE  BatteryInv'
<1>1. CASE HandleSystemInfo(p)
  BY <1>1, SystemInfoKeeps
<1>2. CASE HandleDeviceStates(p)
  BY <1>2, UnchangedKeeps DEF HandleDeviceStates
<1>3. CASE HandleSections(p)
  BY <1>3, TablesKeep DEF HandleSections
<1>4. CASE HandlePgOutputs(p)
  BY <1>4, TablesKeep DEF HandlePgOutputs
<1>5. CASE HandleDeviceStatus(p)
  BY <1>5, StatusKeeps
<1>6. CASE HandleDeviceState(p)
  BY <1>6, EventKeeps
<1>7. CASE HandleDeviceInfo(p)
  BY <1>7, InfoKeeps
<1> QED  BY <1>1, <1>2, <1>3, <1>4, <1>5, <1>6, <1>7 DEF Receive, Handle

LEMMA StoreActiveKeeps ==
  ASSUME BatteryInv, StoreActive
  PROVE  BatteryInv'
<1> DEFINE subject == Head(todo).subject
           changes == [active |-> Head(todo).value]
<1>1. cache' = Put(cache, subject, Replace(Look(cache, subject), changes))
  BY DEF StoreActive
<1>2. ASSUME subject[1] = "device" \/ subject = Diagnosed
      PROVE  Whole(Look(cache, subject))
  <2>1. CASE subject \in DOMAIN cache
    <3>1. Look(cache, subject) = cache[subject]
      BY <2>1 DEF Look
    <3> QED  BY <1>2, <2>1, <3>1 DEF BatteryInv
  <2>2. CASE subject \notin DOMAIN cache
    <3>1. subject[1] = "device"
      BY <1>2, <2>2 DEF BatteryInv
    <3>2. Look(cache, subject) = NewSnapshot
      BY <2>2, <3>1 DEF Look
    <3> QED  BY <3>2 DEF NewSnapshot, Whole
  <2> QED  BY <2>1, <2>2
<1>3. LeavesWhole(Look(cache, subject), changes)
  BY DEF LeavesWhole
<1>4. subject[1] = "device" \/ subject = Diagnosed =>
        Whole(Replace(Look(cache, subject), changes))
  <2> HIDE DEF subject, changes
  <2> QED  BY <1>2, <1>3, ReplaceWhole
<1> HIDE DEF subject, changes
<1> QED  BY <1>1, <1>4, PutKeeps

LEMMA PassKeepsCache == ASSUME NEW p \in Pass, PassStep(p) PROVE UNCHANGED cache
BY DEF PassStep, Begin, Identified, Asked, AskGivenUp, Answered, TimedOut, Cancelled,
       WaitOver, TurnedOff, OffGivenUp, dataVars

LEMMA InitBattery == InitDiagnostics => BatteryInv
<1> SUFFICES ASSUME InitDiagnostics PROVE BatteryInv
  OBVIOUS
<1> DEFINE numbers == {m \in DOMAIN Definitions : AcceptDevice(m)}
           subjects == {CentralUnit, Diagnosed} \cup {Device(n) : n \in numbers}
           fresh(s) == CASE s = CentralUnit -> NewCentralUnit
                         [] s = Diagnosed -> NewDiagnostics
                         [] OTHER -> NewSnapshot
<1>1. cache = [s \in subjects |-> fresh(s)]
  BY DEF InitDiagnostics, Init
<1>2. DOMAIN cache = subjects
  BY <1>1
<1>3. CentralUnit[1] = "central_unit" /\ Diagnosed[1] = "diagnostics" /\ CentralUnit # Diagnosed
  BY DEF CentralUnit, Diagnosed
<1>4. Whole(NewSnapshot) /\ Whole(NewDiagnostics)
  BY DEF Whole, NewSnapshot, NewDiagnostics
<1>5. \A s \in DOMAIN cache : s[1] = "device" \/ s = Diagnosed => Whole(cache[s])
  <2> SUFFICES ASSUME NEW s \in DOMAIN cache, s[1] = "device" \/ s = Diagnosed
               PROVE  Whole(cache[s])
    OBVIOUS
  <2>1. s # CentralUnit
    BY <1>3
  <2>2. cache[s] = fresh(s)
    BY <1>1, <1>2
  <2>3. fresh(s) = NewDiagnostics \/ fresh(s) = NewSnapshot
    BY <2>1
  <2> QED  BY <1>4, <2>2, <2>3
<1>6. Diagnosed \in DOMAIN cache
  BY <1>2
<1> QED  BY <1>5, <1>6 DEF BatteryInv, BatteryWhole, Whole

LEMMA BatteryStep == BatteryInv /\ [NextDiagnostics]_vars => BatteryInv'
<1> SUFFICES ASSUME BatteryInv, [NextDiagnostics]_vars PROVE BatteryInv'
  OBVIOUS
<1>1. CASE ReceivePacket
  BY <1>1, ReceiveKeeps DEF ReceivePacket
<1>2. CASE ReceiveUnreadable
  BY <1>2, UnchangedKeeps DEF ReceiveUnreadable
<1>3. CASE HandleOn
  BY <1>3, StoreActiveKeeps, UnchangedKeeps DEF HandleOn, TellListener
<1>4. CASE StopReader
  BY <1>4, UnchangedKeeps DEF StopReader, CancelReader
<1>5. CASE Lose \/ Reconnect
  BY <1>5, UnchangedKeeps DEF Lose, Reconnect, dataVars
<1>6. ASSUME NEW p \in Pass, PassStep(p) PROVE BatteryInv'
  BY <1>6, PassKeepsCache, UnchangedKeeps
<1>7. CASE UNCHANGED vars
  BY <1>7, UnchangedKeeps DEF vars, dataVars
<1> QED  BY <1>1, <1>2, <1>3, <1>4, <1>5, <1>6, <1>7 DEF NextDiagnostics

\* Half of a battery is never stored: neither a fault nor a status nor an answer
\* of diagnostics, in whatever order they come, gives a state without a level.
THEOREM BatteriesWhole == Spec => []BatteryWhole
<1>1. BatteryInv => BatteryWhole
  BY DEF BatteryInv
<1> QED  BY InitBattery, BatteryStep, <1>1, PTL DEF Spec

-----------------------------------------------------------------------------
(* Passes: the inductive invariant, that they are where their tables say *)

KeeperInv ==
  /\ at = [p \in Pass |-> at[p]]
  /\ left = [p \in Pass |-> left[p]]
  /\ OnHasKeeper

\* A pass moves only itself.
LEMMA GoMoves ==
  ASSUME KeeperInv, NEW p \in Pass, NEW place, NEW numbers, Go(p, place, numbers)
  PROVE  /\ at' = [q \in Pass |-> at'[q]]
         /\ left' = [q \in Pass |-> left'[q]]
         /\ at'[p] = place /\ left'[p] = numbers
         /\ \A q \in Pass \ {p} : at'[q] = at[q] /\ left'[q] = left[q]
BY DEF KeeperInv, Go

LEMMA ProceedMoves ==
  ASSUME KeeperInv, NEW p \in Pass, NEW numbers, Proceed(p, numbers)
  PROVE  \E place, rest : Go(p, place, rest)
BY DEF Proceed, GiveUp

\* Nothing changes for a keeper when neither the passes nor "on" move.
LEMMA Unmoved ==
  ASSUME KeeperInv, UNCHANGED <<at, left, on, abandoned>>
  PROVE  KeeperInv'
BY DEF KeeperInv, OnHasKeeper, Current

\* The step of one pass: whoever kept another number keeps it.
LEMMA KeepersStay ==
  ASSUME KeeperInv, NEW p \in Pass, NEW place, NEW numbers, Go(p, place, numbers),
         NEW n, n \in on, n \notin abandoned,
         at[p] \notin {"wait", "off"} \/ Current(p) # n
  PROVE  \E q \in Pass : at'[q] \in {"wait", "off"} /\ Current(q)' = n
<1>1. PICK q \in Pass : at[q] \in {"wait", "off"} /\ Current(q) = n
  BY DEF KeeperInv, OnHasKeeper
<1>2. q # p
  BY <1>1
<1>3. at'[q] = at[q] /\ left'[q] = left[q]
  BY <1>2, GoMoves
<1> QED  BY <1>1, <1>3 DEF Current

LEMMA PassKeeps ==
  ASSUME KeeperInv, NEW p \in Pass, PassStep(p)
  PROVE  KeeperInv'
<1> USE DEF PassStep
<1>1. \E place, rest : Go(p, place, rest)
  BY ProceedMoves DEF Begin, Identified, Asked, AskGivenUp, Answered, TimedOut,
     Cancelled, WaitOver, TurnedOff, OffGivenUp, GiveUp
<1>2. PICK place, rest : Go(p, place, rest)
  BY <1>1
<1>3. /\ at' = [q \in Pass |-> at'[q]]
      /\ left' = [q \in Pass |-> left'[q]]
  BY <1>2, GoMoves
<1> SUFFICES ASSUME NEW n \in on', n \notin abandoned'
             PROVE  \E q \in Pass : at'[q] \in {"wait", "off"} /\ Current(q)' = n
  BY <1>3 DEF KeeperInv, OnHasKeeper
<1>4. CASE Begin(p) \/ Identified(p)
  <2>1. at[p] \notin {"wait", "off"} /\ n \in on /\ n \notin abandoned
    BY <1>4 DEF Begin, Identified
  <2> QED  BY <1>2, <2>1, KeepersStay
<1>5. CASE Asked(p)
  <2>1. at'[p] = "wait" /\ left'[p] = left[p]
    BY <1>5, GoMoves DEF Asked
  <2>2. CASE n = Current(p)
    BY <2>1, <2>2 DEF Current
  <2>3. CASE n # Current(p)
    <3>1. at[p] \notin {"wait", "off"} /\ n \in on /\ n \notin abandoned
      BY <1>5, <2>3 DEF Asked
    <3> QED  BY <1>2, <3>1, KeepersStay
  <2> QED  BY <2>2, <2>3
<1>6. CASE AskGivenUp(p)
  <2>1. at[p] \notin {"wait", "off"} /\ n \in on /\ n \notin abandoned
    BY <1>6 DEF AskGivenUp
  <2> QED  BY <1>2, <2>1, KeepersStay
<1>7. CASE \E cancelled \in BOOLEAN : WaitOver(p, cancelled)
  <2>1. PICK cancelled \in BOOLEAN : WaitOver(p, cancelled)
    BY <1>7
  <2>2. n \in on /\ n \notin abandoned
    BY <2>1 DEF WaitOver
  <2>3. CASE n # Current(p)
    BY <1>2, <2>2, <2>3, KeepersStay
  <2>4. CASE n = Current(p)
    <3>1. TurnsOff(cancelled)
      BY <2>1, <2>4 DEF WaitOver, TurnsOff
    <3>2. at'[p] = "off" /\ left'[p] = left[p]
      BY <2>1, <3>1, GoMoves DEF WaitOver
    <3> QED  BY <2>4, <3>2 DEF Current
  <2> QED  BY <2>3, <2>4
<1>8. CASE TurnedOff(p)
  <2>1. n \in on /\ n # Current(p) /\ n \notin abandoned
    BY <1>8 DEF TurnedOff
  <2> QED  BY <1>2, <2>1, KeepersStay
<1>9. CASE OffGivenUp(p)
  <2>1. n \in on /\ n # Current(p) /\ n \notin abandoned
    BY <1>9 DEF OffGivenUp
  <2> QED  BY <1>2, <2>1, KeepersStay
<1> QED  BY <1>4, <1>5, <1>6, <1>7, <1>8, <1>9 DEF Answered, TimedOut, Cancelled

LEMMA KeeperInit == InitDiagnostics => KeeperInv
BY DEF InitDiagnostics, KeeperInv, OnHasKeeper

LEMMA KeeperNext == KeeperInv /\ [NextDiagnostics]_vars => KeeperInv'
<1> SUFFICES ASSUME KeeperInv, [NextDiagnostics]_vars PROVE KeeperInv'
  OBVIOUS
<1>1. CASE UNCHANGED vars
  BY <1>1, Unmoved DEF vars, passVars
<1>2. CASE \/ ReceivePacket \/ ReceiveUnreadable \/ HandleOn
           \/ Lose \/ StopReader \/ Reconnect
  <2>1. UNCHANGED <<at, left, on, abandoned>>
    BY <1>2 DEF ReceivePacket, ReceiveUnreadable, HandleOn, Lose, StopReader,
                Reconnect, passVars
  <2> QED  BY <2>1, Unmoved
<1>3. CASE \E p \in Pass : PassStep(p)
  BY <1>3, PassKeeps
<1> QED  BY <1>1, <1>2, <1>3 DEF NextDiagnostics

\* refresh_diagnostics: whatever passes overlap, time out, are cancelled or lose
\* the connection, a number whose diagnostics are on is in some pass's hands,
\* or was given up by a failed or cancelled write or without a connection.
THEOREM DiagnosticsKept == Spec => []OnHasKeeper
<1>1. KeeperInv => OnHasKeeper
  BY DEF KeeperInv
<1> QED  BY KeeperInit, KeeperNext, <1>1, PTL DEF Spec
=============================================================================
